-------------------------- MODULE CombiningPromise --------------------------
(***************************************************************************)
(* What a rule combining algorithm promises, with no loop, no order of     *)
(* evaluation and no flags: the decisions it may give for the rules of a   *)
(* policy.  The promise is stated against everything the rules COULD have  *)
(* decided had none of them failed, and not from what the loops do: where  *)
(* they break it is said apart from it (Departs).                          *)
(***************************************************************************)
EXTENDS Xacml, Naturals, Sequences

Overrides3 == {"DenyOverrides3", "PermitOverrides3"}
Overrides2 == {"DenyOverrides2", "PermitOverrides2"}
Unless     == {"DenyUnlessPermit", "PermitUnlessDeny"}
Algorithms == Overrides3 \cup Overrides2 \cup Unless \cup {"FirstApplicable"}

(* The effect that decides at once, whatever the other rules say.          *)
Overriding(a) ==
  IF a \in {"DenyOverrides3", "DenyOverrides2", "PermitUnlessDeny"}
  THEN "Deny" ELSE "Permit"

(* One way the rules could have turned out had nothing failed.             *)
Outcomes == Effects \cup {"NotApplicable"}

Resolutions(rs) ==
  {r \in [DOMAIN rs -> Outcomes] : \A i \in DOMAIN rs : r[i] \in RuleOutcomes(rs[i])}

Occurs(r, d) == \E i \in DOMAIN r : r[i] = d

IsFirst(r, i) == /\ r[i] # "NotApplicable"
                 /\ \A j \in DOMAIN r : j < i => r[j] = "NotApplicable"

(* The decision of an algorithm on rules none of which fails.              *)
ErrorFree(a, r) ==
  IF a = "FirstApplicable"
    THEN IF \E i \in DOMAIN r : IsFirst(r, i)
         THEN r[CHOOSE i \in DOMAIN r : IsFirst(r, i)] ELSE "NotApplicable"
  ELSE IF Occurs(r, Overriding(a)) THEN Overriding(a)
  ELSE IF a \in Unless \/ Occurs(r, Opposite(Overriding(a)))
    THEN Opposite(Overriding(a))
  ELSE "NotApplicable"

CouldDecide(a, rs) == {ErrorFree(a, r) : r \in Resolutions(rs)}

(* The extended decision that says exactly which effects were possible.    *)
Envelope(S) ==
  IF \E d \in Outcomes : S = {d} THEN CHOOSE d \in Outcomes : S = {d}
  ELSE IF "Permit" \notin S THEN "IndeterminateD"
  ELSE IF "Deny" \notin S THEN "IndeterminateP"
  ELSE "IndeterminateDP"

(* The XACML 3.0 algorithms read extended decisions only: for rules of an  *)
(* XACML 2.0 policy, whose failures name no effect, they promise nothing.  *)
Understood(a, rs) == a \in Overrides3 => \A i \in DOMAIN rs : rs[i].v3

(* The 3.0 overrides algorithms answer the exact envelope.  The 1.0 ones   *)
(* are definite exactly when nothing else was possible, first-applicable   *)
(* only if.  The unless algorithms count every failure against the         *)
(* overriding effect.                                                      *)
Promised(a, rs) ==
  LET could == CouldDecide(a, rs) IN
  IF a \in Overrides3 THEN {Envelope(could)}
  ELSE IF a \in Unless
    THEN {IF could = {Overriding(a)} THEN Overriding(a) ELSE Opposite(Overriding(a))}
  ELSE IF \E d \in Outcomes : could = {d}
    THEN could \cup (IF a = "FirstApplicable" THEN Indeterminates ELSE {})
  ELSE Indeterminates

(* Where the code departs from the promise: the cascade that ends the      *)
(* permit-overrides 3.0 loop has no branch for a lost Deny alone.          *)
Departs(a, rs) ==
  a = "PermitOverrides3" /\ CouldDecide(a, rs) = {"Deny", "NotApplicable"}

(* What the code answers: what is promised, and where it departs from the  *)
(* promise something else.                                                 *)
Answers(a, rs) ==
  IF ~ Understood(a, rs) THEN Decisions
  ELSE IF Departs(a, rs) THEN Decisions \ Promised(a, rs) ELSE Promised(a, rs)
=============================================================================

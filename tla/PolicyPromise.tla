--------------------------- MODULE PolicyPromise ---------------------------
(***************************************************************************)
(* What a policy combining algorithm promises for the policies of a policy *)
(* set, stated like CombiningPromise against everything the policies could *)
(* have decided had nothing failed: neither a target nor an evaluation.    *)
(* The promise (PolicyPromised) knows nothing of the loops; where the      *)
(* *PolicyAlg classes break it is said apart from it (PolicyDeparts,       *)
(* MatchMayThrow).                                                         *)
(*                                                                         *)
(* A policy is abstracted to what its parent can observe of it: the        *)
(* outcome of its target (Absent: it has none) and the decision its own    *)
(* combining algorithm gives for this request.                             *)
(***************************************************************************)
EXTENDS CombiningPromise, FiniteSets

Matching == Overrides3 \cup Overrides2 \cup {"FirstApplicable", "OnlyOneApplicable"}
PolicyAlgorithms == Matching \cup Unless

PolicyInstances == [target : MatchResults \cup {Absent}, combined : Decisions]

(* An exception instead of a decision.                                     *)
Throws   == "throws"
Verdicts == Decisions \cup {Throws}

(* AbstractPolicy.evaluate looks at the target again before it combines: a *)
(* policy without one applies, a failed target counts as one that does not *)
(* match.                                                                  *)
Applies(p)  == p.target \in {"MATCH", Absent}
Evaluate(p) == IF Applies(p) THEN p.combined ELSE "NotApplicable"

MissesTarget(p) == p.target = "INDETERMINATE"

(* What a policy could have decided, from what it did decide.              *)
Behind(d) == IF d \in Outcomes THEN {d}
             ELSE Outcomes \ {e \in Effects : d = IndeterminateOf(Opposite(e))}

PolicyOutcomes(p) == IF Applies(p) THEN Behind(p.combined)
                     ELSE IF MissesTarget(p) THEN Behind(p.combined) \cup {"NotApplicable"}
                     ELSE {"NotApplicable"}

PolicyCouldDecide(a, ps) ==
  {ErrorFree(a, r) : r \in {q \in [DOMAIN ps -> Outcomes] :
                              \A i \in DOMAIN ps : q[i] \in PolicyOutcomes(ps[i])}}

Applicable(ps) == {i \in DOMAIN ps : Applies(ps[i])}
Troubled(p)    == MissesTarget(p) \/ Evaluate(p) \in Indeterminates

(* The policy has this effect, whatever failed.                            *)
Surely(p, e) == PolicyOutcomes(p) = {e}

(* The promise.  The 3.0 overrides algorithms answer the exact envelope of *)
(* what the policies could have decided.  In 1.0, deny-overrides takes any *)
(* trouble for a Deny, and permit-overrides prefers a Deny to a Permit     *)
(* that was lost.                                                          *)
OverridesPromise(a, ps) ==
  LET could   == PolicyCouldDecide(a, ps)
      trouble == \E i \in DOMAIN ps : Troubled(ps[i])
  IN IF a \in Overrides3 THEN {Envelope(could)}
     ELSE IF a = "DenyOverrides2" THEN (IF trouble THEN {"Deny"} ELSE could)
     ELSE IF could = Effects THEN {"Deny"}
     ELSE IF \E e \in Effects : could = {e} THEN could
     ELSE {IF trouble THEN "Indeterminate" ELSE "NotApplicable"}

(* First-applicable gives an effect only if nothing else was possible, and *)
(* is indeterminate only if a policy in trouble comes before any that      *)
(* surely has an effect.                                                   *)
FirstApplicablePromise(ps) ==
  LET could == PolicyCouldDecide("FirstApplicable", ps) IN
  {d \in Outcomes : could = {d}}
    \cup {d \in Indeterminates : \E i \in DOMAIN ps :
             Troubled(ps[i]) /\ \A j \in 1 .. i - 1, e \in Effects : ~ Surely(ps[j], e)}

OnlyOneApplicablePromise(ps) ==
  IF Cardinality(Applicable(ps)) > 1 \/ \E i \in DOMAIN ps : MissesTarget(ps[i])
    THEN {"Indeterminate"}
  ELSE IF Applicable(ps) = {} THEN {"NotApplicable"}
  ELSE {ps[i].combined : i \in Applicable(ps)}

(* An unless algorithm is definite: the effect it is named for decides if  *)
(* a policy surely has it.                                                 *)
UnlessPromise(a, ps) ==
  {IF PolicyCouldDecide(a, ps) = {Overriding(a)} THEN Overriding(a) ELSE Opposite(Overriding(a))}

PolicyPromised(a, ps) ==
  IF a \in Overrides3 \cup Overrides2 THEN OverridesPromise(a, ps)
  ELSE IF a = "FirstApplicable" THEN FirstApplicablePromise(ps)
  ELSE IF a = "OnlyOneApplicable" THEN OnlyOneApplicablePromise(ps)
  ELSE UnlessPromise(a, ps)

-----------------------------------------------------------------------------
(* Where the code departs from the promise.  A failed target ends          *)
(* deny-overrides 3.0 with Deny, and a lost Deny beside a possible Permit  *)
(* is reported as both only if the loop has seen both in this way:         *)
SeesBoth(ps) ==
  LET Given(d) == \E i \in DOMAIN ps : Evaluate(ps[i]) = d IN
  \/ Given("IndeterminateDP")
  \/ Given("IndeterminateD") /\ Given("IndeterminateP") /\ Given("Permit")

(* Permit-overrides 3.0 passes over a policy whose target failed, and like *)
(* the other 3.0 classes over one that answers a plain Indeterminate.      *)
Overlook(ps) == [i \in DOMAIN ps |->
                   IF MissesTarget(ps[i]) \/ Evaluate(ps[i]) = "Indeterminate"
                     THEN [ps[i] EXCEPT !.target = "NO_MATCH"] ELSE ps[i]]

(* It also loses a lost Deny, as the rule version does.  The elements of   *)
(* permit-unless-deny are cast to a class they do not have.                *)
PolicyDeparts(a, ps) ==
  LET could == PolicyCouldDecide(a, ps)
      seen  == PolicyCouldDecide(a, Overlook(ps))
  IN \/ a = "DenyOverrides3" /\ could # {"Deny"} /\ \E i \in DOMAIN ps : MissesTarget(ps[i])
     \/ a = "DenyOverrides3" /\ Effects \subseteq could /\ ~ SeesBoth(ps)
     \/ a = "PermitOverrides3" /\ (seen # could \/ seen = {"Deny", "NotApplicable"})
     \/ a = "PermitUnlessDeny" /\ ps # <<>>

(* The classes that ask for a match before they evaluate call              *)
(* AbstractPolicy.match, which throws for a policy without a target if the *)
(* loop comes to it.                                                       *)
MatchMayThrow(a, ps) == a \in Matching /\ \E i \in DOMAIN ps : ps[i].target = Absent

(* What the code answers: what is promised, where it departs from the      *)
(* promise something else.                                                 *)
PolicyAnswers(a, ps) ==
  (IF PolicyDeparts(a, ps) THEN Verdicts \ PolicyPromised(a, ps) ELSE PolicyPromised(a, ps))
    \cup {v \in {Throws} : MatchMayThrow(a, ps)}
=============================================================================

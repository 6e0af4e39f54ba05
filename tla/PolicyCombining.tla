-------------------------- MODULE PolicyCombining --------------------------
(***************************************************************************)
(* The policy combining algorithms: the combine methods of the *PolicyAlg  *)
(* classes of org.wso2.balana.combine.xacml2 and .xacml3.  Unlike a rule,  *)
(* a policy is first asked whether its target matches and evaluated only   *)
(* then; the classes differ in what they make of a target that fails.      *)
(*                                                                         *)
(* EvaluationCtx.isSearching() is false for every context the program      *)
(* makes (BasicEvaluationCtx), so first-applicable never searches on.      *)
(***************************************************************************)
EXTENDS PolicyPromise

CONSTANT PolicyLists   (* the policy sets considered                       *)

ASSUME PolicyListsAssumption == PolicyLists \subseteq Seq(PolicyInstances)

VARIABLES alg, policies,
          pos,         (* policies dealt with so far                       *)
          matched,     (* policies whose match method answered MATCH       *)
          evaluated,   (* policies whose evaluate method was called        *)
          selected,    (* selectedPolicy (only-one-applicable), 0: null    *)
          firstD,      (* firstIndeterminateResultD: its policy, 0: null   *)
          firstP,      (* firstIndeterminateResultP                        *)
          firstDP,     (* firstIndeterminateResultDP                       *)
          firstError,  (* firstIndeterminateStatus (1.0 permit-overrides)  *)
          atLeastOne,  (* atLeastOnePermit / atLeastOneDeny                *)
          carried,     (* policies whose obligations have been collected   *)
          result

seen   == <<matched, evaluated>>
errors == <<firstD, firstP, firstDP, firstError>>
kept   == <<selected, errors, atLeastOne, carried>>
vars   == <<alg, policies, pos, seen, kept, result>>

Pending  == "Pending"
NoResult == [decision |-> Pending, status |-> 0, obligations |-> {}]

X == Overriding(alg)
Y == Opposite(X)

Init == /\ alg \in PolicyAlgorithms
        /\ policies \in PolicyLists
        /\ pos = 0 /\ matched = {} /\ evaluated = {}
        /\ selected = 0 /\ atLeastOne = FALSE /\ carried = {}
        /\ firstD = 0 /\ firstP = 0 /\ firstDP = 0 /\ firstError = 0
        /\ result = NoResult

Definite(d, from)  == [decision |-> d, status |-> 0, obligations |-> from]
Error(d, at)       == [decision |-> d, status |-> at, obligations |-> {}]
NoneApplied        == Definite("NotApplicable", {})

(* The result object policy i itself returns.                              *)
ResultOf(i) ==
  LET d == Evaluate(policies[i]) IN
  IF d \in Indeterminates THEN Error(d, i)
  ELSE Definite(d, IF d \in Effects THEN {i} ELSE {})

(* Faulty variant: the policy before the one that failed.                  *)
FirstBefore(k) == IF k = 0 THEN pos ELSE k

First(k) == IF k = 0 THEN pos + 1 ELSE k

-----------------------------------------------------------------------------
(* Faulty variant: the iterator is not advanced.                           *)
IterateStuck(target) == /\ result = NoResult
                        /\ pos < Len(policies)
                        /\ target = policies[pos + 1].target
                        /\ UNCHANGED <<alg, policies, pos>>

(* One iteration, by what the target of the next policy answers.           *)
Iterate(target) == /\ result = NoResult
                   /\ pos < Len(policies)
                   /\ target = policies[pos + 1].target
                   /\ pos' = pos + 1
                   /\ UNCHANGED <<alg, policies>>

MatchThrows ==
  /\ Iterate(Absent)
  /\ alg \in Matching
  /\ result' = Definite(Throws, {})
  /\ UNCHANGED <<seen, kept>>

SkipUnmatched ==
  /\ Iterate("NO_MATCH")
  /\ alg \in Matching
  /\ UNCHANGED <<seen, kept, result>>

DenyFailedMatch ==
  /\ Iterate("INDETERMINATE")
  /\ alg \in {"DenyOverrides3", "DenyOverrides2"}
  /\ result' = Definite("Deny", {})
  /\ UNCHANGED <<seen, kept>>

ReturnFailedMatch ==
  /\ Iterate("INDETERMINATE")
  /\ alg \in {"FirstApplicable", "OnlyOneApplicable"}
  /\ result' = Error("Indeterminate", pos + 1)
  /\ UNCHANGED <<seen, kept>>

RecordFailedMatch ==
  /\ Iterate("INDETERMINATE")
  /\ alg = "PermitOverrides2"
  /\ firstError' = First(firstError)
  /\ UNCHANGED <<seen, selected, firstD, firstP, firstDP, atLeastOne, carried, result>>

(* The branch is commented out in the 3.0 class.                           *)
IgnoreFailedMatch ==
  /\ Iterate("INDETERMINATE")
  /\ alg = "PermitOverrides3"
  /\ UNCHANGED <<seen, kept, result>>

(* Faulty variant: the last applicable policy is taken.                    *)
SelectPolicyLast ==
  /\ Iterate("MATCH")
  /\ alg = "OnlyOneApplicable"
  /\ selected' = pos + 1
  /\ matched' = matched \cup {pos + 1}
  /\ UNCHANGED <<evaluated, errors, atLeastOne, carried, result>>

SelectPolicy ==
  /\ Iterate("MATCH")
  /\ alg = "OnlyOneApplicable" /\ selected = 0
  /\ selected' = pos + 1
  /\ matched' = matched \cup {pos + 1}
  /\ UNCHANGED <<evaluated, errors, atLeastOne, carried, result>>

(* "Too many applicable policies"                                          *)
RejectSecondMatch ==
  /\ Iterate("MATCH")
  /\ alg = "OnlyOneApplicable" /\ selected # 0
  /\ matched' = matched \cup {pos + 1}
  /\ result' = Error("Indeterminate", pos + 1)
  /\ UNCHANGED <<evaluated, kept>>

-----------------------------------------------------------------------------
(* The policy is evaluated, d is what it returns.  The classes that match  *)
(* first get here on MATCH only, deny-unless-permit whatever the target.   *)
EvaluateNext(d) ==
  /\ \/ alg \in Matching \ {"OnlyOneApplicable"} /\ Iterate("MATCH")
     \/ alg = "DenyUnlessPermit" /\ \E t \in MatchResults \cup {Absent} : Iterate(t)
  /\ d = Evaluate(policies[pos + 1])
  /\ matched' = IF alg \in Matching THEN matched \cup {pos + 1} ELSE matched
  /\ evaluated' = evaluated \cup {pos + 1}

Stops(d) == IF alg = "FirstApplicable" THEN d # "NotApplicable" ELSE d = X

ReturnPolicyResult(d) ==
  /\ EvaluateNext(d)
  /\ Stops(d)
  /\ result' = ResultOf(pos + 1)
  /\ UNCHANGED kept

SkipNotApplicable(d) ==
  /\ EvaluateNext(d)
  /\ d = "NotApplicable"
  /\ UNCHANGED <<kept, result>>

CollectEffect(d) ==
  /\ EvaluateNext(d)
  /\ ~ Stops(d) /\ d = Y
  /\ atLeastOne' = TRUE
  /\ carried' = carried \cup ResultOf(pos + 1).obligations
  /\ UNCHANGED <<selected, errors, result>>

(* 3.0: the first failure of each kind.  A plain Indeterminate leaves no   *)
(* trace.                                                                  *)
RecordError3(d) ==
  /\ EvaluateNext(d)
  /\ alg \in Overrides3 /\ d \in Indeterminates
  /\ firstD'  = IF d = "IndeterminateD"  THEN First(firstD)  ELSE firstD
  /\ firstP'  = IF d = "IndeterminateP"  THEN First(firstP)  ELSE firstP
  /\ firstDP' = IF d = "IndeterminateDP" THEN First(firstDP) ELSE firstDP
  /\ UNCHANGED <<selected, firstError, atLeastOne, carried, result>>

RecordError2(d) ==
  /\ EvaluateNext(d)
  /\ alg = "PermitOverrides2" /\ d \in Indeterminates
  /\ firstError' = First(firstError)
  /\ UNCHANGED <<selected, firstD, firstP, firstDP, atLeastOne, carried, result>>

(* Faulty variant: the obligations collected so far go with the Deny.      *)
DenyError2Carrying(d) ==
  /\ EvaluateNext(d)
  /\ alg = "DenyOverrides2" /\ d \in Indeterminates
  /\ result' = Definite("Deny", carried)
  /\ UNCHANGED kept

(* "we always return DENY if any Policy returns DENY or INDETERMINATE"     *)
DenyError2(d) ==
  /\ EvaluateNext(d)
  /\ alg = "DenyOverrides2" /\ d \in Indeterminates
  /\ result' = Definite("Deny", {})
  /\ UNCHANGED kept

IgnoreError(d) ==
  /\ EvaluateNext(d)
  /\ alg = "DenyUnlessPermit" /\ d \in Indeterminates
  /\ UNCHANGED <<kept, result>>

(* Permit-unless-deny casts its elements to RuleCombinerElement, which a   *)
(* PolicyCombinerElement is not (ClassCastException).                      *)
CastElement ==
  /\ \E t \in MatchResults \cup {Absent} : Iterate(t)
  /\ alg = "PermitUnlessDeny"
  /\ result' = Definite(Throws, {})
  /\ UNCHANGED <<seen, kept>>

-----------------------------------------------------------------------------
(* Faulty variant: a Permit is preferred to a Deny that was lost.          *)
DenyOverrides3EndPermit ==
  IF firstDP # 0 THEN Error("IndeterminateDP", firstDP)
  ELSE IF atLeastOne THEN Definite("Permit", carried)
  ELSE IF firstD # 0 THEN Error("IndeterminateD", firstD)
  ELSE IF firstP # 0 THEN Error("IndeterminateP", firstP)
  ELSE NoneApplied

(* The code after the loops.                                               *)
DenyOverrides3End ==
  IF firstDP # 0 THEN Error("IndeterminateDP", firstDP)
  ELSE IF firstD # 0 /\ firstP # 0 /\ atLeastOne THEN Error("IndeterminateDP", firstD)
  ELSE IF firstD # 0 THEN Error("IndeterminateD", firstD)
  ELSE IF atLeastOne THEN Definite("Permit", carried)
  ELSE IF firstP # 0 THEN Error("IndeterminateP", firstP)
  ELSE NoneApplied

PermitOverrides3End ==
  IF firstDP # 0 THEN Error("IndeterminateDP", firstDP)
  ELSE IF firstP # 0 /\ (firstD # 0 \/ atLeastOne) THEN Error("IndeterminateDP", firstP)
  ELSE IF firstP # 0 THEN Error("IndeterminateP", firstP)
  ELSE IF atLeastOne THEN Definite("Deny", carried)
  ELSE NoneApplied

DenyOverrides2End == IF atLeastOne THEN Definite("Permit", carried) ELSE NoneApplied

PermitOverrides2End ==
  IF atLeastOne THEN Definite("Deny", carried)
  ELSE IF firstError # 0 THEN Error("Indeterminate", firstError)
  ELSE NoneApplied

FirstApplicableEnd   == NoneApplied
OnlyOneApplicableEnd == IF selected # 0 THEN ResultOf(selected) ELSE NoneApplied
DenyUnlessPermitEnd  == Definite("Deny", carried)
PermitUnlessDenyEnd  == Definite("Permit", carried)

EndOfPolicies ==
  /\ result = NoResult
  /\ pos = Len(policies)
  /\ result' = CASE alg = "DenyOverrides3"    -> DenyOverrides3End
                 [] alg = "PermitOverrides3"  -> PermitOverrides3End
                 [] alg = "DenyOverrides2"    -> DenyOverrides2End
                 [] alg = "PermitOverrides2"  -> PermitOverrides2End
                 [] alg = "FirstApplicable"   -> FirstApplicableEnd
                 [] alg = "OnlyOneApplicable" -> OnlyOneApplicableEnd
                 [] alg = "DenyUnlessPermit"  -> DenyUnlessPermitEnd
                 [] alg = "PermitUnlessDeny"  -> PermitUnlessDenyEnd
  /\ evaluated' = IF selected # 0 THEN evaluated \cup {selected} ELSE evaluated
  /\ UNCHANGED <<alg, policies, pos, matched, kept>>

Next == \/ MatchThrows \/ SkipUnmatched
        \/ DenyFailedMatch \/ ReturnFailedMatch \/ RecordFailedMatch \/ IgnoreFailedMatch
        \/ SelectPolicy \/ RejectSecondMatch
        \/ \E d \in Decisions :
             \/ ReturnPolicyResult(d)
             \/ SkipNotApplicable(d)
             \/ CollectEffect(d)
             \/ RecordError3(d)
             \/ RecordError2(d)
             \/ DenyError2(d)
             \/ IgnoreError(d)
        \/ CastElement
        \/ EndOfPolicies

Spec == Init /\ [][Next]_vars

-----------------------------------------------------------------------------
TypeOK ==
  /\ alg \in PolicyAlgorithms
  /\ policies \in PolicyLists
  /\ pos \in 0 .. Len(policies)
  /\ matched \subseteq 1 .. pos /\ evaluated \subseteq 1 .. pos
  /\ {selected, firstD, firstP, firstDP, firstError} \subseteq 0 .. pos
  /\ atLeastOne \in BOOLEAN
  /\ carried \subseteq 1 .. pos
  /\ result = NoResult \/ result \in [decision    : Verdicts,
                                      status      : 0 .. pos,
                                      obligations : SUBSET (1 .. pos)]

(* The loops keep the promise of PolicyPromise, except exactly where it    *)
(* says that the code departs from it: the decision depends on what all    *)
(* the policies of the set could decide, whichever policy the loop stops   *)
(* at, it is given once, and only a policy without a target may end the    *)
(* loop with an exception instead (AbstractPolicy.match).                  *)
Once == INSTANCE CombineOnce WITH Algorithms <- PolicyAlgorithms, Allowed <- PolicyAnswers,
          ChildLists <- PolicyLists, children <- policies, verdict <- result.decision
KeepsPromise == Once!Spec

(* Obligations reach the enforcement point only with the decision of the   *)
(* policies they belong to, and a Deny that stands for a failure carries   *)
(* none: only a policy that was evaluated to the decision returned may     *)
(* contribute, and unless the answer is given early all of them do.        *)
ObligationsOfDecision ==
  /\ \A i \in result.obligations :
       i \in evaluated /\ Evaluate(policies[i]) = result.decision
  /\ result.decision = Y /\ alg \notin {"FirstApplicable", "OnlyOneApplicable"} =>
       result.obligations = {i \in evaluated : Evaluate(policies[i]) = Y}

(* An indeterminate answer carries the status of a policy that explains    *)
(* it: one in trouble, or the second of two that both apply.               *)
StatusExplains ==
  result.decision \in Indeterminates =>
    /\ result.status \in 1 .. pos
    /\ \/ Troubled(policies[result.status])
       \/ alg = "OnlyOneApplicable" /\ {selected, result.status} \subseteq matched
            /\ selected < result.status

(* Only-one-applicable evaluates a policy only once it knows that no other *)
(* applies: a second policy is never evaluated, nor any before the targets *)
(* of all have been matched.                                               *)
OnlyOneEvaluated ==
  alg = "OnlyOneApplicable" /\ evaluated # {} =>
    /\ evaluated = Applicable(policies)
    /\ evaluated = matched
    /\ pos = Len(policies)

(* The classes of the unless algorithms: 'an "Indeterminate" or            *)
(* "NotApplicable" must never be the result', "a PDP will always return a  *)
(* definite Permit or Deny".                                               *)
UnlessIsDefinite ==
  alg \in Unless /\ result # NoResult => result.decision \in Effects

(* The comment that closes permit-overrides 3.0, "if we hit this point,    *)
(* then none of the rules actually applied to us, so we return             *)
(* NOT_APPLICABLE", read as a claim about the policies of the set: none of *)
(* them could have had an effect.  (Policies that answer a plain           *)
(* Indeterminate, which names no effect, are left aside.)                  *)
NotApplicableMeansNoneApplied ==
  result.decision = "NotApplicable" /\ alg = "PermitOverrides3" =>
    \A i \in DOMAIN policies :
      policies[i].combined # "Indeterminate" => PolicyOutcomes(policies[i]) = {"NotApplicable"}

(* "If the Target is null then it's supposed to inherit from the parent    *)
(* policy, so we skip the matching step" (AbstractPolicy.evaluate): a      *)
(* policy without a target is one that matches, so no class that matches   *)
(* first fails for it.                                                     *)
MissingTargetInherits ==
  result.decision = Throws => alg \notin Matching
=============================================================================

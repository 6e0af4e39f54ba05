---------------------------- MODULE RuleCombining ----------------------------
(***************************************************************************)
(* The rule combining algorithms of the policy decision point: the combine *)
(* methods of the *RuleAlg classes of org.wso2.balana.combine.xacml2 and   *)
(* .xacml3 (the Ordered variants inherit them).  Each is a loop over the   *)
(* rules that evaluates one rule per iteration, may return from inside the *)
(* loop, and otherwise ends in a cascade over the flags it has set.        *)
(*                                                                         *)
(* An AbstractResult is abstracted to its decision, the rule its status    *)
(* comes from (0: the OK status) and the rules whose obligations and       *)
(* advices it carries.                                                     *)
(***************************************************************************)
EXTENDS CombiningPromise

CONSTANT RuleLists   (* the policies considered: lists of rule instances   *)

ASSUME RuleListsAssumption == RuleLists \subseteq Seq(RuleInstances)

VARIABLES alg, rules,
          pos,         (* rules evaluated so far                           *)
          firstD,      (* firstIndeterminateResultD: its rule, 0 for null  *)
          firstP,      (* firstIndeterminateResultP                        *)
          firstError,  (* firstIndeterminateResult (1.0 algorithms)        *)
          potential,   (* potentialDeny / potentialPermit                  *)
          atLeastOne,  (* atLeastOnePermit / atLeastOneDeny                *)
          carried,     (* rules whose obligations have been collected      *)
          result       (* what combine returned, NoResult while it runs    *)

loop == <<firstD, firstP, firstError, potential, atLeastOne, carried>>
vars == <<alg, rules, pos, loop, result>>

Pending  == "Pending"
NoResult == [decision |-> Pending, status |-> 0, obligations |-> {}]

X == Overriding(alg)   (* the effect that overrides                        *)
Y == Opposite(X)       (* the effect it overrides                          *)

Init == /\ alg \in Algorithms
        /\ rules \in RuleLists
        /\ pos = 0
        /\ firstD = 0 /\ firstP = 0 /\ firstError = 0
        /\ potential = FALSE /\ atLeastOne = FALSE
        /\ carried = {}
        /\ result = NoResult

Definite(d, from)  == [decision |-> d, status |-> 0, obligations |-> from]
Error(d, at)       == [decision |-> d, status |-> at, obligations |-> {}]
NoneApplied        == Definite("NotApplicable", {})

(* The result object that rule i itself returns.                           *)
ResultOf(i) ==
  LET d == RuleDecision(rules[i]) IN
  IF d \in Indeterminates THEN Error(d, i)
  ELSE Definite(d, IF d \in Effects THEN {i} ELSE {})

-----------------------------------------------------------------------------
(* Faulty variant: the iterator is not advanced.                           *)
IterateStuck(d) == /\ result = NoResult
                   /\ pos < Len(rules)
                   /\ d = RuleDecision(rules[pos + 1])
                   /\ UNCHANGED <<alg, rules, pos>>

(* One iteration: rule pos + 1 is evaluated and d is its decision.         *)
Iterate(d) == /\ result = NoResult
              /\ pos < Len(rules)
              /\ d = RuleDecision(rules[pos + 1])
              /\ pos' = pos + 1
              /\ UNCHANGED <<alg, rules>>

(* The decisions that end the loop at once.                                *)
Stops(d) == IF alg = "FirstApplicable" THEN d # "NotApplicable" ELSE d = X

ReturnRuleResult(d) ==
  /\ Iterate(d)
  /\ Stops(d)
  /\ result' = ResultOf(pos + 1)
  /\ UNCHANGED loop

SkipNotApplicable(d) ==
  /\ Iterate(d)
  /\ d = "NotApplicable"
  /\ UNCHANGED <<loop, result>>

(* Faulty variant: the list is replaced instead of extended.               *)
CollectEffectLast(d) ==
  /\ Iterate(d)
  /\ ~ Stops(d) /\ d = Y
  /\ atLeastOne' = TRUE
  /\ carried' = ResultOf(pos + 1).obligations
  /\ UNCHANGED <<firstD, firstP, firstError, potential, result>>

CollectEffect(d) ==
  /\ Iterate(d)
  /\ ~ Stops(d) /\ d = Y
  /\ atLeastOne' = TRUE
  /\ carried' = carried \cup ResultOf(pos + 1).obligations
  /\ UNCHANGED <<firstD, firstP, firstError, potential, result>>

(* Faulty variant: without the test for null, the last failure wins.       *)
RecordError3Last(d) ==
  /\ Iterate(d)
  /\ alg \in Overrides3 /\ d \in Indeterminates
  /\ firstD' = IF d = "IndeterminateD" THEN pos + 1 ELSE firstD
  /\ firstP' = IF d = "IndeterminateP" THEN pos + 1 ELSE firstP
  /\ UNCHANGED <<firstError, potential, atLeastOne, carried, result>>

(* 3.0 overrides: remember the first failure of each effect.  A plain      *)
(* Indeterminate leaves no trace.                                          *)
RecordError3(d) ==
  /\ Iterate(d)
  /\ alg \in Overrides3 /\ d \in Indeterminates
  /\ firstD' = IF d = "IndeterminateD" /\ firstD = 0 THEN pos + 1 ELSE firstD
  /\ firstP' = IF d = "IndeterminateP" /\ firstP = 0 THEN pos + 1 ELSE firstP
  /\ UNCHANGED <<firstError, potential, atLeastOne, carried, result>>

(* Faulty variant: only the first failure is asked for its effect.         *)
RecordError2First(d) ==
  /\ Iterate(d)
  /\ alg \in Overrides2 /\ d \in Indeterminates
  /\ firstError' = IF firstError = 0 THEN pos + 1 ELSE firstError
  /\ potential' = IF firstError = 0 THEN rules[pos + 1].effect = X ELSE potential
  /\ UNCHANGED <<firstD, firstP, atLeastOne, carried, result>>

(* 1.0 overrides: remember the first failure of any effect, and whether a  *)
(* rule with the overriding effect failed.                                 *)
RecordError2(d) ==
  /\ Iterate(d)
  /\ alg \in Overrides2 /\ d \in Indeterminates
  /\ firstError' = IF firstError = 0 THEN pos + 1 ELSE firstError
  /\ potential' = (potential \/ rules[pos + 1].effect = X)
  /\ UNCHANGED <<firstD, firstP, atLeastOne, carried, result>>

(* The unless algorithms test for Permit and Deny only.                    *)
IgnoreError(d) ==
  /\ Iterate(d)
  /\ alg \in Unless /\ d \in Indeterminates
  /\ UNCHANGED <<loop, result>>

-----------------------------------------------------------------------------
(* Faulty variant: the test of the policy version, "&&" for "||".          *)
DenyOverrides3EndBoth ==
  IF firstD # 0 /\ firstP # 0 /\ atLeastOne THEN Error("IndeterminateDP", firstD)
  ELSE IF firstD # 0 THEN Error("IndeterminateD", firstD)
  ELSE IF atLeastOne THEN Definite("Permit", carried)
  ELSE IF firstP # 0 THEN Error("IndeterminateP", firstP)
  ELSE NoneApplied

(* The code after the loop, one definition per class.                      *)
DenyOverrides3End ==
  IF firstD # 0 /\ (firstP # 0 \/ atLeastOne) THEN Error("IndeterminateDP", firstD)
  ELSE IF firstD # 0 THEN Error("IndeterminateD", firstD)
  ELSE IF atLeastOne THEN Definite("Permit", carried)
  ELSE IF firstP # 0 THEN Error("IndeterminateP", firstP)
  ELSE NoneApplied

(* There is no branch for firstD alone.                                    *)
PermitOverrides3End ==
  IF firstP # 0 /\ (firstD # 0 \/ atLeastOne) THEN Error("IndeterminateDP", firstP)
  ELSE IF firstP # 0 THEN Error("IndeterminateP", firstP)
  ELSE IF atLeastOne THEN Definite("Deny", carried)
  ELSE NoneApplied

DenyOverrides2End ==
  IF potential THEN ResultOf(firstError)
  ELSE IF atLeastOne THEN Definite("Permit", carried)
  ELSE IF firstError # 0 THEN ResultOf(firstError)
  ELSE NoneApplied

PermitOverrides2End ==
  IF potential THEN ResultOf(firstError)
  ELSE IF atLeastOne THEN Definite("Deny", carried)
  ELSE IF firstError # 0 THEN ResultOf(firstError)
  ELSE NoneApplied

DenyUnlessPermitEnd == Definite("Deny", carried)
PermitUnlessDenyEnd == Definite("Permit", carried)
FirstApplicableEnd  == NoneApplied

EndOfRules ==
  /\ result = NoResult
  /\ pos = Len(rules)
  /\ result' = CASE alg = "DenyOverrides3"   -> DenyOverrides3End
                 [] alg = "PermitOverrides3" -> PermitOverrides3End
                 [] alg = "DenyOverrides2"   -> DenyOverrides2End
                 [] alg = "PermitOverrides2" -> PermitOverrides2End
                 [] alg = "DenyUnlessPermit" -> DenyUnlessPermitEnd
                 [] alg = "PermitUnlessDeny" -> PermitUnlessDenyEnd
                 [] alg = "FirstApplicable"  -> FirstApplicableEnd
  /\ UNCHANGED <<alg, rules, pos, loop>>

Next == \/ \E d \in Decisions :
             \/ ReturnRuleResult(d)
             \/ SkipNotApplicable(d)
             \/ CollectEffect(d)
             \/ RecordError3(d)
             \/ RecordError2(d)
             \/ IgnoreError(d)
        \/ EndOfRules

Spec == Init /\ [][Next]_vars

-----------------------------------------------------------------------------
TypeOK ==
  /\ alg \in Algorithms
  /\ rules \in RuleLists
  /\ pos \in 0 .. Len(rules)
  /\ firstD \in 0 .. pos /\ firstP \in 0 .. pos /\ firstError \in 0 .. pos
  /\ potential \in BOOLEAN /\ atLeastOne \in BOOLEAN
  /\ carried \subseteq 1 .. pos
  /\ result = NoResult \/ result \in [decision    : Decisions,
                                      status      : 0 .. pos,
                                      obligations : SUBSET (1 .. pos)]

Dec(i) == RuleDecision(rules[i])

(* k is the first of the first n rules whose decision is in S, 0 if none.  *)
FirstIn(rs, n, k, S) ==
  IF k = 0 THEN \A i \in 1 .. n : RuleDecision(rs[i]) \notin S
  ELSE /\ k \in 1 .. n /\ RuleDecision(rs[k]) \in S
       /\ \A i \in 1 .. k - 1 : RuleDecision(rs[i]) \notin S

(* What the local variables of the loops mean: while the loop runs, they   *)
(* summarise the decisions of the rules evaluated so far, none of which    *)
(* could have stopped it.  The cascades after the loop rely on this.       *)
FlagsSummariseRules ==
  result = NoResult =>
    /\ \A i \in 1 .. pos : ~ Stops(Dec(i))
    /\ carried = {i \in 1 .. pos : Dec(i) = Y}
    /\ atLeastOne <=> carried # {}
    /\ alg \in Overrides3 => /\ FirstIn(rules, pos, firstD, {"IndeterminateD"})
                             /\ FirstIn(rules, pos, firstP, {"IndeterminateP"})
    /\ alg \in Overrides2 => /\ FirstIn(rules, pos, firstError, Indeterminates)
                             /\ potential <=> \E i \in 1 .. pos :
                                  Dec(i) \in Indeterminates /\ rules[i].effect = X

(* The loops keep the promise of CombiningPromise, except exactly where it *)
(* says the code departs from it: whatever the order of the rules and      *)
(* whichever rule the loop stops at, the decision says what the rules -    *)
(* also those never evaluated - could have decided, and it is given once.  *)
Once == INSTANCE CombineOnce WITH Allowed <- Answers, ChildLists <- RuleLists,
                                  children <- rules, verdict <- result.decision
KeepsPromise == Once!Spec

(* An indeterminate answer carries the status of a rule that failed, and   *)
(* of the first rule to fail that way ("we'll just return the first one"). *)
StatusIsFirstError ==
  result.decision \in Indeterminates =>
    /\ result.status \in 1 .. pos
    /\ Errs(rules[result.status])
    /\ \A i \in 1 .. result.status - 1 :
         Dec(i) # Dec(result.status)

(* Obligations reach the enforcement point only with the decision they are *)
(* meant for: an overriding rule brings its own and no others, an          *)
(* overridden effect those of every rule that had it.                      *)
ObligationsOfDecision ==
  result # NoResult =>
    result.obligations =
      IF result.decision = Y /\ alg # "FirstApplicable"
        THEN {i \in DOMAIN rules : Dec(i) = Y}
      ELSE IF result.decision \in Effects THEN {pos}
      ELSE {}
=============================================================================

------------------------ MODULE RuleCombining_proofs ------------------------
(***************************************************************************)
(* The rule combining loops, for policies of any length and any set of     *)
(* policies.  IInv adds to the type invariant what the flags mean; every   *)
(* other result follows from it.                                           *)
(***************************************************************************)
EXTENDS RuleCombining, CombiningPromise_proofs

IInv == TypeOK /\ FlagsSummariseRules

LEMMA RulesType ==
  ASSUME TypeOK
  PROVE  /\ rules \in Seq(RuleInstances)
         /\ DOMAIN rules = 1 .. Len(rules) /\ Len(rules) \in Nat /\ pos \in Nat
         /\ \A i \in 1 .. Len(rules) : rules[i] \in RuleInstances
         /\ X \in Effects /\ Y \in Effects /\ X # Y
<1>1. rules \in Seq(RuleInstances)
  BY RuleListsAssumption DEF TypeOK
<1>2. X \in Effects /\ Y \in Effects /\ X # Y
  BY DEF X, Y, Overriding, Opposite, Effects
<1>3. QED BY <1>1, <1>2 DEF TypeOK

LEMMA RulesDecide ==
  ASSUME TypeOK, NEW i \in 1 .. Len(rules)
  PROVE  RuleDecision(rules[i]) \in Decisions
  BY RulesType, RuleOutcomesType

(* The steps of the loop as facts about the primed state.                  *)
LEMMA ResultOfType ==
  ASSUME TypeOK, NEW i \in 1 .. Len(rules)
  PROVE  /\ ResultOf(i).decision = Dec(i)
         /\ ResultOf(i).status = IF Dec(i) \in Indeterminates THEN i ELSE 0
         /\ ResultOf(i).obligations = IF Dec(i) \in Effects THEN {i} ELSE {}
         /\ ResultOf(i) \in [decision : Decisions, status : 0 .. i, obligations : SUBSET (1 .. i)]
<1>1. Dec(i) \in Decisions /\ (Dec(i) \in Effects => Dec(i) \notin Indeterminates)
  BY RulesDecide DEF Dec, Effects, Indeterminates
<1>2. i \in Nat \ {0}
  BY RulesType
<1>3. QED BY <1>1, <1>2 DEF ResultOf, Error, Definite, Dec

(* What the cascades after the loop return, as an object.                  *)
LEMMA EndType ==
  ASSUME IInv, EndOfRules
  PROVE  result' \in [decision : Decisions, status : 0 .. pos, obligations : SUBSET (1 .. pos)]
<1> DEFINE T == [decision : Decisions, status : 0 .. pos, obligations : SUBSET (1 .. pos)]
<1>0. TypeOK /\ FlagsSummariseRules /\ pos \in Nat /\ pos = Len(rules) /\ result = NoResult
  BY RulesType DEF IInv, EndOfRules
<1>1. /\ \A d \in Decisions : Definite(d, carried) \in T
      /\ \A d \in Decisions, k \in {firstD, firstP} : Error(d, k) \in T
      /\ NoneApplied \in T
  BY <1>0 DEF Definite, Error, NoneApplied, TypeOK, Decisions
<1>2. ASSUME alg \in Overrides2 PROVE potential => firstError # 0
  <2>1. /\ FirstIn(rules, pos, firstError, Indeterminates)
        /\ potential <=> \E i \in 1 .. pos : Dec(i) \in Indeterminates /\ rules[i].effect = X
    BY <1>0, <1>2 DEF FlagsSummariseRules
  <2>2. QED BY <2>1 DEF FirstIn, Dec
<1>3. firstError # 0 => ResultOf(firstError) \in T
  <2> SUFFICES ASSUME firstError # 0 PROVE ResultOf(firstError) \in T
    OBVIOUS
  <2>1. firstError \in 1 .. Len(rules) /\ firstError <= pos
    BY <1>0 DEF TypeOK
  <2>2. 0 .. firstError \subseteq 0 .. pos /\ 1 .. firstError \subseteq 1 .. pos
    BY <2>1, <1>0
  <2>3. ResultOf(firstError) \in [decision : Decisions, status : 0 .. firstError,
                                  obligations : SUBSET (1 .. firstError)]
    BY <2>1, <1>0, ResultOfType
  <2>4. QED BY <2>2, <2>3
<1>4. /\ DenyOverrides3End \in T /\ PermitOverrides3End \in T
      /\ DenyUnlessPermitEnd \in T /\ PermitUnlessDenyEnd \in T /\ FirstApplicableEnd \in T
  BY <1>1 DEF DenyOverrides3End, PermitOverrides3End, DenyUnlessPermitEnd,
              PermitUnlessDenyEnd, FirstApplicableEnd, Decisions, Effects
<1>5. alg \in Overrides2 => DenyOverrides2End \in T /\ PermitOverrides2End \in T
  BY <1>1, <1>2, <1>3 DEF DenyOverrides2End, PermitOverrides2End, Decisions, Effects
<1>6. QED
  BY <1>0, <1>4, <1>5 DEF EndOfRules, TypeOK, Algorithms, Overrides2, Overrides3, Unless

LEMMA StepType ==
  ASSUME IInv, [Next]_vars
  PROVE  TypeOK'
<1> USE DEF IInv
<1>0. /\ pos \in 0 .. Len(rules) /\ Len(rules) \in Nat
      /\ \A k \in 0 .. pos : k \in 0 .. pos + 1
  BY RulesType DEF TypeOK
<1>1. ASSUME NEW d \in Decisions, Iterate(d)
      PROVE  /\ alg' = alg /\ rules' = rules /\ pos' = pos + 1 /\ pos' \in 0 .. Len(rules')
             /\ pos + 1 \in 1 .. Len(rules) /\ result = NoResult /\ d = Dec(pos + 1)
             /\ 0 .. pos \subseteq 0 .. pos' /\ 1 .. pos \subseteq 1 .. pos'
             /\ pos + 1 \in 1 .. pos' /\ pos + 1 \in 0 .. pos'
  BY <1>0, <1>1 DEF Iterate, Dec
<1>2. ASSUME NEW d \in Decisions, ReturnRuleResult(d)
      PROVE  TypeOK'
  <2>1. Iterate(d) /\ result' = ResultOf(pos + 1) /\ UNCHANGED loop
    BY <1>2 DEF ReturnRuleResult
  <2>2. ResultOf(pos + 1) \in [decision : Decisions, status : 0 .. pos + 1,
                               obligations : SUBSET (1 .. pos + 1)]
    BY <2>1, <1>1, ResultOfType
  <2>3. QED BY <1>1, <2>1, <2>2 DEF TypeOK, loop
<1>3. ASSUME NEW d \in Decisions, SkipNotApplicable(d) \/ IgnoreError(d)
      PROVE  TypeOK'
  BY <1>1, <1>3 DEF SkipNotApplicable, IgnoreError, TypeOK, loop
<1>4. ASSUME NEW d \in Decisions, CollectEffect(d)
      PROVE  TypeOK'
  <2>1. Iterate(d) /\ carried' = carried \cup ResultOf(pos + 1).obligations
    BY <1>4 DEF CollectEffect
  <2>2. carried' \subseteq 1 .. pos'
    BY <2>1, <1>1, ResultOfType DEF TypeOK
  <2>3. QED BY <1>1, <1>4, <2>1, <2>2 DEF CollectEffect, TypeOK
<1>5. ASSUME NEW d \in Decisions, RecordError3(d)
      PROVE  TypeOK'
  BY <1>1, <1>5 DEF RecordError3, TypeOK
<1>6. ASSUME NEW d \in Decisions, RecordError2(d)
      PROVE  TypeOK'
  BY <1>1, <1>6 DEF RecordError2, TypeOK
<1>7. ASSUME EndOfRules PROVE TypeOK'
  BY <1>7, EndType DEF EndOfRules, TypeOK, loop
<1>8. ASSUME UNCHANGED vars PROVE TypeOK'
  BY <1>8 DEF TypeOK, vars, loop
<1>9. QED
  BY <1>2, <1>3, <1>4, <1>5, <1>6, <1>7, <1>8 DEF Next

LEMMA InitIInv == Init => IInv
<1> SUFFICES ASSUME Init PROVE IInv
  OBVIOUS
<1>1. Len(rules) \in Nat /\ 1 .. pos = {} /\ pos = 0
  BY RuleListsAssumption DEF Init
<1>2. TypeOK
  <2>1. alg \in Algorithms /\ rules \in RuleLists /\ result = NoResult
    BY DEF Init
  <2>2. pos \in 0 .. Len(rules) /\ firstD \in 0 .. pos /\ firstP \in 0 .. pos /\ firstError \in 0 .. pos
    BY <1>1 DEF Init
  <2>3. potential \in BOOLEAN /\ atLeastOne \in BOOLEAN /\ carried \subseteq 1 .. pos
    BY DEF Init
  <2>4. QED BY <2>1, <2>2, <2>3 DEF TypeOK
<1>3. FlagsSummariseRules
  <2>1. carried = {} /\ atLeastOne = FALSE /\ potential = FALSE
    BY DEF Init
  <2>2. FirstIn(rules, pos, firstD, {"IndeterminateD"}) /\ FirstIn(rules, pos, firstP, {"IndeterminateP"})
        /\ FirstIn(rules, pos, firstError, Indeterminates)
    BY <1>1 DEF Init, FirstIn
  <2>3. QED BY <1>1, <2>1, <2>2 DEF FlagsSummariseRules
<1>4. QED BY <1>2, <1>3 DEF IInv

(* One more rule: how the first rule with some decision is found.          *)
LEMMA FirstInExtends ==
  ASSUME NEW rs, NEW n \in Nat, NEW k \in 0 .. n, NEW S, FirstIn(rs, n, k, S)
  PROVE  FirstIn(rs, n + 1, IF RuleDecision(rs[n + 1]) \in S /\ k = 0 THEN n + 1 ELSE k, S)
<1>1. 1 .. (n + 1) = (1 .. n) \cup {n + 1} /\ (n + 1) - 1 = n /\ n + 1 # 0
  OBVIOUS
<1>2. CASE k = 0
  BY <1>1, <1>2 DEF FirstIn
<1>3. CASE k # 0
  BY <1>1, <1>3 DEF FirstIn
<1>4. QED BY <1>2, <1>3

LEMMA StepFlags ==
  ASSUME IInv, [Next]_vars
  PROVE  FlagsSummariseRules'
<1> USE DEF IInv
<1>0. pos \in Nat /\ Len(rules) \in Nat /\ TypeOK
  BY RulesType DEF TypeOK
<1>1. ASSUME NEW d \in Decisions, Iterate(d)
      PROVE  /\ alg' = alg /\ rules' = rules /\ pos' = pos + 1
             /\ X' = X /\ Y' = Y
             /\ \A i : Dec(i)' = Dec(i) /\ (Stops(Dec(i)))' = Stops(Dec(i))
             /\ pos + 1 \in 1 .. Len(rules) /\ result = NoResult /\ d = Dec(pos + 1)
             /\ 1 .. pos' = (1 .. pos) \cup {pos + 1} /\ pos + 1 \notin 1 .. pos
             /\ FlagsSummariseRules
  BY <1>0, <1>1 DEF Iterate, Dec, X, Y, Stops
<1>2. ASSUME NEW d \in Decisions, ReturnRuleResult(d)
      PROVE  FlagsSummariseRules'
  <2>1. Iterate(d) /\ result' = ResultOf(pos + 1)
    BY <1>2 DEF ReturnRuleResult
  <2>2. result'.decision \in Decisions
    BY <2>1, <1>0, <1>1, ResultOfType
  <2>3. result' # NoResult
    BY <2>2 DEF NoResult, Pending, Decisions, Effects
  <2>4. QED BY <2>3 DEF FlagsSummariseRules, NoResult, Pending
<1>a. ASSUME NEW d \in Decisions, Iterate(d), ~ Stops(d), result' = result,
             carried' = (IF d = Y THEN carried \cup {pos + 1} ELSE carried),
             atLeastOne' = (atLeastOne \/ d = Y),
             alg \in Overrides3 =>
               /\ firstD' = IF d = "IndeterminateD" /\ firstD = 0 THEN pos + 1 ELSE firstD
               /\ firstP' = IF d = "IndeterminateP" /\ firstP = 0 THEN pos + 1 ELSE firstP,
             alg \in Overrides2 =>
               /\ firstError' = IF d \in Indeterminates /\ firstError = 0 THEN pos + 1 ELSE firstError
               /\ potential' = (potential \/ (d \in Indeterminates /\ rules[pos + 1].effect = X))
      PROVE  FlagsSummariseRules'
  <2>1. /\ \A i \in 1 .. pos : ~ Stops(Dec(i))
        /\ carried = {i \in 1 .. pos : Dec(i) = Y}
        /\ atLeastOne <=> carried # {}
    BY <1>1, <1>a DEF FlagsSummariseRules
  <2>2. \A i \in 1 .. pos' : ~ (Stops(Dec(i)))'
    BY <2>1, <1>1, <1>a
  <2>3. carried' = {i \in 1 .. pos' : Dec(i)' = Y'}
    BY <2>1, <1>1, <1>a
  <2>4. atLeastOne' <=> carried' # {}
    BY <2>1, <1>1, <1>a
  <2>5. ASSUME alg \in Overrides3
        PROVE  /\ FirstIn(rules, pos, firstD, {"IndeterminateD"})'
               /\ FirstIn(rules, pos, firstP, {"IndeterminateP"})'
    <3>1. /\ FirstIn(rules, pos, firstD, {"IndeterminateD"})
          /\ FirstIn(rules, pos, firstP, {"IndeterminateP"})
          /\ firstD \in 0 .. pos /\ firstP \in 0 .. pos /\ pos \in Nat
      BY <1>0, <1>1, <1>a, <2>5 DEF FlagsSummariseRules, TypeOK
    <3>2. firstD' = (IF RuleDecision(rules[pos + 1]) \in {"IndeterminateD"} /\ firstD = 0
                     THEN pos + 1 ELSE firstD)
      BY <1>1, <1>a, <2>5 DEF Dec
    <3>3. firstP' = (IF RuleDecision(rules[pos + 1]) \in {"IndeterminateP"} /\ firstP = 0
                     THEN pos + 1 ELSE firstP)
      BY <1>1, <1>a, <2>5 DEF Dec
    <3>4. FirstIn(rules, pos + 1, firstD', {"IndeterminateD"})
      BY <3>1, <3>2, FirstInExtends
    <3>5. FirstIn(rules, pos + 1, firstP', {"IndeterminateP"})
      BY <3>1, <3>3, FirstInExtends
    <3>6. QED BY <3>4, <3>5, <1>1, <1>a
  <2>6. ASSUME alg \in Overrides2
        PROVE  /\ FirstIn(rules, pos, firstError, Indeterminates)'
               /\ potential' <=> \E i \in 1 .. pos' :
                    Dec(i)' \in Indeterminates /\ rules'[i].effect = X'
    <3>1. /\ FirstIn(rules, pos, firstError, Indeterminates)
          /\ potential <=> \E i \in 1 .. pos : Dec(i) \in Indeterminates /\ rules[i].effect = X
          /\ firstError \in 0 .. pos /\ pos \in Nat
      BY <1>0, <1>1, <1>a, <2>6 DEF FlagsSummariseRules, TypeOK
    <3>2. firstError' = (IF RuleDecision(rules[pos + 1]) \in Indeterminates /\ firstError = 0
                         THEN pos + 1 ELSE firstError)
      BY <1>1, <1>a, <2>6 DEF Dec
    <3>3. FirstIn(rules, pos + 1, firstError', Indeterminates)
      BY <3>1, <3>2, FirstInExtends
    <3>4. potential' <=> \E i \in 1 .. pos' :
                    Dec(i)' \in Indeterminates /\ rules'[i].effect = X'
      <4> DEFINE P(i) == Dec(i) \in Indeterminates /\ rules[i].effect = X
      <4>1. potential' <=> (\E i \in 1 .. pos : P(i)) \/ P(pos + 1)
        BY <3>1, <1>1, <1>a, <2>6
      <4>2. \A i : (Dec(i)' \in Indeterminates /\ rules'[i].effect = X') <=> P(i)
        BY <1>1, <1>a
      <4>3. (\E i \in 1 .. pos' : P(i)) <=> (\E i \in 1 .. pos : P(i)) \/ P(pos + 1)
        <5> HIDE DEF P
        <5>1. QED BY <1>1, <1>a
      <4> HIDE DEF P
      <4>4. QED BY <4>1, <4>2, <4>3
    <3>5. QED BY <3>3, <3>4, <1>1, <1>a
  <2>7. QED BY <2>2, <2>3, <2>4, <2>5, <2>6, <1>1, <1>a DEF FlagsSummariseRules
<1>b. /\ \A d \in Decisions : d = Y => d \notin Indeterminates
      /\ "NotApplicable" # Y /\ "NotApplicable" \notin Indeterminates
      /\ "IndeterminateD" \in Indeterminates /\ "IndeterminateP" \in Indeterminates
      /\ alg \in Overrides3 => alg \notin Overrides2 /\ alg \notin Unless
      /\ alg \in Overrides2 => alg \notin Overrides3 /\ alg \notin Unless
      /\ \A d \in Indeterminates : alg # "FirstApplicable" => ~ Stops(d)
      /\ ~ Stops("NotApplicable")
      /\ alg \in Overrides3 \cup Overrides2 \cup Unless => alg # "FirstApplicable"
      /\ \A d \in Indeterminates : d # Y
  BY DEF Y, X, Overriding, Opposite, Indeterminates, Decisions, Effects, Overrides2,
         Overrides3, Unless, Stops
<1>3. ASSUME NEW d \in Decisions, SkipNotApplicable(d)
      PROVE  FlagsSummariseRules'
  <2>1. Iterate(d) /\ d = "NotApplicable" /\ UNCHANGED <<loop, result>>
    BY <1>3 DEF SkipNotApplicable
  <2>2. potential \in BOOLEAN /\ atLeastOne \in BOOLEAN
    BY <1>0 DEF TypeOK
  <2>3. QED BY <2>1, <2>2, <1>a, <1>b DEF loop
<1>4. ASSUME NEW d \in Decisions, IgnoreError(d)
      PROVE  FlagsSummariseRules'
  <2>1. Iterate(d) /\ alg \in Unless /\ d \in Indeterminates /\ UNCHANGED <<loop, result>>
    BY <1>4 DEF IgnoreError
  <2>2. alg \notin Overrides2 /\ alg \notin Overrides3 /\ atLeastOne \in BOOLEAN
    BY <1>0, <2>1, <1>b DEF TypeOK
  <2>3. QED BY <2>1, <2>2, <1>a, <1>b DEF loop
<1>5. ASSUME NEW d \in Decisions, CollectEffect(d)
      PROVE  FlagsSummariseRules'
  <2>1. /\ Iterate(d) /\ ~ Stops(d) /\ d = Y /\ atLeastOne' = TRUE /\ d \notin Indeterminates
        /\ carried' = carried \cup ResultOf(pos + 1).obligations
        /\ UNCHANGED <<firstD, firstP, firstError, potential, result>>
    BY <1>5, <1>b DEF CollectEffect
  <2>2. ResultOf(pos + 1).obligations = {pos + 1}
    BY <2>1, <1>0, <1>1, ResultOfType, RulesType
  <2>3. potential \in BOOLEAN
    BY <1>0 DEF TypeOK
  <2>4. QED BY <2>1, <2>2, <2>3, <1>a, <1>b
<1>6. ASSUME NEW d \in Decisions, RecordError3(d)
      PROVE  FlagsSummariseRules'
  <2>1. /\ Iterate(d) /\ alg \in Overrides3 /\ d \in Indeterminates
        /\ UNCHANGED <<atLeastOne, carried, result>>
        /\ firstD' = IF d = "IndeterminateD" /\ firstD = 0 THEN pos + 1 ELSE firstD
        /\ firstP' = IF d = "IndeterminateP" /\ firstP = 0 THEN pos + 1 ELSE firstP
    BY <1>6 DEF RecordError3
  <2>2. atLeastOne \in BOOLEAN
    BY <1>0 DEF TypeOK
  <2>3. QED BY <2>1, <2>2, <1>a, <1>b
<1>7. ASSUME NEW d \in Decisions, RecordError2(d)
      PROVE  FlagsSummariseRules'
  <2>1. /\ Iterate(d) /\ alg \in Overrides2 /\ d \in Indeterminates
        /\ UNCHANGED <<atLeastOne, carried, result>>
        /\ firstError' = IF firstError = 0 THEN pos + 1 ELSE firstError
        /\ potential' = (potential \/ rules[pos + 1].effect = X)
    BY <1>7 DEF RecordError2
  <2>2. atLeastOne \in BOOLEAN
    BY <1>0 DEF TypeOK
  <2>3. QED BY <2>1, <2>2, <1>a, <1>b
<1>8. ASSUME EndOfRules PROVE FlagsSummariseRules'
  <2>1. result'.decision \in Decisions
    BY <1>8, EndType
  <2>2. QED BY <2>1 DEF FlagsSummariseRules, NoResult, Pending, Decisions, Effects
<1>9. ASSUME UNCHANGED vars PROVE FlagsSummariseRules'
  BY <1>9 DEF FlagsSummariseRules, vars, loop, Dec, X, Y, Stops
<1>10. QED
  BY <1>2, <1>3, <1>4, <1>5, <1>6, <1>7, <1>8, <1>9 DEF Next

(* The local variables of combine keep their types and, while the loop     *)
(* runs, summarise exactly the rules evaluated so far.                     *)
THEOREM LoopInvariant == Spec => [](TypeOK /\ FlagsSummariseRules)
<1>1. Init => IInv
  BY InitIInv
<1>2. IInv /\ [Next]_vars => IInv'
  BY StepType, StepFlags DEF IInv
<1>3. QED BY <1>1, <1>2, PTL DEF Spec, IInv

(* Every variable of a combine method keeps its type: in particular the    *)
(* status and the obligations returned are those of rules already reached. *)
THEOREM TypeCorrect == Spec => []TypeOK
<1> QED
  BY LoopInvariant, PTL

-----------------------------------------------------------------------------
(* A rule that stops the loop settles the decision, although the rules     *)
(* after it are never evaluated.                                           *)
LEMMA EarlyReturnPromised ==
  ASSUME IInv, NEW d \in Decisions, ReturnRuleResult(d)
  PROVE  result'.decision \in Answers(alg, rules)
<1> DEFINE k == pos + 1
           RO(i) == RuleOutcomes(rules[i])
           could == CouldDecide(alg, rules)
<1>1. /\ TypeOK /\ FlagsSummariseRules /\ result = NoResult /\ k \in DOMAIN rules
      /\ d = RuleDecision(rules[k]) /\ Stops(d) /\ rules \in Seq(RuleInstances)
      /\ result' = ResultOf(k) /\ k \in 1 .. Len(rules) /\ k - 1 = pos
  BY RulesType DEF IInv, ReturnRuleResult, Iterate
<1>2. result'.decision = d
  BY <1>1, ResultOfType DEF Dec
<1>3. \A i \in DOMAIN rules : RuleDecision(rules[i]) \in Outcomes => RO(i) = {RuleDecision(rules[i])}
  BY <1>1, OutcomesOfDecision
<1>4. CASE alg = "FirstApplicable"
  <2>1. d # "NotApplicable" /\ \A j \in 1 .. pos : RuleDecision(rules[j]) = "NotApplicable"
    BY <1>1, <1>4 DEF FlagsSummariseRules, Stops, Dec
  <2>2. \A j \in 1 .. k - 1 : RO(j) = {"NotApplicable"}
    BY <2>1, <1>1, <1>3, RulesType DEF Outcomes
  <2>3. CASE d \in Effects
    <3>1. RO(k) = {d}
      BY <1>1, <1>3, <2>3 DEF Outcomes
    <3>2. could = {d}
      BY <3>1, <2>2, <2>3, <1>1, <1>4, FirstApplicableCouldDecide
    <3>3. QED BY <3>2, <2>3, <1>2, <1>4 DEF Answers, Departs, Promised, Understood, Overrides3, Unless, Outcomes
  <2>4. CASE d \in Indeterminates
    BY <2>4, <1>2, <1>4 DEF Answers, Departs, Promised, Understood, Overrides3, Unless
  <2>5. QED BY <2>1, <2>3, <2>4 DEF Decisions, Indeterminates, Effects
<1>5. CASE alg # "FirstApplicable"
  <2>1. d = X /\ X \in Effects /\ Y \in Effects /\ X # Y
    BY <1>1, <1>5, RulesType DEF Stops
  <2>2. RO(k) = {X}
    BY <2>1, <1>1, <1>3 DEF Outcomes
  <2>3. CASE alg \in Unless
    <3>1. could = {X}
      BY <2>2, <2>3, <1>1, UnlessCouldDecide DEF X
    <3>2. QED BY <3>1, <2>1, <2>3, <1>2 DEF Answers, Departs, Promised, Understood, Unless, Overrides3, X
  <2>4. CASE alg \in Overrides3 \cup Overrides2
    <3>1. /\ could \subseteq Outcomes /\ X \in could
          /\ Y \notin could /\ "NotApplicable" \notin could
      BY <2>1, <2>2, <2>4, <1>1, OverridesCouldDecide DEF X, Y, Effects
    <3>2. could = {X} /\ X \in Outcomes
      BY <3>1, <2>1 DEF Outcomes, Effects
    <3>3. Envelope(could) = X
      BY <3>2, EnvelopeValue
    <3>4. could # {"Deny", "NotApplicable"}
      BY <3>1
    <3>5. QED BY <3>2, <3>3, <3>4, <2>1, <2>4, <1>2
              DEF Answers, Departs, Promised, Overrides3, Overrides2, Unless, Outcomes
  <2>5. QED BY <2>3, <2>4, <1>1, <1>5 DEF TypeOK, Algorithms
<1>6. QED BY <1>4, <1>5

(* What the 3.0 flags say, after the last rule, about what could have been *)
(* decided.                                                                *)
LEMMA Flags3AtEnd ==
  ASSUME IInv, EndOfRules, alg \in Overrides3, Understood(alg, rules)
  PROVE  LET could  == CouldDecide(alg, rules)
             firstX == IF X = "Deny" THEN firstD ELSE firstP
             firstY == IF X = "Deny" THEN firstP ELSE firstD
         IN  /\ could \subseteq Outcomes
             /\ X \in could <=> firstX # 0
             /\ Y \in could <=> firstY # 0 \/ atLeastOne
             /\ "NotApplicable" \in could <=> ~ atLeastOne
<1> DEFINE RO(i) == RuleOutcomes(rules[i])
           could == CouldDecide(alg, rules)
           NA == "NotApplicable"
<1>1. /\ TypeOK /\ FlagsSummariseRules /\ result = NoResult /\ DOMAIN rules = 1 .. pos
      /\ rules \in Seq(RuleInstances) /\ X \in Effects /\ Y \in Effects /\ X # Y
      /\ \A i \in 1 .. pos : rules[i] \in RuleInstances
  BY RulesType DEF IInv, EndOfRules
<1>2. /\ could \subseteq Outcomes
      /\ X \in could <=> \E i \in 1 .. pos : X \in RO(i)
      /\ Y \in could <=> /\ \E i \in 1 .. pos : Y \in RO(i)
                         /\ \A i \in 1 .. pos : RO(i) # {X}
      /\ NA \in could <=> \A i \in 1 .. pos : NA \in RO(i)
  BY <1>1, OverridesCouldDecide DEF X, Y
<1>3. ASSUME NEW i \in 1 .. pos
      PROVE  /\ Dec(i) # X
             /\ Dec(i) \in {Y, NA, IndeterminateOf(X), IndeterminateOf(Y)}
             /\ Dec(i) = Y => RO(i) = {Y}
             /\ Dec(i) = NA => RO(i) = {NA}
             /\ Dec(i) = IndeterminateOf(X) => RO(i) = {X, NA}
             /\ Dec(i) = IndeterminateOf(Y) => RO(i) = {Y, NA}
  <2>1. rules[i].v3 /\ rules[i].effect \in Effects /\ Dec(i) # X /\ Dec(i) \in Decisions
    BY <1>1, <1>3, RulesDecide, RuleOutcomesType
       DEF Understood, RuleInstances, FlagsSummariseRules, Stops, Overrides3, Dec
  <2>2. /\ Dec(i) \in Outcomes => RO(i) = {Dec(i)}
        /\ Dec(i) \in Indeterminates =>
             RO(i) = {rules[i].effect, NA} /\ Dec(i) = IndeterminateOf(rules[i].effect)
    BY <1>1, <2>1, OutcomesOfDecision DEF Dec
  <2>3. QED
    BY <2>1, <2>2, <1>1 DEF Decisions, Indeterminates, Outcomes, Effects, IndeterminateOf
<1>4. /\ X \in {"Deny", "Permit"}
      /\ X = "Deny" => /\ IndeterminateOf(X) = "IndeterminateD"
                       /\ IndeterminateOf(Y) = "IndeterminateP"
      /\ X = "Permit" => /\ IndeterminateOf(X) = "IndeterminateP"
                         /\ IndeterminateOf(Y) = "IndeterminateD"
  BY DEF IndeterminateOf, X, Y, Opposite, Overriding
<1>5. /\ firstD # 0 <=> \E i \in 1 .. pos : Dec(i) = "IndeterminateD"
      /\ firstP # 0 <=> \E i \in 1 .. pos : Dec(i) = "IndeterminateP"
      /\ atLeastOne <=> \E i \in 1 .. pos : Dec(i) = Y
  BY <1>1 DEF FlagsSummariseRules, FirstIn, Dec
<1>6. NA \notin {X, Y} /\ {X, Y} \cap {IndeterminateOf(X), IndeterminateOf(Y)} = {}
      /\ NA \notin {IndeterminateOf(X), IndeterminateOf(Y)} /\ IndeterminateOf(X) # IndeterminateOf(Y)
  BY DEF IndeterminateOf, X, Y, Opposite, Overriding
<1> HIDE DEF RO, could
<1>7. X \in could <=> \E i \in 1 .. pos : Dec(i) = IndeterminateOf(X)
  BY <1>1, <1>2, <1>3, <1>6
<1>8. Y \in could <=> \/ \E i \in 1 .. pos : Dec(i) = IndeterminateOf(Y)
                      \/ \E i \in 1 .. pos : Dec(i) = Y
  BY <1>1, <1>2, <1>3, <1>6
<1>9. NA \in could <=> ~ \E i \in 1 .. pos : Dec(i) = Y
  BY <1>1, <1>2, <1>3, <1>6
<1>11. CASE X = "Deny"
  <2>1. /\ could \subseteq Outcomes
        /\ X \in could <=> firstD # 0
        /\ Y \in could <=> firstP # 0 \/ atLeastOne
        /\ NA \in could <=> ~ atLeastOne
    <3>1. IndeterminateOf(X) = "IndeterminateD" /\ IndeterminateOf(Y) = "IndeterminateP"
      BY <1>4, <1>11
    <3>2. X \in could <=> firstD # 0
      BY <3>1, <1>5, <1>7
    <3>3. Y \in could <=> firstP # 0 \/ atLeastOne
      BY <3>1, <1>5, <1>8
    <3>4. NA \in could <=> ~ atLeastOne
      BY <1>5, <1>9
    <3>5. QED BY <1>2, <3>2, <3>3, <3>4
  <2>2. QED BY <2>1, <1>11 DEF could
<1>12. CASE X = "Permit"
  <2>1. /\ could \subseteq Outcomes
        /\ X \in could <=> firstP # 0
        /\ Y \in could <=> firstD # 0 \/ atLeastOne
        /\ NA \in could <=> ~ atLeastOne
    <3>1. IndeterminateOf(X) = "IndeterminateP" /\ IndeterminateOf(Y) = "IndeterminateD"
      BY <1>4, <1>12
    <3>2. X \in could <=> firstP # 0
      BY <3>1, <1>5, <1>7
    <3>3. Y \in could <=> firstD # 0 \/ atLeastOne
      BY <3>1, <1>5, <1>8
    <3>4. NA \in could <=> ~ atLeastOne
      BY <1>5, <1>9
    <3>5. QED BY <1>2, <3>2, <3>3, <3>4
  <2>2. QED BY <2>1, <1>12 DEF could
<1>13. QED BY <1>4, <1>11, <1>12

(* What the 1.0 flags say, after the last rule.                            *)
LEMMA Flags2AtEnd ==
  ASSUME IInv, EndOfRules, alg \in Overrides2
  PROVE  LET could == CouldDecide(alg, rules) IN
         /\ could \subseteq Outcomes
         /\ X \in could <=> potential
         /\ potential => firstError # 0
         /\ atLeastOne => Y \in could
         /\ Y \in could => atLeastOne \/ firstError # 0
         /\ firstError # 0 => X \in could \/ Y \in could
         /\ "NotApplicable" \in could <=> ~ atLeastOne
<1> DEFINE RO(i) == RuleOutcomes(rules[i])
           could == CouldDecide(alg, rules)
           NA == "NotApplicable"
           Fails(i) == Dec(i) \in Indeterminates
<1>1. /\ TypeOK /\ FlagsSummariseRules /\ result = NoResult /\ DOMAIN rules = 1 .. pos
      /\ rules \in Seq(RuleInstances) /\ X \in Effects /\ Y \in Effects /\ X # Y
      /\ \A i \in 1 .. pos : rules[i] \in RuleInstances
  BY RulesType DEF IInv, EndOfRules
<1>2. /\ could \subseteq Outcomes
      /\ X \in could <=> \E i \in 1 .. pos : X \in RO(i)
      /\ Y \in could <=> /\ \E i \in 1 .. pos : Y \in RO(i)
                         /\ \A i \in 1 .. pos : RO(i) # {X}
      /\ NA \in could <=> \A i \in 1 .. pos : NA \in RO(i)
  BY <1>1, OverridesCouldDecide DEF X, Y
<1>3. ASSUME NEW i \in 1 .. pos
      PROVE  /\ ~ Fails(i) => Dec(i) \in {Y, NA} /\ RO(i) = {Dec(i)}
             /\ Fails(i) => rules[i].effect \in {X, Y} /\ RO(i) = {rules[i].effect, NA}
             /\ Dec(i) = Y => ~ Fails(i)
  <2>1. rules[i].effect \in Effects /\ Dec(i) # X /\ Dec(i) \in Decisions
    BY <1>1, <1>3, RulesDecide, RuleOutcomesType
       DEF RuleInstances, FlagsSummariseRules, Stops, Overrides2, Dec
  <2>2. /\ Dec(i) \in Outcomes => RO(i) = {Dec(i)}
        /\ Dec(i) \in Indeterminates => RO(i) = {rules[i].effect, NA}
    BY <1>1, <2>1, OutcomesOfDecision DEF Dec
  <2>3. Effects = {X, Y} /\ NA \notin Effects
    BY <1>1 DEF Effects
  <2>4. QED
    BY <2>1, <2>2, <2>3 DEF Decisions, Indeterminates, Outcomes, Effects
<1>4. /\ firstError # 0 <=> \E i \in 1 .. pos : Fails(i)
      /\ atLeastOne <=> \E i \in 1 .. pos : Dec(i) = Y
      /\ potential <=> \E i \in 1 .. pos : Fails(i) /\ rules[i].effect = X
  BY <1>1 DEF FlagsSummariseRules, FirstIn, Dec
<1>5. NA \notin {X, Y}
  BY <1>1 DEF Effects
<1> HIDE DEF RO, could, Fails
<1>6. X \in could <=> \E i \in 1 .. pos : Fails(i) /\ rules[i].effect = X
  BY <1>1, <1>2, <1>3, <1>5
<1>7. Y \in could <=> \/ \E i \in 1 .. pos : Fails(i) /\ rules[i].effect = Y
                      \/ \E i \in 1 .. pos : Dec(i) = Y
  BY <1>1, <1>2, <1>3, <1>5
<1>8. NA \in could <=> ~ \E i \in 1 .. pos : Dec(i) = Y
  BY <1>1, <1>2, <1>3, <1>5
<1>9. firstError # 0 => X \in could \/ Y \in could
  BY <1>3, <1>4, <1>6, <1>7
<1>10. /\ X \in could <=> potential
       /\ potential => firstError # 0
       /\ atLeastOne => Y \in could
       /\ Y \in could => atLeastOne \/ firstError # 0
       /\ NA \in could <=> ~ atLeastOne
  BY <1>4, <1>6, <1>7, <1>8
<1>11. QED BY <1>2, <1>9, <1>10 DEF could

(* The cascade after the loop gives a promised decision.                   *)
LEMMA EndPromised ==
  ASSUME IInv, EndOfRules
  PROVE  result'.decision \in Answers(alg, rules)
<1> DEFINE could == CouldDecide(alg, rules)
           NA == "NotApplicable"
<1>1. /\ TypeOK /\ FlagsSummariseRules /\ result = NoResult /\ DOMAIN rules = 1 .. pos
      /\ rules \in Seq(RuleInstances) /\ X \in Effects /\ Y \in Effects /\ X # Y
      /\ Effects = {X, Y} /\ Outcomes = {X, Y, NA} /\ NA \notin {X, Y}
  BY RulesType DEF IInv, EndOfRules, Effects, Outcomes
<1>2. /\ \A d, from : Definite(d, from).decision = d
      /\ \A d, at : Error(d, at).decision = d
      /\ NoneApplied.decision = NA
  BY DEF Definite, Error, NoneApplied
<1>3. CASE alg \in Overrides3 /\ ~ Understood(alg, rules)
  <2>1. result'.decision \in Decisions
    BY EndType
  <2>2. QED BY <2>1, <1>3 DEF Answers
<1>4. CASE alg = "DenyOverrides3" /\ Understood(alg, rules)
  <2>1. X = "Deny" /\ Y = "Permit"
    BY <1>4 DEF X, Y, Overriding, Opposite
  <2>2. /\ could \subseteq Outcomes
        /\ "Deny" \in could <=> firstD # 0
        /\ "Permit" \in could <=> firstP # 0 \/ atLeastOne
        /\ NA \in could <=> ~ atLeastOne
    BY <1>4, <2>1, Flags3AtEnd DEF Overrides3
  <2>3. result' = DenyOverrides3End
    BY <1>4 DEF EndOfRules
  <2>4. DenyOverrides3End.decision = Envelope(could)
    <3>1. CASE firstD # 0 /\ (firstP # 0 \/ atLeastOne)
      <4>1. {"Permit", "Deny"} \subseteq could /\ could \in SUBSET Outcomes
        BY <2>2, <3>1
      <4>2. Envelope(could) = "IndeterminateDP"
        BY <4>1, EnvelopeValue
      <4>3. QED BY <4>2, <3>1, <1>2 DEF DenyOverrides3End
    <3>2. CASE firstD # 0 /\ ~ (firstP # 0 \/ atLeastOne)
      <4>1. could = {"Deny", NA}
        BY <2>2, <3>2, <2>1, <1>1
      <4>2. QED BY <4>1, <3>2, <1>2, EnvelopeValue DEF DenyOverrides3End
    <3>3. CASE firstD = 0 /\ atLeastOne
      <4>1. could = {"Permit"} /\ "Permit" \in Outcomes
        BY <2>2, <3>3, <2>1, <1>1
      <4>2. QED BY <4>1, <3>3, <1>2, EnvelopeValue DEF DenyOverrides3End
    <3>4. CASE firstD = 0 /\ ~ atLeastOne /\ firstP # 0
      <4>1. could = {"Permit", NA}
        BY <2>2, <3>4, <2>1, <1>1
      <4>2. QED BY <4>1, <3>4, <1>2, EnvelopeValue DEF DenyOverrides3End
    <3>5. CASE firstD = 0 /\ ~ atLeastOne /\ firstP = 0
      <4>1. could = {NA} /\ NA \in Outcomes
        BY <2>2, <3>5, <2>1, <1>1
      <4>2. QED BY <4>1, <3>5, <1>2, EnvelopeValue DEF DenyOverrides3End
    <3>6. QED BY <3>1, <3>2, <3>3, <3>4, <3>5
  <2>5. QED BY <1>4, <2>3, <2>4 DEF Answers, Departs, Promised, Overrides3
<1>5. CASE alg = "PermitOverrides3" /\ Understood(alg, rules)
  <2>1. X = "Permit" /\ Y = "Deny"
    BY <1>5 DEF X, Y, Overriding, Opposite
  <2>2. /\ could \subseteq Outcomes
        /\ "Permit" \in could <=> firstP # 0
        /\ "Deny" \in could <=> firstD # 0 \/ atLeastOne
        /\ NA \in could <=> ~ atLeastOne
    BY <1>5, <2>1, Flags3AtEnd DEF Overrides3
  <2>3. result' = PermitOverrides3End
    BY <1>5 DEF EndOfRules
  <2>4. PermitOverrides3End.decision =
          IF could = {"Deny", NA} THEN NA ELSE Envelope(could)
    <3>1. CASE firstP # 0 /\ (firstD # 0 \/ atLeastOne)
      <4>1. {"Permit", "Deny"} \subseteq could /\ could \in SUBSET Outcomes
        BY <2>2, <3>1
      <4>2. Envelope(could) = "IndeterminateDP" /\ could # {"Deny", NA}
        BY <4>1, EnvelopeValue
      <4>3. QED BY <4>2, <3>1, <1>2 DEF PermitOverrides3End
    <3>2. CASE firstP # 0 /\ ~ (firstD # 0 \/ atLeastOne)
      <4>1. could = {"Permit", NA}
        BY <2>2, <3>2, <2>1, <1>1
      <4>2. QED BY <4>1, <3>2, <1>2, EnvelopeValue DEF PermitOverrides3End
    <3>3. CASE firstP = 0 /\ atLeastOne
      <4>1. could = {"Deny"} /\ "Deny" \in Outcomes
        BY <2>2, <3>3, <2>1, <1>1
      <4>2. QED BY <4>1, <3>3, <1>2, EnvelopeValue DEF PermitOverrides3End
    <3>4. CASE firstP = 0 /\ ~ atLeastOne /\ firstD # 0
      <4>1. could = {"Deny", NA}
        BY <2>2, <3>4, <2>1, <1>1
      <4>2. QED BY <4>1, <3>4, <1>2 DEF PermitOverrides3End
    <3>5. CASE firstP = 0 /\ ~ atLeastOne /\ firstD = 0
      <4>1. could = {NA} /\ NA \in Outcomes
        BY <2>2, <3>5, <2>1, <1>1
      <4>2. QED BY <4>1, <3>5, <1>2, EnvelopeValue DEF PermitOverrides3End
    <3>6. QED BY <3>1, <3>2, <3>3, <3>4, <3>5
  <2>5. CASE could = {"Deny", NA}
    <3>1. Envelope(could) = "IndeterminateD" /\ NA \in Decisions
      BY <2>5, EnvelopeValue DEF Decisions
    <3> QED
      BY <1>5, <2>3, <2>4, <2>5, <3>1 DEF Answers, Departs, Promised, Overrides3
  <2>6. CASE could # {"Deny", NA}
    BY <1>5, <2>3, <2>4, <2>6 DEF Answers, Departs, Promised, Overrides3
  <2>7. QED BY <2>5, <2>6
<1>6. CASE alg \in Overrides2
  <2>1. /\ could \subseteq Outcomes
        /\ X \in could <=> potential
        /\ potential => firstError # 0
        /\ atLeastOne => Y \in could
        /\ Y \in could => atLeastOne \/ firstError # 0
        /\ firstError # 0 => X \in could \/ Y \in could
        /\ NA \in could <=> ~ atLeastOne
    BY <1>6, Flags2AtEnd
  <2>2. /\ alg = "DenyOverrides2" => Y = "Permit" /\ result' = DenyOverrides2End
        /\ alg = "PermitOverrides2" => Y = "Deny" /\ result' = PermitOverrides2End
    BY DEF X, Y, Overriding, Opposite, EndOfRules
  <2>3. /\ potential => result' = ResultOf(firstError)
        /\ ~ potential /\ atLeastOne => result' = Definite(Y, carried)
        /\ ~ potential /\ ~ atLeastOne /\ firstError # 0 => result' = ResultOf(firstError)
        /\ ~ potential /\ ~ atLeastOne /\ firstError = 0 => result' = NoneApplied
    BY <1>6, <2>2 DEF Overrides2, DenyOverrides2End, PermitOverrides2End
  <2>4. firstError # 0 => ResultOf(firstError).decision \in Indeterminates
    <3> SUFFICES ASSUME firstError # 0 PROVE ResultOf(firstError).decision \in Indeterminates
      OBVIOUS
    <3>1. firstError \in 1 .. Len(rules) /\ Dec(firstError) \in Indeterminates
      BY <1>1, <1>6, RulesType DEF FlagsSummariseRules, FirstIn, Dec
    <3>2. QED BY <3>1, <1>1, ResultOfType
  <2>5. Answers(alg, rules) =
          IF \E d \in Outcomes : could = {d} THEN could ELSE Indeterminates
    BY <1>6 DEF Answers, Departs, Promised, Understood, Overrides2, Overrides3, Unless
  <2>6. CASE potential
    <3>1. ~ \E d \in Outcomes : could = {d}
      BY <2>1, <2>6, <1>1
    <3>2. QED BY <3>1, <2>1, <2>3, <2>4, <2>5, <2>6
  <2>7. CASE ~ potential /\ atLeastOne
    <3>1. could = {Y}
      BY <2>1, <2>7, <1>1
    <3>2. QED BY <3>1, <2>3, <2>5, <2>7, <1>1, <1>2
  <2>8. CASE ~ potential /\ ~ atLeastOne /\ firstError # 0
    <3>1. ~ \E d \in Outcomes : could = {d}
      BY <2>1, <2>8, <1>1
    <3>2. QED BY <3>1, <2>3, <2>4, <2>5, <2>8
  <2>9. CASE ~ potential /\ ~ atLeastOne /\ firstError = 0
    <3>1. could = {NA}
      BY <2>1, <2>9, <1>1
    <3>2. QED BY <3>1, <2>3, <2>5, <2>9, <1>1, <1>2
  <2>10. QED BY <2>6, <2>7, <2>8, <2>9
<1>7. CASE alg \in Unless
  <2>1. result'.decision = Y
    BY <1>2, <1>7 DEF EndOfRules, Unless, DenyUnlessPermitEnd, PermitUnlessDenyEnd,
                      X, Y, Overriding, Opposite
  <2>2. ASSUME NEW i \in DOMAIN rules PROVE RuleOutcomes(rules[i]) # {X}
    <3>1. /\ Dec(i) # X /\ Dec(i) \in Decisions /\ rules[i] \in RuleInstances
      BY <1>1, <1>7, <2>2, RuleOutcomesType, RulesType
         DEF FlagsSummariseRules, Stops, Unless, Dec
    <3>2. /\ Dec(i) \in Outcomes => RuleOutcomes(rules[i]) = {Dec(i)}
          /\ Dec(i) \in Indeterminates => NA \in RuleOutcomes(rules[i])
      BY <3>1, OutcomesOfDecision DEF Dec
    <3>3. QED BY <3>1, <3>2, <1>1 DEF Decisions, Indeterminates, Outcomes
  <2>3. could # {X}
    BY <2>2, <1>1, <1>7, UnlessCouldDecide DEF X
  <2>4. QED BY <2>1, <2>3, <1>7 DEF Answers, Departs, Promised, Understood, Unless, Overrides3, X, Y
<1>8. CASE alg = "FirstApplicable"
  <2>1. result'.decision = NA
    BY <1>2, <1>8 DEF EndOfRules, FirstApplicableEnd
  <2>2. \A i \in DOMAIN rules : RuleOutcomes(rules[i]) = {NA}
    <3>1. \A i \in DOMAIN rules : RuleDecision(rules[i]) = NA
      BY <1>1, <1>8 DEF FlagsSummariseRules, Stops, Dec
    <3>2. NA \in Outcomes /\ \A i \in DOMAIN rules : rules[i] \in RuleInstances
      BY <1>1, RulesType DEF Outcomes
    <3>3. ASSUME NEW i \in DOMAIN rules PROVE RuleOutcomes(rules[i]) = {NA}
      <4>1. rules[i] \in RuleInstances /\ RuleDecision(rules[i]) = NA /\ NA \in Outcomes
        BY <3>1, <3>2
      <4>2. QED BY <4>1, OutcomesOfDecision
    <3>4. QED BY <3>3
  <2>3. could = {NA}
    BY <2>2, <1>1, <1>8, FirstApplicableCouldDecide
  <2>4. QED BY <2>1, <2>3, <1>1, <1>8 DEF Answers, Departs, Promised, Understood, Unless, Overrides3
<1>9. QED
  BY <1>1, <1>3, <1>4, <1>5, <1>6, <1>7, <1>8 DEF TypeOK, Algorithms, Overrides3

-----------------------------------------------------------------------------
(* While the loop runs there is no decision; the steps that give one are   *)
(* the last.                                                               *)
LEMMA StepKinds ==
  ASSUME IInv, [Next]_vars
  PROVE  \/ UNCHANGED vars
         \/ /\ result = NoResult /\ result' = result
            /\ alg' = alg /\ rules' = rules
         \/ \E d \in Decisions : ReturnRuleResult(d)
         \/ EndOfRules
  BY DEF Next, SkipNotApplicable, CollectEffect, RecordError3, RecordError2, IgnoreError, Iterate

(* The loops implement the abstract algorithm that decides in one step:    *)
(* however a combine method interleaves early returns, flags and cascades, *)
(* the decision it returns is one the rules as a whole promise.            *)
THEOREM LoopsKeepPromise == Spec => KeepsPromise
<1>1. Init => IInv
  BY InitIInv
<1>2. IInv /\ [Next]_vars => IInv'
  BY StepType, StepFlags DEF IInv
<1>3. Init => Once!Init
  BY DEF Init, Once!Init, NoResult
<1>4. IInv /\ [Next]_vars => [Once!Decide]_(Once!vars)
  <2> SUFFICES ASSUME IInv, [Next]_vars PROVE [Once!Decide]_(Once!vars)
    OBVIOUS
  <2>1. ASSUME NEW d \in Decisions, ReturnRuleResult(d) PROVE Once!Decide
    <3>1. result = NoResult /\ alg' = alg /\ rules' = rules
      BY <2>1 DEF ReturnRuleResult, Iterate
    <3>2. result'.decision \in Answers(alg, rules)
      BY <2>1, EarlyReturnPromised
    <3>3. QED BY <3>1, <3>2 DEF Once!Decide, NoResult
  <2>2. ASSUME EndOfRules PROVE Once!Decide
    <3>1. result = NoResult /\ alg' = alg /\ rules' = rules
      BY <2>2 DEF EndOfRules
    <3>2. result'.decision \in Answers(alg, rules)
      BY <2>2, EndPromised
    <3>3. QED BY <3>1, <3>2 DEF Once!Decide, NoResult
  <2>3. ASSUME alg' = alg, rules' = rules, result' = result PROVE UNCHANGED Once!vars
    BY <2>3 DEF Once!vars
  <2>4. UNCHANGED vars => alg' = alg /\ rules' = rules /\ result' = result
    BY DEF vars
  <2>5. QED BY <2>1, <2>2, <2>3, <2>4, StepKinds
<1>5. QED BY <1>1, <1>2, <1>3, <1>4, PTL DEF Spec, KeepsPromise, Once!Spec

-----------------------------------------------------------------------------
(* A rule whose decision is indeterminate is one whose evaluation failed.  *)
LEMMA IndeterminateErrs ==
  ASSUME NEW rule \in RuleInstances, RuleDecision(rule) \in Indeterminates
  PROVE  Errs(rule)
  BY DEF RuleDecision, RuleInstances, Indeterminates, Effects

(* The first rule with such a decision failed, and none before it the same *)
(* way.                                                                    *)
LEMMA FirstErrorStatus ==
  ASSUME IInv, NEW S \in SUBSET Indeterminates, NEW k \in 1 .. pos, FirstIn(rules, pos, k, S)
  PROVE  /\ Errs(rules[k])
         /\ \A i \in 1 .. k - 1 : Dec(i) # Dec(k)
<1>1. /\ RuleDecision(rules[k]) \in S
      /\ \A i \in 1 .. k - 1 : RuleDecision(rules[i]) \notin S
  BY RulesType DEF FirstIn, IInv
<1>2. rules[k] \in RuleInstances
  BY RulesType DEF IInv, TypeOK
<1>3. QED BY <1>1, <1>2, IndeterminateErrs DEF Dec

(* An indeterminate decision is explained by the rule that caused it: the  *)
(* status returned with it is that of the first rule that failed that way. *)
THEOREM FirstErrorReported == Spec => []StatusIsFirstError
<1> DEFINE I == IInv /\ StatusIsFirstError
<1>1. Init => I
  BY InitIInv DEF Init, StatusIsFirstError, NoResult, Pending, Indeterminates, Decisions, Effects
<1>2. I /\ [Next]_vars => I'
  <2> SUFFICES ASSUME IInv, StatusIsFirstError, [Next]_vars PROVE StatusIsFirstError'
    BY StepType, StepFlags DEF IInv
  <2>1. CASE UNCHANGED vars
    BY <2>1 DEF StatusIsFirstError, vars, Dec
  <2>2. CASE result = NoResult /\ result' = result
    BY <2>2 DEF StatusIsFirstError, NoResult, Pending, Indeterminates, Decisions, Effects
  <2>3. ASSUME NEW d \in Decisions, ReturnRuleResult(d) PROVE StatusIsFirstError'
    <3>1. /\ pos' = pos + 1 /\ rules' = rules /\ pos + 1 \in 1 .. Len(rules) /\ pos \in Nat
          /\ result' = ResultOf(pos + 1) /\ d = Dec(pos + 1) /\ Stops(d) /\ result = NoResult
      BY <2>3, RulesType DEF ReturnRuleResult, Iterate, Dec, IInv
    <3>2. result'.decision = d /\ (d \in Indeterminates => result'.status = pos + 1)
      BY <3>1, ResultOfType DEF IInv
    <3>3. d \in Indeterminates =>
            Errs(rules[pos + 1]) /\ \A i \in 1 .. pos : ~ Stops(Dec(i))
      BY <3>1, RulesType, IndeterminateErrs DEF IInv, FlagsSummariseRules, Dec
    <3>4. d \in Indeterminates => \A i \in 1 .. pos : Dec(i) # d
      BY <3>1, <3>3
    <3>5. \A i : Dec(i)' = Dec(i)
      BY <3>1 DEF Dec
    <3>6. (pos + 1) - 1 = pos /\ pos + 1 \in 1 .. pos'
      BY <3>1
    <3>7. QED BY <3>1, <3>2, <3>3, <3>4, <3>5, <3>6 DEF StatusIsFirstError
  <2>4. ASSUME EndOfRules PROVE StatusIsFirstError'
    <3>1. /\ pos' = pos /\ rules' = rules /\ result = NoResult /\ pos \in Nat /\ pos = Len(rules)
          /\ TypeOK /\ FlagsSummariseRules
      BY <2>4, RulesType DEF EndOfRules, IInv
    <3>2. \A i : Dec(i)' = Dec(i)
      BY <3>1 DEF Dec
    <3>3. SUFFICES ASSUME result'.decision \in Indeterminates
                   PROVE  \E S \in SUBSET Indeterminates :
                            result'.status \in 1 .. pos /\ FirstIn(rules, pos, result'.status, S)
      <4>1. ASSUME NEW S \in SUBSET Indeterminates, result'.status \in 1 .. pos,
                   FirstIn(rules, pos, result'.status, S)
            PROVE  /\ Errs(rules[result'.status])
                   /\ \A i \in 1 .. result'.status - 1 : Dec(i) # Dec(result'.status)
        BY <4>1, FirstErrorStatus
      <4>2. QED BY <4>1, <3>1, <3>2 DEF StatusIsFirstError
    <3>4. /\ \A d, from : Definite(d, from).decision = d
          /\ \A d, at : Error(d, at).status = at
          /\ {"Permit", "Deny", "NotApplicable"} \cap Indeterminates = {}
          /\ {"IndeterminateD"} \in SUBSET Indeterminates /\ {"IndeterminateP"} \in SUBSET Indeterminates
          /\ NoneApplied.decision = "NotApplicable"
      BY DEF Definite, Error, NoneApplied, Indeterminates, Decisions, Effects
    <3>5. CASE alg \in Overrides3
      <4>1. \/ firstD # 0 /\ result'.status = firstD
            \/ firstP # 0 /\ result'.status = firstP
        BY <2>4, <3>3, <3>4, <3>5 DEF EndOfRules, Overrides3, DenyOverrides3End, PermitOverrides3End
      <4>2. /\ FirstIn(rules, pos, firstD, {"IndeterminateD"}) /\ firstD \in 0 .. pos
            /\ FirstIn(rules, pos, firstP, {"IndeterminateP"}) /\ firstP \in 0 .. pos
        BY <3>1, <3>5 DEF FlagsSummariseRules, TypeOK
      <4>3. QED BY <4>1, <4>2, <3>1, <3>4
    <3>6. CASE alg \in Overrides2
      <4>1. /\ FirstIn(rules, pos, firstError, Indeterminates) /\ firstError \in 0 .. pos
            /\ potential <=> \E i \in 1 .. pos : Dec(i) \in Indeterminates /\ rules[i].effect = X
        BY <3>1, <3>6 DEF FlagsSummariseRules, TypeOK
      <4>2. potential => firstError # 0
        BY <4>1 DEF FirstIn, Dec
      <4>3. firstError # 0 /\ result' = ResultOf(firstError)
        BY <2>4, <3>3, <3>4, <3>6, <4>2 DEF EndOfRules, Overrides2, DenyOverrides2End, PermitOverrides2End
      <4>4. firstError \in 1 .. pos /\ firstError \in 1 .. Len(rules)
        BY <4>1, <4>3, <3>1
      <4>5. result'.status = firstError
        BY <4>3, <4>4, <3>1, <3>3, ResultOfType
      <4>6. QED BY <4>1, <4>4, <4>5
    <3>7. CASE alg \in Unless \cup {"FirstApplicable"}
      <4>1. result'.decision \in {"Permit", "Deny", "NotApplicable"}
        BY <2>4, <3>4, <3>7 DEF EndOfRules, Unless, DenyUnlessPermitEnd, PermitUnlessDenyEnd,
                                FirstApplicableEnd
      <4>2. QED BY <4>1, <3>3, <3>4
    <3>8. QED BY <3>1, <3>5, <3>6, <3>7 DEF TypeOK, Algorithms
  <2>5. QED BY <2>1, <2>2, <2>3, <2>4, StepKinds
<1>3. QED BY <1>1, <1>2, PTL DEF Spec

(* The obligations returned are those of the rules whose effect is the     *)
(* decision returned, so the enforcement point never sees the obligations  *)
(* of an effect that was overridden, nor any with an indeterminate answer. *)
THEOREM ObligationsMatchDecision == Spec => []ObligationsOfDecision
<1> DEFINE I == IInv /\ ObligationsOfDecision
<1>1. Init => I
  BY InitIInv DEF Init, ObligationsOfDecision
<1>2. I /\ [Next]_vars => I'
  <2> SUFFICES ASSUME IInv, ObligationsOfDecision, [Next]_vars PROVE ObligationsOfDecision'
    BY StepType, StepFlags DEF IInv
  <2>1. CASE UNCHANGED vars
    BY <2>1 DEF ObligationsOfDecision, vars, Dec, X, Y
  <2>2. CASE result = NoResult /\ result' = result
    BY <2>2 DEF ObligationsOfDecision, NoResult, Pending
  <2>3. ASSUME NEW d \in Decisions, ReturnRuleResult(d) PROVE ObligationsOfDecision'
    <3>1. /\ pos' = pos + 1 /\ rules' = rules /\ alg' = alg /\ pos + 1 \in 1 .. Len(rules)
          /\ result' = ResultOf(pos + 1) /\ d = Dec(pos + 1) /\ Stops(d)
      BY <2>3 DEF ReturnRuleResult, Iterate, Dec, IInv, TypeOK
    <3>2. result'.decision = d /\ result'.obligations = IF d \in Effects THEN {pos + 1} ELSE {}
      BY <3>1, ResultOfType DEF IInv
    <3>3. alg' # "FirstApplicable" => d # Y'
      BY <3>1, RulesType DEF Stops, IInv, X, Y
    <3>4. QED BY <3>1, <3>2, <3>3 DEF ObligationsOfDecision
  <2>4. ASSUME EndOfRules PROVE ObligationsOfDecision'
    <3>1. /\ pos' = pos /\ rules' = rules /\ alg' = alg /\ pos = Len(rules)
          /\ DOMAIN rules = 1 .. pos /\ result = NoResult /\ X' = X /\ Y' = Y
          /\ TypeOK /\ FlagsSummariseRules /\ X \in Effects /\ Y \in Effects /\ X # Y
          /\ alg \in Algorithms
      BY <2>4, RulesType DEF EndOfRules, IInv, X, Y, TypeOK
    <3>2. carried = {i \in DOMAIN rules' : Dec(i)' = Y'}
      BY <3>1 DEF FlagsSummariseRules, Dec
    <3>3. \/ alg # "FirstApplicable" /\ result' = Definite(Y, carried)
          \/ result'.decision \notin Effects /\ result'.obligations = {}
      <4>1. /\ \A d, at : Error(d, at).decision = d /\ Error(d, at).obligations = {}
            /\ NoneApplied.decision = "NotApplicable" /\ NoneApplied.obligations = {}
            /\ {"IndeterminateD", "IndeterminateP", "IndeterminateDP", "NotApplicable"} \cap Effects = {}
        BY DEF Error, NoneApplied, Definite, Effects
      <4>2. CASE alg \in Overrides3 \cup Unless \cup {"FirstApplicable"}
        BY <2>4, <4>1, <4>2 DEF EndOfRules, Overrides3, Unless, DenyOverrides3End, PermitOverrides3End,
             DenyUnlessPermitEnd, PermitUnlessDenyEnd, FirstApplicableEnd, X, Y, Overriding, Opposite
      <4>3. CASE alg \in Overrides2
        <5>1. /\ FirstIn(rules, pos, firstError, Indeterminates) /\ firstError \in 0 .. pos
              /\ potential <=> \E i \in 1 .. pos : Dec(i) \in Indeterminates /\ rules[i].effect = X
          BY <3>1, <4>3 DEF FlagsSummariseRules, TypeOK
        <5>2. \/ firstError # 0 /\ result' = ResultOf(firstError)
              \/ result' = Definite(Y, carried)
              \/ result' = NoneApplied
          <6>1. potential => firstError # 0
            BY <5>1 DEF FirstIn, Dec
          <6>2. QED BY <2>4, <4>3, <6>1 DEF EndOfRules, Overrides2, DenyOverrides2End,
                       PermitOverrides2End, X, Y, Overriding, Opposite
        <5>3. ASSUME firstError # 0
              PROVE  ResultOf(firstError).decision \notin Effects /\ ResultOf(firstError).obligations = {}
          <6>1. firstError \in 1 .. Len(rules) /\ Dec(firstError) \in Indeterminates
            BY <5>1, <5>3, <3>1 DEF FirstIn, Dec
          <6>2. QED BY <6>1, <3>1, ResultOfType DEF Indeterminates, Effects
        <5>4. alg # "FirstApplicable"
          BY <4>3 DEF Overrides2
        <5>5. QED BY <5>2, <5>3, <5>4, <4>1
      <4>4. QED BY <3>1, <4>2, <4>3 DEF Algorithms
    <3>4. CASE alg # "FirstApplicable" /\ result' = Definite(Y, carried)
      BY <3>1, <3>2, <3>4 DEF ObligationsOfDecision, Definite
    <3>5. CASE result'.decision \notin Effects /\ result'.obligations = {}
      BY <3>1, <3>5 DEF ObligationsOfDecision
    <3>6. QED BY <3>3, <3>4, <3>5
  <2>5. QED BY <2>1, <2>2, <2>3, <2>4, StepKinds
<1>3. QED BY <1>1, <1>2, PTL DEF Spec
=============================================================================

---------------------- MODULE SemanticCoverage_proofs ----------------------
(***************************************************************************)
(* Proofs about SemanticCoverage, for policies with any number of rules,   *)
(* any number of tests and of suites.  What the combine method does in the *)
(* middle of a test is not proved again: RuleCombining_proofs is           *)
(* instantiated, as RuleCombining itself is in the model.                  *)
(***************************************************************************)
EXTENDS SemanticCoverage, FiniteSetTheorems, SequenceTheorems, TLAPS

Policies == UNION {{RulesOf(m, meet) : meet \in [DOMAIN m.effects -> Meetings]} : m \in Mutants}

D == INSTANCE RuleCombining_proofs WITH RuleLists <- Policies

-----------------------------------------------------------------------------
(* The two instances are the same.                                         *)
LEMMA SameAnswers ==
  ASSUME NEW a, NEW rs
  PROVE  D!Answers(a, rs) = PDP!Answers(a, rs)
<1> QED
  BY Zenon DEF D!Answers, PDP!Answers, D!Departs, PDP!Departs,
     D!Absent, PDP!Absent, D!CouldDecide, PDP!CouldDecide, D!Decisions, PDP!Decisions,
     D!Effects, PDP!Effects, D!Envelope, PDP!Envelope, D!ErrorFree, PDP!ErrorFree, D!Errs,
     PDP!Errs, D!Failed, PDP!Failed, D!IndeterminateOf, PDP!IndeterminateOf, D!Indeterminates,
     PDP!Indeterminates, D!IsFirst, PDP!IsFirst, D!Occurs, PDP!Occurs, D!Opposite, PDP!Opposite,
     D!Outcomes, PDP!Outcomes, D!Overrides3, PDP!Overrides3, D!Overriding, PDP!Overriding,
     D!Promised, PDP!Promised, D!Reached, PDP!Reached, D!Resolutions, PDP!Resolutions,
     D!RuleDecision, PDP!RuleDecision, D!RuleOutcomes, PDP!RuleOutcomes, D!TakesEffect,
     PDP!TakesEffect, D!Understood, PDP!Understood, D!Unless, PDP!Unless

LEMMA SameDecision ==
  ASSUME NEW r
  PROVE  RuleDecision(r) = D!RuleDecision(r) /\ RuleDecision(r) = PDP!RuleDecision(r)
<1> QED
  BY Zenon DEF RuleDecision, D!RuleDecision, PDP!RuleDecision, Errs, D!Errs, PDP!Errs, Failed,
     D!Failed, PDP!Failed, IndeterminateOf, D!IndeterminateOf, PDP!IndeterminateOf,
     TakesEffect, D!TakesEffect, PDP!TakesEffect, Reached, D!Reached, PDP!Reached,
     Absent, D!Absent, PDP!Absent

LEMMA SameInit == PDP!Init <=> D!Init
<1> QED
  BY Zenon DEF PDP!Init, D!Init, PDP!Algorithms, D!Algorithms, PDP!Overrides3, D!Overrides3,
     PDP!Overrides2, D!Overrides2, PDP!Unless, D!Unless, PDP!NoResult, D!NoResult, PDP!Pending,
     D!Pending, Policies

LEMMA SameSteps ==
  ASSUME NEW d
  PROVE  /\ PDP!ReturnRuleResult(d) <=> D!ReturnRuleResult(d)
         /\ PDP!SkipNotApplicable(d) <=> D!SkipNotApplicable(d)
         /\ PDP!CollectEffect(d) <=> D!CollectEffect(d)
         /\ PDP!RecordError3(d) <=> D!RecordError3(d)
         /\ PDP!RecordError2(d) <=> D!RecordError2(d)
         /\ PDP!IgnoreError(d) <=> D!IgnoreError(d)
<1> QED
  BY Zenon DEF PDP!ReturnRuleResult, D!ReturnRuleResult, PDP!SkipNotApplicable,
     D!SkipNotApplicable, PDP!CollectEffect, D!CollectEffect, PDP!RecordError3, D!RecordError3,
     PDP!RecordError2, D!RecordError2, PDP!IgnoreError, D!IgnoreError, PDP!Iterate, D!Iterate,
     PDP!Stops, D!Stops, PDP!ResultOf, D!ResultOf, PDP!Error, D!Error, PDP!Definite, D!Definite,
     PDP!X, D!X, PDP!Y, D!Y, PDP!Overriding, D!Overriding, PDP!Opposite, D!Opposite,
     PDP!RuleDecision, D!RuleDecision, PDP!Errs, D!Errs, PDP!Failed, D!Failed,
     PDP!IndeterminateOf, D!IndeterminateOf, PDP!TakesEffect, D!TakesEffect, PDP!Reached,
     D!Reached, PDP!Absent, D!Absent, PDP!Indeterminates, D!Indeterminates, PDP!Decisions,
     D!Decisions, PDP!Effects, D!Effects, PDP!Overrides3, D!Overrides3, PDP!Overrides2,
     D!Overrides2, PDP!Unless, D!Unless, PDP!NoResult, D!NoResult, PDP!Pending, D!Pending,
     PDP!loop, D!loop

LEMMA SameEnd == PDP!EndOfRules <=> D!EndOfRules
<1> QED
  BY Zenon DEF PDP!EndOfRules, D!EndOfRules, PDP!DenyOverrides3End, D!DenyOverrides3End,
     PDP!PermitOverrides3End, D!PermitOverrides3End, PDP!DenyOverrides2End, D!DenyOverrides2End,
     PDP!PermitOverrides2End, D!PermitOverrides2End, PDP!DenyUnlessPermitEnd,
     D!DenyUnlessPermitEnd, PDP!PermitUnlessDenyEnd, D!PermitUnlessDenyEnd,
     PDP!FirstApplicableEnd, D!FirstApplicableEnd, PDP!NoneApplied, D!NoneApplied,
     PDP!ResultOf, D!ResultOf, PDP!Error, D!Error, PDP!Definite, D!Definite,
     PDP!RuleDecision, D!RuleDecision, PDP!Errs, D!Errs, PDP!Failed, D!Failed,
     PDP!IndeterminateOf, D!IndeterminateOf, PDP!TakesEffect, D!TakesEffect, PDP!Reached,
     D!Reached, PDP!Absent, D!Absent, PDP!Indeterminates, D!Indeterminates, PDP!Decisions,
     D!Decisions, PDP!Effects, D!Effects, PDP!NoResult, D!NoResult, PDP!Pending, D!Pending,
     PDP!loop, D!loop

-----------------------------------------------------------------------------
(* The rules a policy has when it meets a request.                         *)
LEMMA RulesTyped ==
  ASSUME NEW m \in Mutants, NEW meet \in [DOMAIN m.effects -> Meetings]
  PROVE  /\ RulesOf(m, meet) \in Seq(RuleInstances)
         /\ Len(RulesOf(m, meet)) = Len(m.ids) /\ Len(m.ids) \in Nat
         /\ DOMAIN m.ids = 1 .. Len(m.ids)
         /\ \A i \in DOMAIN m.ids : RulesOf(m, meet)[i] \in RuleInstances /\ RulesOf(m, meet)[i].v3
<1>1. /\ m.effects \in Seq(Effects) /\ m.ids \in Seq(STRING) /\ Len(m.ids) = Len(m.effects)
  BY MutantsAssumption
<1>2. /\ Len(m.effects) \in Nat /\ DOMAIN m.effects = 1 .. Len(m.effects)
      /\ DOMAIN m.ids = 1 .. Len(m.ids)
      /\ \A i \in 1 .. Len(m.effects) : m.effects[i] \in Effects
  BY <1>1
<1>3. ASSUME NEW i \in 1 .. Len(m.effects)
      PROVE  RulesOf(m, meet)[i] \in RuleInstances /\ RulesOf(m, meet)[i].v3
  <2>1. meet[i] \in (MatchResults \cup {Absent}) \X {"TRUE", "FALSE", "ERROR", Absent}
    BY <1>2, MeetingsAssumption
  <2>2. meet[i][1] \in MatchResults \cup {Absent} /\ meet[i][2] \in {"TRUE", "FALSE", "ERROR", Absent}
    BY <2>1
  <2>3. m.effects[i] \in Effects
    BY <1>2
  <2>4. RulesOf(m, meet)[i] = [effect |-> m.effects[i], target |-> meet[i][1],
                               condition |-> meet[i][2], v3 |-> TRUE]
    BY <1>2 DEF RulesOf
  <2> QED
    BY <2>2, <2>3, <2>4 DEF RuleInstances
<1>4. DOMAIN RulesOf(m, meet) = 1 .. Len(m.effects)
  BY <1>2 DEF RulesOf
<1>5. RulesOf(m, meet) \in Seq(RuleInstances) /\ Len(RulesOf(m, meet)) = Len(m.effects)
  <2> DEFINE rs == RulesOf(m, meet)
  <2>1. rs = [i \in 1 .. Len(m.effects) |-> rs[i]]
    BY <1>2 DEF RulesOf
  <2> HIDE DEF rs
  <2>2. rs \in [1 .. Len(m.effects) -> RuleInstances]
    BY <1>3, <2>1 DEF rs
  <2>3. rs \in Seq(RuleInstances) /\ Len(rs) = Len(m.effects)
    BY <1>2, <2>2
  <2> QED
    BY <2>3 DEF rs
<1> QED
  BY <1>1, <1>2, <1>3, <1>5

LEMMA PoliciesAreLists == D!RuleListsAssumption
<1>1. Policies \subseteq Seq(RuleInstances)
  BY RulesTyped DEF Policies
<1>2. RuleInstances = D!RuleInstances
  BY Zenon DEF RuleInstances, D!RuleInstances, Effects, D!Effects, MatchResults, D!MatchResults,
     Absent, D!Absent
<1> QED
  BY <1>1, <1>2 DEF D!RuleListsAssumption

-----------------------------------------------------------------------------
(* Columns.                                                                *)
ColumnOf(m, i) == i + (IF m.hasTarget THEN 1 ELSE 0)

LEMMA EntriesTyped ==
  ASSUME NEW m \in Mutants
  PROVE  /\ Len(Entries(m)) = ColumnOf(m, Len(m.ids)) /\ Len(Entries(m)) \in Nat
         /\ DOMAIN Entries(m) = 1 .. Len(Entries(m))
         /\ m.hasTarget => Entries(m)[1] = TargetXPath
         /\ \A i \in DOMAIN m.ids : /\ ColumnOf(m, i) \in DOMAIN Entries(m)
                                    /\ Entries(m)[ColumnOf(m, i)] = m.ids[i]
         /\ ~ m.hasTarget => \A i \in DOMAIN Entries(m) : Entries(m)[i] # TargetXPath
<1>1. /\ m.ids \in Seq(STRING) /\ m.hasTarget \in BOOLEAN
      /\ \A i \in DOMAIN m.ids : m.ids[i] # TargetXPath
  BY MutantsAssumption
<1>2. Len(m.ids) \in Nat /\ DOMAIN m.ids = 1 .. Len(m.ids)
  BY <1>1
<1> DEFINE ids == m.ids
<1>3. CASE m.hasTarget
  <2>1. Entries(m) = <<TargetXPath>> \o ids
    BY <1>3 DEF Entries
  <2> DEFINE T == STRING \cup {TargetXPath}
  <2>2. TargetXPath \in T /\ ids \in Seq(T)
    BY <1>1
  <2> HIDE DEF ids, T
  <2>3. /\ Entries(m) \in Seq(T) /\ Len(Entries(m)) = Len(ids) + 1 /\ Entries(m)[1] = TargetXPath
        /\ \A i \in 1 .. Len(ids) : Entries(m)[i + 1] = ids[i]
    BY <1>1, <1>2, <2>1, <2>2 DEF ids
  <2> QED
    BY <1>2, <1>3, <2>3 DEF ids, ColumnOf
<1>4. CASE ~ m.hasTarget
  <2>1. Entries(m) = ids
    <3>1. Entries(m) = <<>> \o ids
      BY <1>4 DEF Entries
    <3> QED
      BY <1>1, <3>1
  <2>2. \A i \in 1 .. Len(m.ids) : ColumnOf(m, i) = i
    BY <1>4 DEF ColumnOf
  <2> QED
    BY <1>1, <1>2, <1>4, <2>1, <2>2 DEF ColumnOf
<1> QED
  BY <1>3, <1>4

LEMMA EntriesDistinct ==
  ASSUME NEW m \in Mutants, DistinctIds(m)
  PROVE  \A i, j \in DOMAIN Entries(m) : Entries(m)[i] = Entries(m)[j] => i = j
<1>1. Len(m.ids) \in Nat /\ DOMAIN m.ids = 1 .. Len(m.ids) /\ m.hasTarget \in BOOLEAN
      /\ \A i \in DOMAIN m.ids : m.ids[i] # TargetXPath
  BY MutantsAssumption
<1>2. /\ \A i \in DOMAIN m.ids : Entries(m)[ColumnOf(m, i)] = m.ids[i]
      /\ m.hasTarget => Entries(m)[1] = TargetXPath
      /\ DOMAIN Entries(m) = 1 .. ColumnOf(m, Len(m.ids))
  BY EntriesTyped
<1>3. \A k \in DOMAIN Entries(m) : (m.hasTarget /\ k = 1)
                                   \/ \E i \in DOMAIN m.ids : k = ColumnOf(m, i)
  <2> SUFFICES ASSUME NEW k \in DOMAIN Entries(m), ~ (m.hasTarget /\ k = 1)
               PROVE  \E i \in DOMAIN m.ids : k = ColumnOf(m, i)
    OBVIOUS
  <2>1. CASE m.hasTarget
    <3>1. k - 1 \in DOMAIN m.ids /\ k = ColumnOf(m, k - 1)
      BY <1>1, <1>2, <2>1 DEF ColumnOf
    <3> QED
      BY <3>1
  <2>2. CASE ~ m.hasTarget
    <3>1. k \in DOMAIN m.ids /\ k = ColumnOf(m, k)
      BY <1>1, <1>2, <2>2 DEF ColumnOf
    <3> QED
      BY <3>1
  <2> QED
    BY <2>1, <2>2
<1>4. \A i, j \in DOMAIN m.ids : m.ids[i] = m.ids[j] => i = j
  BY DEF DistinctIds
<1> QED
  BY <1>1, <1>2, <1>3, <1>4

LEMMA WidthTyped ==
  ASSUME NEW m \in Mutants
  PROVE  /\ Cardinality(DOMAIN MappingOf(m)) \in Nat
         /\ DistinctIds(m) => Cardinality(DOMAIN MappingOf(m)) = Len(Entries(m))
<1> DEFINE n == Len(Entries(m))
           f == [i \in 1 .. n |-> Entries(m)[i]]
           S == {Entries(m)[i] : i \in DOMAIN Entries(m)}
<1>1. n \in Nat /\ DOMAIN Entries(m) = 1 .. n /\ DOMAIN MappingOf(m) = S
  BY EntriesTyped DEF MappingOf
<1>2. IsFiniteSet(1 .. n) /\ Cardinality(1 .. n) = n
  BY <1>1, FS_Interval
<1>3. f \in Surjection(1 .. n, S)
  BY <1>1 DEF Surjection
<1>4. IsFiniteSet(S) /\ (f \in Injection(1 .. n, S) => Cardinality(S) = n)
  <2> HIDE DEF f, S, n
  <2> QED
    BY <1>2, <1>3, FS_Surjection
<1>5. DistinctIds(m) => f \in Injection(1 .. n, S)
  <2> SUFFICES ASSUME DistinctIds(m) PROVE f \in Injection(1 .. n, S)
    OBVIOUS
  <2>1. f \in [1 .. n -> S]
    BY <1>1
  <2>2. \A i, j \in 1 .. n : Entries(m)[i] = Entries(m)[j] => i = j
    BY <1>1, EntriesDistinct
  <2>3. \A i \in 1 .. n : f[i] = Entries(m)[i]
    OBVIOUS
  <2> HIDE DEF f, S, n
  <2> QED
    BY <2>1, <2>2, <2>3 DEF Injection, IsInjective
<1> HIDE DEF f, S
<1> QED
  BY <1>1, <1>4, <1>5, FS_CardinalityType

LEMMA MappingFinds ==
  ASSUME NEW m \in Mutants, DistinctIds(m), NEW i \in DOMAIN Entries(m)
  PROVE  Entries(m)[i] \in DOMAIN MappingOf(m) /\ MappingOf(m)[Entries(m)[i]] = i
<1> DEFINE x == Entries(m)[i]
           Is(k) == Entries(m)[k] = x /\ \A j \in DOMAIN Entries(m) : Entries(m)[j] = x => j <= k
<1>1. \A j \in DOMAIN Entries(m) : Entries(m)[j] = x => j = i
  BY EntriesDistinct
<1>2. i \in Nat
  BY EntriesTyped
<1>3. \A k \in DOMAIN Entries(m) : Is(k) <=> k = i
  BY <1>1, <1>2
<1>4. MappingOf(m)[x] = CHOOSE k \in DOMAIN Entries(m) : Is(k)
  BY DEF MappingOf
<1>5. x \in DOMAIN MappingOf(m)
  BY DEF MappingOf
<1> HIDE DEF Is
<1>6. (CHOOSE k \in DOMAIN Entries(m) : Is(k)) = i
  BY <1>3
<1> QED
  BY <1>4, <1>5, <1>6

-----------------------------------------------------------------------------
(* The advice: its decision is that of Rule.evaluate, and it records a hit *)
(* exactly when the rule takes effect.                                     *)
Cells == [kind : {"target", "rule"}, value : MatchResults \cup {"EFFECT", "NA", "INDETERMINATE"}]

LEMMA AdviceIsFaithful ==
  ASSUME NEW rule \in RuleInstances, rule.v3
  PROVE  /\ TracedDecision(rule) = RuleDecision(rule) /\ RuleDecision(rule) \in Decisions
         /\ TracedCoverage(rule) \in Cells
         /\ IsHit(TracedCoverage(rule)) <=> RuleDecision(rule) \in Effects
<1>1. /\ rule.effect \in Effects /\ rule.target \in MatchResults \cup {Absent}
      /\ rule.condition \in {"TRUE", "FALSE", "ERROR", Absent}
  BY DEF RuleInstances
<1>2. Failed(rule) \in {"IndeterminateP", "IndeterminateD"}
  BY DEF Failed, IndeterminateOf
<1>3. \A v : IsHit(RuleCoverage(v)) <=> v = "EFFECT"
  BY DEF IsHit, RuleCoverage, TargetCoverage
<1>4. \A v \in {"EFFECT", "NA", "INDETERMINATE"} : RuleCoverage(v) \in Cells
  BY DEF RuleCoverage, Cells
<1> DEFINE I == Intermediate(rule)
           v == RuleDecisionCoverage(I[1], I[2])
<1>5. CASE rule.target = "NO_MATCH"
  <2>1. TracedDecision(rule) = "NotApplicable" /\ I = <<"FALSE", "NOTEVALUATED">>
    BY <1>5 DEF TracedDecision, Intermediate
  <2>2. RuleDecision(rule) = "NotApplicable"
    BY <1>5 DEF RuleDecision, Errs, TakesEffect, Reached, Absent
  <2>3. v = "NA"
    BY <2>1 DEF RuleDecisionCoverage
  <2> QED
    BY <1>3, <1>4, <2>1, <2>2, <2>3 DEF TracedCoverage, Decisions, Effects
<1>6. CASE rule.target = "INDETERMINATE"
  <2>1. TracedDecision(rule) = Failed(rule) /\ I = <<"ERROR", "NOTEVALUATED">>
    BY <1>6 DEF TracedDecision, Intermediate
  <2>2. RuleDecision(rule) = Failed(rule)
    BY <1>6 DEF RuleDecision, Errs
  <2>3. v = "INDETERMINATE"
    BY <2>1 DEF RuleDecisionCoverage
  <2> QED
    BY <1>2, <1>3, <1>4, <2>1, <2>2, <2>3 DEF TracedCoverage, Decisions, Effects
<1>7. CASE rule.target \in {"MATCH", Absent}
  <2>1. rule.target # "NO_MATCH" /\ rule.target # "INDETERMINATE"
    BY <1>7 DEF Absent
  <2>2. /\ TracedDecision(rule) = CASE rule.condition = Absent  -> rule.effect
                                    [] rule.condition = "ERROR" -> Failed(rule)
                                    [] rule.condition = "TRUE"  -> rule.effect
                                    [] rule.condition = "FALSE" -> "NotApplicable"
        /\ I = <<"TRUE", IF rule.condition = Absent THEN "EMPTY" ELSE rule.condition>>
    BY <2>1, Zenon DEF TracedDecision, Intermediate
  <2>3. CASE rule.condition \in {Absent, "TRUE"}
    <3>1. TracedDecision(rule) = rule.effect /\ RuleDecision(rule) = rule.effect
      BY <1>7, <2>2, <2>3 DEF RuleDecision, Errs, TakesEffect, Reached, Absent
    <3>2. v = "EFFECT"
      BY <2>2, <2>3 DEF RuleDecisionCoverage, Absent
    <3> QED
      BY <1>1, <1>3, <1>4, <3>1, <3>2 DEF TracedCoverage, Decisions, Effects
  <2>4. CASE rule.condition = "ERROR"
    <3>1. TracedDecision(rule) = Failed(rule) /\ RuleDecision(rule) = Failed(rule)
      BY <1>7, <2>2, <2>4 DEF RuleDecision, Errs, Reached, Absent
    <3>2. v = "INDETERMINATE"
      BY <2>2, <2>4 DEF RuleDecisionCoverage, Absent
    <3> QED
      BY <1>2, <1>3, <1>4, <3>1, <3>2 DEF TracedCoverage, Decisions, Effects
  <2>5. CASE rule.condition = "FALSE"
    <3>1. TracedDecision(rule) = "NotApplicable" /\ RuleDecision(rule) = "NotApplicable"
      BY <1>7, <2>2, <2>5 DEF RuleDecision, Errs, TakesEffect, Reached, Absent
    <3>2. v = "NA"
      BY <2>2, <2>5 DEF RuleDecisionCoverage, Absent
    <3> QED
      BY <1>3, <1>4, <3>1, <3>2 DEF TracedCoverage, Decisions, Effects
  <2> QED
    BY <1>1, <2>3, <2>4, <2>5
<1> QED
  BY <1>1, <1>5, <1>6, <1>7 DEF MatchResults

(* A row, and a test, of which only the last is changed.                   *)
LEMMA LastElement ==
  ASSUME NEW S, NEW s \in Seq(S), Len(s) > 0, NEW r \in S
  PROVE  /\ [s EXCEPT ![Len(s)] = r] \in Seq(S) /\ Len([s EXCEPT ![Len(s)] = r]) = Len(s)
         /\ [s EXCEPT ![Len(s)] = r][Len(s)] = r
         /\ \A i \in 1 .. Len(s) : i # Len(s) => [s EXCEPT ![Len(s)] = r][i] = s[i]
<1>1. Len(s) \in 1 .. Len(s)
  OBVIOUS
<1> QED
  BY <1>1, ExceptSeq

-----------------------------------------------------------------------------
(* The combine method in the middle of a test: its steps keep what         *)
(* RuleCombining_proofs shows of it.                                       *)
AnswerInv == result # PDP!NoResult => result.decision \in PDP!Answers(alg, rules)

LEMMA InitCombining == Init => D!IInv /\ AnswerInv
<1>1. Init => D!IInv
  BY D!InitIInv, PoliciesAreLists, SameInit DEF Init
<1>2. Init => result = PDP!NoResult
  BY DEF Init, PDP!Init
<1> QED
  BY <1>1, <1>2 DEF AnswerInv

LEMMA RestartCombining ==
  ASSUME mutant \in Mutants, NEW meet \in [DOMAIN mutant.effects -> Meetings],
         NEW o \in Oracles, StartTest(meet, o)
  PROVE  D!IInv' /\ AnswerInv' /\ result' = PDP!NoResult
<1>1. D!Init'
  <2>1. rules' \in Policies
    BY DEF StartTest, Policies
  <2>2. alg' \in PDP!Algorithms
    BY MutantsAssumption DEF StartTest
  <2>3. PDP!Init'
    BY <2>1, <2>2, Zenon DEF PDP!Init, StartTest, Policies, PDP!NoResult, PDP!Pending
  <2>4. PDP!Init' <=> D!Init'
    BY SameInit, PTL
  <2> QED
    BY <2>3, <2>4
<1>2. D!Init' => D!IInv'
  BY D!InitIInv, PoliciesAreLists, PTL
<1>3. result' = PDP!NoResult
  BY Zenon DEF StartTest, PDP!NoResult, PDP!Pending
<1>4. (PDP!NoResult)' = PDP!NoResult
  BY DEF PDP!NoResult, PDP!Pending
<1> QED
  BY <1>1, <1>2, <1>3, <1>4 DEF AnswerInv

LEMMA CombiningStep ==
  ASSUME D!IInv, AnswerInv,
         (\E d \in Decisions : CombineRule(d)) \/ PDP!EndOfRules
  PROVE  D!IInv' /\ AnswerInv'
<1>0. Decisions = D!Decisions
  BY Zenon DEF Decisions, D!Decisions, Effects, D!Effects
<1>1. D!Next
  BY <1>0, SameSteps, SameEnd, Zenon DEF D!Next, CombineRule
<1>2. D!IInv'
  BY <1>1, PoliciesAreLists, D!StepType, D!StepFlags DEF D!IInv
<1>3. alg' = alg /\ rules' = rules
  BY Zenon DEF PDP!EndOfRules, CombineRule, PDP!ReturnRuleResult, PDP!SkipNotApplicable,
     PDP!CollectEffect, PDP!RecordError3, PDP!RecordError2, PDP!IgnoreError, PDP!Iterate
<1>4. AnswerInv'
  <2>1. ASSUME NEW d \in Decisions, PDP!ReturnRuleResult(d)
        PROVE  result'.decision \in PDP!Answers(alg, rules)
    <3>1. d \in D!Decisions /\ D!ReturnRuleResult(d)
      BY <1>0, <2>1, SameSteps
    <3> QED
      BY <3>1, SameAnswers, PoliciesAreLists, D!EarlyReturnPromised
  <2>2. ASSUME PDP!EndOfRules PROVE result'.decision \in PDP!Answers(alg, rules)
    BY <2>2, SameEnd, SameAnswers, PoliciesAreLists, D!EndPromised
  <2>3. ASSUME NEW d, \/ PDP!SkipNotApplicable(d) \/ PDP!CollectEffect(d)
                      \/ PDP!RecordError3(d) \/ PDP!RecordError2(d) \/ PDP!IgnoreError(d)
        PROVE  result' = result
    BY <2>3, Zenon DEF PDP!SkipNotApplicable, PDP!CollectEffect, PDP!RecordError3,
       PDP!RecordError2, PDP!IgnoreError
  <2> QED
    BY <1>3, <2>1, <2>2, <2>3, Zenon DEF AnswerInv, CombineRule
<1> QED
  BY <1>2, <1>4

LEMMA CombiningIdle ==
  ASSUME D!IInv, AnswerInv, UNCHANGED evaluator
  PROVE  D!IInv' /\ AnswerInv'
<1>1. UNCHANGED D!vars
  BY DEF evaluator, D!vars, D!loop
<1>2. D!IInv'
  BY <1>1, PoliciesAreLists, D!StepType, D!StepFlags DEF D!IInv
<1>3. AnswerInv'
  BY Zenon DEF AnswerInv, evaluator
<1> QED
  BY <1>2, <1>3

-----------------------------------------------------------------------------
(* The inductive invariant.                                                *)
PCs   == {"suite", "test", "request", "combine", "decided", "localize", "localized", "crashed"}
Rows  == [1 .. Width -> Cells]
Tests == [target : MatchResults, rules : Seq(Decisions), passed : BOOLEAN]

TypeInv ==
  /\ mutant \in Mutants /\ suites \in 0 .. MaxSuites /\ pc \in PCs
  /\ oracle \in Decisions /\ decision \in Decisions \cup {"unparsable"}
  /\ verdicts \in Seq(BOOLEAN) /\ results \in Seq(BOOLEAN)
  /\ coverage \in Seq(Rows) /\ truth \in Seq(Tests)

(* The columns are those of the policy under test.                         *)
MapInv == \/ mapping = MappingOf(mutant)
          \/ pc = "suite" /\ mapping = <<>>

(* A row, an entry of truth and a verdict for each test, one after another.*)
LenInv ==
  /\ Len(coverage) <= MaxTests /\ Len(verdicts) <= Len(coverage)
  /\ pc = "request" => Len(coverage) = Len(truth) + 1
  /\ pc \in {"combine", "decided"} => Len(coverage) = Len(truth) /\ Len(truth) > 0
  /\ pc \in {"request", "combine", "decided"} => Len(coverage) = Len(verdicts) + 1
  /\ pc \in {"suite", "test", "localize", "localized"} =>
       Len(coverage) = Len(truth) /\ Len(truth) = Len(verdicts)

(* The running test is one of the policy under test.                       *)
RulesInv ==
  /\ pc \in {"request", "combine", "decided"} =>
       \E meet \in [DOMAIN mutant.effects -> Meetings] : rules = RulesOf(mutant, meet)
  /\ pc = "request" => pos = 0
  /\ pc = "combine" => Len(truth[Len(truth)].rules) = pos

(* Row by row, what the matrix tells and what happened.                    *)
Tells(t) ==
  /\ mutant.hasTarget => (IsHit(coverage[t][1]) <=> truth[t].target = "MATCH")
  /\ \A i \in DOMAIN mutant.ids :
       IsHit(coverage[t][ColumnOf(mutant, i)]) <=>
         (i \in DOMAIN truth[t].rules /\ truth[t].rules[i] \in Effects)

RowInv ==
  DistinctIds(mutant) =>
    /\ \A t \in 1 .. Len(truth) : Tells(t)
    /\ pc = "request" => coverage[Len(coverage)] = [j \in 1 .. Width |-> Occupier]

(* What was published is what the localizer has read.                      *)
ResultsInv ==
  /\ pc \in {"localize", "localized"} => results = verdicts
  /\ pc = "localized" =>
       spectrum = [hits   |-> [i \in DOMAIN coverage |->
                                 [j \in DOMAIN coverage[i] |-> IsHit(coverage[i][j])]],
                   failed |-> [i \in DOMAIN results |-> ~ results[i]]]

(* The verdicts are those of the tests, in their order.                    *)
PassInv ==
  /\ \A t \in 1 .. Len(verdicts) : truth[t].passed = verdicts[t]
  /\ pc = "decided" => (truth[Len(truth)].passed <=> decision = oracle)

IInv == /\ TypeInv /\ MapInv /\ LenInv /\ RulesInv /\ RowInv /\ ResultsInv /\ PassInv
        /\ D!IInv /\ AnswerInv
        /\ CrashNeedsAmbiguity

LEMMA WidthNat ==
  ASSUME mutant \in Mutants, MapInv
  PROVE  Width \in Nat
<1>1. CASE mapping = MappingOf(mutant)
  BY <1>1, WidthTyped DEF Width
<1>2. CASE mapping = <<>>
  BY <1>2, FS_EmptySet DEF Width
<1> QED
  BY <1>1, <1>2 DEF MapInv

LEMMA InitInv == Init => IInv
<1> SUFFICES ASSUME Init PROVE IInv
  OBVIOUS
<1>1. TypeInv
  BY BoundsAssumption DEF Init, TypeInv, PCs, Decisions, Effects
<1>2. MapInv /\ RulesInv /\ ResultsInv /\ CrashNeedsAmbiguity
  BY DEF Init, MapInv, RulesInv, ResultsInv, CrashNeedsAmbiguity
<1>3. LenInv /\ RowInv /\ PassInv
  BY BoundsAssumption DEF Init, LenInv, RowInv, PassInv
<1> QED
  BY <1>1, <1>2, <1>3, InitCombining DEF IInv

-----------------------------------------------------------------------------
(* Each step keeps it.                                                     *)
LEMMA StartSuiteInv ==
  ASSUME IInv, NEW m \in Mutants, StartSuite(m)
  PROVE  IInv'
<1>1. TypeInv'
  BY BoundsAssumption DEF IInv, TypeInv, StartSuite, PCs
<1>2. MapInv'
  BY DEF StartSuite, MapInv
<1>3. LenInv' /\ RulesInv' /\ RowInv' /\ ResultsInv' /\ PassInv' /\ CrashNeedsAmbiguity'
  BY BoundsAssumption DEF StartSuite, LenInv, RulesInv, RowInv, ResultsInv, PassInv,
     CrashNeedsAmbiguity
<1>4. D!IInv' /\ AnswerInv'
  BY CombiningIdle DEF IInv, StartSuite
<1> QED
  BY <1>1, <1>2, <1>3, <1>4 DEF IInv

(* The target and every rule have a column of the row.                     *)
LEMMA ColumnsFit ==
  ASSUME mutant \in Mutants, mapping = MappingOf(mutant), DistinctIds(mutant)
  PROVE  /\ Width = Len(Entries(mutant))
         /\ mutant.hasTarget => 1 \in 1 .. Width
         /\ \A i \in DOMAIN mutant.ids : ColumnOf(mutant, i) \in 1 .. Width
<1>1. Width = Len(Entries(mutant))
  BY WidthTyped DEF Width
<1>2. Len(mutant.ids) \in Nat
  BY MutantsAssumption
<1>3. /\ Len(Entries(mutant)) = ColumnOf(mutant, Len(mutant.ids))
      /\ DOMAIN Entries(mutant) = 1 .. Len(Entries(mutant))
      /\ \A i \in DOMAIN mutant.ids : ColumnOf(mutant, i) \in DOMAIN Entries(mutant)
  BY EntriesTyped
<1>4. mutant.hasTarget => 1 \in 1 .. Width
  BY <1>1, <1>2, <1>3 DEF ColumnOf
<1> QED
  BY <1>1, <1>3, <1>4

(* The steps that leave the matrix and the truth alone.                    *)
LEMMA Frame ==
  ASSUME IInv, UNCHANGED <<mutant, mapping, coverage, truth>>, pc' # "request"
  PROVE  /\ Width' = Width /\ coverage' \in Seq(Rows') /\ truth' \in Seq(Tests)
         /\ (mapping = MappingOf(mutant) => MapInv') /\ RowInv'
<1>1. Width' = Width
  BY Zenon DEF Width
<1>2. Rows' = Rows
  BY <1>1, Zenon DEF Rows
<1>3. coverage' \in Seq(Rows') /\ truth' \in Seq(Tests)
  BY <1>2, Zenon DEF IInv, TypeInv
<1>4. RowInv'
  <2>1. \A t : Tells(t)' <=> Tells(t)
    BY Zenon DEF Tells
  <2> QED
    BY <2>1 DEF IInv, RowInv
<1> QED
  BY <1>1, <1>3, <1>4 DEF MapInv

LEMMA StartTestInv ==
  ASSUME IInv, NEW meet \in [DOMAIN mutant.effects -> Meetings], NEW o \in Oracles,
         StartTest(meet, o)
  PROVE  IInv'
<1> DEFINE row == [i \in 1 .. Width |-> Occupier]
<1>1. /\ mutant \in Mutants /\ mapping = MappingOf(mutant) /\ Width \in Nat
      /\ coverage \in Seq(Rows) /\ truth \in Seq(Tests)
  BY WidthNat DEF IInv, TypeInv, MapInv, StartTest
<1>2. mutant' = mutant /\ mapping' = mapping /\ truth' = truth /\ Width' = Width
  BY DEF StartTest, Width
<1>3. row \in Rows
  BY DEF Rows, Cells, Occupier, TargetCoverage, MatchResults
<1>4. /\ coverage' \in Seq(Rows) /\ Len(coverage') = Len(coverage) + 1
      /\ coverage'[Len(coverage')] = row
      /\ \A i \in 1 .. Len(coverage) : coverage'[i] = coverage[i]
  <2>1. coverage' = Append(coverage, row)
    BY DEF StartTest
  <2> HIDE DEF row
  <2> QED
    BY <1>1, <1>3, <2>1
<1>5. TypeInv'
  <2>1. Rows' = Rows
    BY <1>2 DEF Rows
  <2>2. o \in Decisions
    BY OraclesAssumption
  <2> HIDE DEF row
  <2> QED
    BY <1>2, <1>4, <2>1, <2>2 DEF IInv, TypeInv, StartTest, PCs
<1>6. LenInv'
  <2> HIDE DEF row
  <2> QED
    BY <1>1, <1>2, <1>4, BoundsAssumption DEF IInv, TypeInv, LenInv, StartTest
<1>7. RulesInv' /\ MapInv' /\ ResultsInv' /\ PassInv' /\ CrashNeedsAmbiguity'
  BY <1>1, <1>2 DEF IInv, RulesInv, MapInv, ResultsInv, PassInv, CrashNeedsAmbiguity, StartTest
<1>8. RowInv'
  <2> HIDE DEF row
  <2>1. Len(truth) = Len(coverage) /\ Len(coverage) \in Nat
    BY <1>1 DEF IInv, LenInv, StartTest
  <2>2. ASSUME NEW t \in 1 .. Len(truth) PROVE Tells(t)' <=> Tells(t)
    BY <1>2, <1>4, <2>1 DEF Tells
  <2>3. DistinctIds(mutant)' <=> DistinctIds(mutant)
    BY <1>2 DEF DistinctIds
  <2>4. row = [j \in 1 .. Width' |-> Occupier]
    BY <1>2 DEF row
  <2>5. Len(truth') = Len(truth)
    BY <1>2
  <2> QED
    BY <1>4, <2>2, <2>3, <2>4, <2>5 DEF IInv, RowInv
<1>9. D!IInv' /\ AnswerInv'
  BY <1>1, RestartCombining
<1> QED
  BY <1>5, <1>6, <1>7, <1>8, <1>9 DEF IInv

LEMMA RejectRequestInv ==
  ASSUME IInv, RejectRequest
  PROVE  IInv'
<1> DEFINE test == [target |-> "NO_MATCH", rules |-> <<>>, passed |-> FALSE]
<1>1. /\ mutant \in Mutants /\ mapping = MappingOf(mutant) /\ Width \in Nat
      /\ coverage \in Seq(Rows) /\ truth \in Seq(Tests)
  BY WidthNat DEF IInv, TypeInv, MapInv, RejectRequest
<1>2. mutant' = mutant /\ mapping' = mapping /\ coverage' = coverage /\ Width' = Width
  BY DEF RejectRequest, static, Width
<1>3. test \in Tests /\ test.target = "NO_MATCH" /\ test.rules = <<>> /\ test.passed = FALSE
  BY DEF Tests, MatchResults
<1>4. /\ truth' \in Seq(Tests) /\ Len(truth') = Len(truth) + 1
      /\ truth'[Len(truth')] = test
      /\ \A i \in 1 .. Len(truth) : truth'[i] = truth[i]
  <2>1. truth' = Append(truth, test)
    BY DEF RejectRequest
  <2> HIDE DEF test
  <2> QED
    BY <1>1, <1>3, <2>1
<1> HIDE DEF test
<1>5. TypeInv'
  <2>1. Rows' = Rows
    BY <1>2 DEF Rows
  <2> QED
    BY <1>2, <1>4, <2>1 DEF IInv, TypeInv, RejectRequest, PCs, static
<1>6. LenInv'
  BY <1>1, <1>2, <1>4 DEF IInv, TypeInv, LenInv, RejectRequest, static
<1>7. RulesInv' /\ MapInv' /\ ResultsInv' /\ CrashNeedsAmbiguity'
  BY <1>1, <1>2 DEF IInv, RulesInv, MapInv, ResultsInv, CrashNeedsAmbiguity, RejectRequest, evaluator
<1>8. RowInv'
  <2> SUFFICES ASSUME DistinctIds(mutant)'
               PROVE  \A t \in 1 .. Len(truth') : Tells(t)'
    BY DEF RowInv, RejectRequest
  <2>1. DistinctIds(mutant)
    BY <1>2 DEF DistinctIds
  <2>2. Len(coverage) = Len(truth) + 1 /\ Len(truth) \in Nat
    BY <1>1 DEF IInv, LenInv, RejectRequest
  <2>3. /\ coverage[Len(coverage)] = [j \in 1 .. Width |-> Occupier]
        /\ \A t \in 1 .. Len(truth) : Tells(t)
    BY <2>1 DEF IInv, RowInv, RejectRequest
  <2>4. ASSUME NEW t \in 1 .. Len(truth) PROVE Tells(t)'
    BY <1>2, <1>4, <2>3 DEF Tells
  <2>5. ASSUME NEW t \in 1 .. Len(truth'), t = Len(truth') PROVE Tells(t)'
    <3>1. ~ IsHit(Occupier)
      BY DEF IsHit, Occupier, TargetCoverage, RuleCoverage
    <3>2. /\ mutant.hasTarget => 1 \in 1 .. Width
          /\ \A i \in DOMAIN mutant.ids : ColumnOf(mutant, i) \in 1 .. Width
      BY <1>1, <2>1, ColumnsFit
    <3>3. coverage'[t] = [j \in 1 .. Width |-> Occupier] /\ truth'[t] = test
      BY <1>2, <1>4, <2>2, <2>3, <2>5
    <3>4. \A j \in 1 .. Width : ~ IsHit(coverage'[t][j])
      BY <3>1, <3>3
    <3>5. truth'[t].target # "MATCH" /\ DOMAIN truth'[t].rules = {}
      BY <1>3, <3>3
    <3> QED
      BY <1>2, <3>2, <3>4, <3>5 DEF Tells
  <2>6. ASSUME NEW t \in 1 .. Len(truth') PROVE t \in 1 .. Len(truth) \/ t = Len(truth')
    BY <1>4, <2>2
  <2> QED
    BY <2>4, <2>5, <2>6
<1>9. D!IInv' /\ AnswerInv'
  BY CombiningIdle DEF IInv, RejectRequest
<1>10. PassInv'
  <2>1. /\ Len(truth) = Len(verdicts) /\ Len(truth) \in Nat
        /\ \A t \in 1 .. Len(verdicts) : truth[t].passed = verdicts[t]
    BY <1>1 DEF IInv, TypeInv, LenInv, PassInv, RejectRequest
  <2>2. verdicts' = verdicts /\ decision' # oracle'
    BY DEF IInv, TypeInv, RejectRequest, Decisions, Effects
  <2>3. ~ truth'[Len(truth')].passed
    BY <1>3, <1>4
  <2> QED
    BY <1>4, <2>1, <2>2, <2>3 DEF PassInv
<1> QED
  BY <1>5, <1>6, <1>7, <1>8, <1>9, <1>10 DEF IInv

(* What AddCoverage does to the matrix.                                    *)
LEMMA Recorded ==
  ASSUME coverage \in Seq(Rows), Len(coverage) > 0, Width \in Nat,
         NEW c \in Cells, NEW xPath, AddCoverage(c, xPath)
  PROVE  /\ coverage' \in Seq(Rows) /\ Len(coverage') = Len(coverage)
         /\ \A i \in 1 .. Len(coverage) : i # Len(coverage) => coverage'[i] = coverage[i]
         /\ \A j \in 1 .. Width : coverage'[Len(coverage)][j] =
              IF j = mapping[xPath] THEN c ELSE coverage[Len(coverage)][j]
<1> DEFINE k == mapping[xPath]
           r == [coverage[Len(coverage)] EXCEPT ![k] = c]
<1>1. coverage' = [coverage EXCEPT ![Len(coverage)] = r]
  BY DEF AddCoverage, Last
<1>2. coverage[Len(coverage)] \in Rows
  BY ElementOfSeq
<1> HIDE DEF k
<1>3. r \in Rows /\ \A j \in 1 .. Width : r[j] = IF j = k THEN c ELSE coverage[Len(coverage)][j]
  BY <1>2 DEF Rows
<1> HIDE DEF r
<1>4. /\ coverage' \in Seq(Rows) /\ Len(coverage') = Len(coverage) /\ coverage'[Len(coverage)] = r
      /\ \A i \in 1 .. Len(coverage) : i # Len(coverage) => coverage'[i] = coverage[i]
  BY <1>1, <1>3, LastElement
<1> QED
  BY <1>3, <1>4 DEF k

LEMMA EvaluatePolicyInv ==
  ASSUME IInv, NEW match \in MatchResults, EvaluatePolicy(match)
  PROVE  IInv'
<1> DEFINE ok == match # "MATCH" /\ oracle = "NotApplicable"
           test == [target |-> match, rules |-> <<>>, passed |-> ok]
           c == TargetCoverage(match)
<1>1. /\ mutant \in Mutants /\ mapping = MappingOf(mutant) /\ Width \in Nat
      /\ coverage \in Seq(Rows) /\ truth \in Seq(Tests) /\ Len(truth) \in Nat
      /\ Len(coverage) = Len(truth) + 1
  BY WidthNat DEF IInv, TypeInv, MapInv, LenInv, EvaluatePolicy
<1>2. mutant' = mutant /\ mapping' = mapping /\ Width' = Width
  BY DEF EvaluatePolicy, Width
<1>3. test \in Tests /\ test.target = match /\ test.rules = <<>> /\ test.passed = ok
  <2>1. ok \in BOOLEAN
    OBVIOUS
  <2> HIDE DEF ok
  <2> QED
    BY <2>1 DEF Tests
<1>4. /\ truth' \in Seq(Tests) /\ Len(truth') = Len(truth) + 1
      /\ truth'[Len(truth')] = test
      /\ \A i \in 1 .. Len(truth) : truth'[i] = truth[i]
  <2>1. truth' = Append(truth, test)
    BY DEF EvaluatePolicy
  <2> HIDE DEF test
  <2> QED
    BY <1>1, <1>3, <2>1
<1>5. /\ coverage' \in Seq(Rows) /\ Len(coverage') = Len(coverage)
      /\ \A i \in 1 .. Len(truth) : coverage'[i] = coverage[i]
      /\ \A j \in 1 .. Width : coverage'[Len(coverage)][j] =
           IF j = mapping[TargetXPath] THEN c ELSE coverage[Len(coverage)][j]
  <2>1. c \in Cells /\ AddCoverage(c, TargetXPath) /\ Len(coverage) > 0
    BY <1>1 DEF Cells, TargetCoverage, EvaluatePolicy
  <2> HIDE DEF c
  <2>2. /\ coverage' \in Seq(Rows) /\ Len(coverage') = Len(coverage)
        /\ \A i \in 1 .. Len(coverage) : i # Len(coverage) => coverage'[i] = coverage[i]
        /\ \A j \in 1 .. Width : coverage'[Len(coverage)][j] =
             IF j = mapping[TargetXPath] THEN c ELSE coverage[Len(coverage)][j]
    BY <1>1, <2>1, Recorded
  <2> QED
    BY <1>1, <2>2
<1> HIDE DEF test, c
<1>6. TypeInv'
  <2>1. Rows' = Rows
    BY <1>2 DEF Rows
  <2>2. pc' \in PCs /\ decision' \in Decisions \cup {"unparsable"}
    BY DEF EvaluatePolicy, IInv, TypeInv, PCs, Decisions
  <2> QED
    BY <1>2, <1>4, <1>5, <2>1, <2>2 DEF IInv, TypeInv, EvaluatePolicy
<1>7. LenInv'
  BY <1>1, <1>4, <1>5 DEF IInv, TypeInv, LenInv, EvaluatePolicy
<1>8. RulesInv'
  <2>1. Len(truth'[Len(truth')].rules) = 0
    BY <1>3, <1>4
  <2> QED
    BY <1>2, <2>1 DEF IInv, RulesInv, EvaluatePolicy, evaluator
<1>9. MapInv' /\ ResultsInv' /\ CrashNeedsAmbiguity'
  BY <1>1, <1>2 DEF MapInv, ResultsInv, CrashNeedsAmbiguity, EvaluatePolicy
<1>10. RowInv'
  <2> SUFFICES ASSUME DistinctIds(mutant)'
               PROVE  \A t \in 1 .. Len(truth') : Tells(t)'
    BY DEF RowInv, EvaluatePolicy
  <2>1. DistinctIds(mutant)
    BY <1>2 DEF DistinctIds
  <2>2. /\ coverage[Len(coverage)] = [j \in 1 .. Width |-> Occupier]
        /\ \A t \in 1 .. Len(truth) : Tells(t)
    BY <2>1 DEF IInv, RowInv, EvaluatePolicy
  <2>3. mutant.hasTarget
    <3>1. TargetXPath \in {Entries(mutant)[i] : i \in DOMAIN Entries(mutant)}
      BY <1>1 DEF EvaluatePolicy, CanAdd, MappingOf
    <3> QED
      BY <1>1, <3>1, EntriesTyped
  <2>4. mapping[TargetXPath] = 1
    <3>1. 1 \in DOMAIN Entries(mutant) /\ Entries(mutant)[1] = TargetXPath
      BY <1>1, <2>1, <2>3, ColumnsFit, EntriesTyped
    <3> QED
      BY <1>1, <2>1, <3>1, MappingFinds
  <2>5. /\ 1 \in 1 .. Width
        /\ \A i \in DOMAIN mutant.ids : ColumnOf(mutant, i) \in 1 .. Width /\ ColumnOf(mutant, i) # 1
    <3>1. DOMAIN mutant.ids = 1 .. Len(mutant.ids) /\ Len(mutant.ids) \in Nat
      BY <1>1, MutantsAssumption
    <3>2. \A i \in DOMAIN mutant.ids : ColumnOf(mutant, i) # 1
      BY <2>3, <3>1 DEF ColumnOf
    <3> QED
      BY <1>1, <2>1, <2>3, <3>2, ColumnsFit
  <2>6. ASSUME NEW t \in 1 .. Len(truth) PROVE Tells(t)'
    BY <1>2, <1>4, <1>5, <2>2, <2>6 DEF Tells
  <2>7. ASSUME NEW t \in 1 .. Len(truth'), t = Len(truth') PROVE Tells(t)'
    <3>1. ~ IsHit(Occupier) /\ (IsHit(c) <=> match = "MATCH")
      BY DEF IsHit, Occupier, TargetCoverage, RuleCoverage, c
    <3>2. t = Len(coverage) /\ truth'[t] = test
      BY <1>1, <1>4, <2>7
    <3>3. /\ coverage'[t][1] = c
          /\ \A j \in 1 .. Width : j # 1 => coverage'[t][j] = Occupier
      BY <1>5, <2>2, <2>4, <2>5, <3>2
    <3>4. /\ IsHit(coverage'[t][1]) <=> truth'[t].target = "MATCH"
          /\ \A i \in DOMAIN mutant.ids : ~ IsHit(coverage'[t][ColumnOf(mutant, i)])
          /\ DOMAIN truth'[t].rules = {}
      BY <1>3, <2>5, <3>1, <3>2, <3>3
    <3> QED
      BY <1>2, <3>4 DEF Tells
  <2>8. ASSUME NEW t \in 1 .. Len(truth') PROVE t \in 1 .. Len(truth) \/ t = Len(truth')
    BY <1>1, <1>4
  <2> QED
    BY <2>6, <2>7, <2>8
<1>11. D!IInv' /\ AnswerInv'
  BY CombiningIdle DEF IInv, EvaluatePolicy
<1>12. PassInv'
  <2>1. /\ Len(truth) = Len(verdicts)
        /\ \A t \in 1 .. Len(verdicts) : truth[t].passed = verdicts[t]
    BY <1>1 DEF IInv, LenInv, PassInv, EvaluatePolicy
  <2>2. verdicts' = verdicts /\ oracle' = oracle
    BY DEF EvaluatePolicy
  <2>3. truth'[Len(truth')].passed = ok
    BY <1>3, <1>4
  <2>4. pc' = "decided" => (ok <=> decision' = oracle')
    BY <2>2 DEF EvaluatePolicy
  <2> HIDE DEF ok
  <2> QED
    BY <1>1, <1>4, <2>1, <2>2, <2>3, <2>4 DEF PassInv
<1> QED
  BY <1>6, <1>7, <1>8, <1>9, <1>10, <1>11, <1>12 DEF IInv

(* A test of which one more rule is known.                                 *)
NoteRule(d) == truth' = [truth EXCEPT ![Last(truth)].rules = Append(@, d)]

LEMMA RuleNoted ==
  ASSUME truth \in Seq(Tests), Len(truth) > 0, NEW d \in Decisions, NoteRule(d)
  PROVE  /\ truth' \in Seq(Tests) /\ Len(truth') = Len(truth)
         /\ \A i \in 1 .. Len(truth) : i # Len(truth) => truth'[i] = truth[i]
         /\ truth'[Len(truth)].target = truth[Len(truth)].target
         /\ truth'[Len(truth)].passed = truth[Len(truth)].passed
         /\ truth[Len(truth)].rules \in Seq(Decisions)
         /\ truth'[Len(truth)].rules = Append(truth[Len(truth)].rules, d)
<1> DEFINE old == truth[Len(truth)]
           e == Append(old.rules, d)
           r == [old EXCEPT !.rules = e]
<1>1. truth' = [truth EXCEPT ![Len(truth)] = r]
  BY Zenon DEF Last, NoteRule
<1>2. old \in Tests
  BY ElementOfSeq
<1> HIDE DEF old
<1>3. old.rules \in Seq(Decisions) /\ e \in Seq(Decisions)
  BY <1>2 DEF Tests
<1> HIDE DEF e
<1>4. r \in Tests /\ r.target = old.target /\ r.passed = old.passed /\ r.rules = e
  BY <1>2, <1>3 DEF Tests
<1> HIDE DEF r
<1>5. /\ truth' \in Seq(Tests) /\ Len(truth') = Len(truth) /\ truth'[Len(truth)] = r
      /\ \A i \in 1 .. Len(truth) : i # Len(truth) => truth'[i] = truth[i]
  BY <1>1, <1>4, LastElement
<1> QED
  BY <1>3, <1>4, <1>5 DEF e, old

(* What a step of EvaluateRule consists of.                                *)
LEMMA EvaluateRuleParts ==
  ASSUME EvaluateRule
  PROVE  /\ pc = "combine" /\ pos < Len(rules) /\ pos' = pos + 1 /\ rules' = rules
         /\ CombineRule(TracedDecision(rules[pos + 1]))
         /\ AddCoverage(TracedCoverage(rules[pos + 1]), mutant.ids[pos + 1])
         /\ NoteRule(RuleDecision(rules[pos + 1]))
         /\ UNCHANGED <<mutant, pc, oracle, decision, verdicts, mapping, results, spectrum, suites>>
<1>1. /\ pc = "combine" /\ pos < Len(rules)
      /\ CombineRule(TracedDecision(rules[pos + 1]))
      /\ AddCoverage(TracedCoverage(rules[pos + 1]), mutant.ids[pos + 1])
      /\ NoteRule(RuleDecision(rules[pos + 1]))
      /\ UNCHANGED <<mutant, pc, oracle, decision, verdicts, mapping, results, spectrum, suites>>
  BY Zenon DEF EvaluateRule, NoteRule
<1>2. pos' = pos + 1 /\ rules' = rules
  BY <1>1, Zenon DEF CombineRule, PDP!ReturnRuleResult, PDP!SkipNotApplicable,
     PDP!CollectEffect, PDP!RecordError3, PDP!RecordError2, PDP!IgnoreError, PDP!Iterate
<1> QED
  BY <1>1, <1>2

LEMMA EvaluateRuleInv ==
  ASSUME IInv, EvaluateRule
  PROVE  IInv'
<1> DEFINE k == pos + 1
           n == Len(truth)
           d == RuleDecision(rules[k])
           c == TracedCoverage(rules[k])
<1>1. /\ mutant \in Mutants /\ mapping = MappingOf(mutant) /\ Width \in Nat
      /\ coverage \in Seq(Rows) /\ truth \in Seq(Tests)
      /\ n \in Nat /\ n > 0 /\ Len(coverage) = n
  BY EvaluateRuleParts, WidthNat DEF IInv, TypeInv, MapInv, LenInv
<1>2. mutant' = mutant /\ mapping' = mapping /\ Width' = Width
  BY EvaluateRuleParts DEF Width
<1>3. /\ pos \in Nat /\ k \in DOMAIN mutant.ids /\ DOMAIN mutant.ids = 1 .. Len(mutant.ids)
      /\ Len(mutant.ids) \in Nat /\ Len(rules) = Len(mutant.ids)
      /\ rules[k] \in RuleInstances /\ rules[k].v3
  <2>1. PICK meet \in [DOMAIN mutant.effects -> Meetings] : rules = RulesOf(mutant, meet)
    BY EvaluateRuleParts DEF IInv, RulesInv
  <2>2. pos \in 0 .. Len(rules)
    BY Zenon DEF IInv, D!IInv, D!TypeOK
  <2>3. /\ Len(rules) = Len(mutant.ids) /\ Len(mutant.ids) \in Nat
        /\ DOMAIN mutant.ids = 1 .. Len(mutant.ids)
        /\ \A i \in DOMAIN mutant.ids : rules[i] \in RuleInstances /\ rules[i].v3
    BY <1>1, <2>1, RulesTyped
  <2>4. pos \in Nat /\ k \in DOMAIN mutant.ids
    BY <2>2, <2>3, EvaluateRuleParts
  <2> QED
    BY <2>3, <2>4
<1>4. /\ TracedDecision(rules[k]) = d /\ d \in Decisions /\ c \in Cells
      /\ IsHit(c) <=> d \in Effects
  BY <1>3, AdviceIsFaithful
<1> HIDE DEF d, c
<1>5. /\ truth' \in Seq(Tests) /\ Len(truth') = n
      /\ \A i \in 1 .. n : i # n => truth'[i] = truth[i]
      /\ truth'[n].target = truth[n].target /\ truth'[n].passed = truth[n].passed
      /\ truth[n].rules \in Seq(Decisions) /\ truth'[n].rules = Append(truth[n].rules, d)
  BY <1>1, <1>4, EvaluateRuleParts, RuleNoted DEF d
<1>6. /\ coverage' \in Seq(Rows) /\ Len(coverage') = n
      /\ \A i \in 1 .. n : i # n => coverage'[i] = coverage[i]
      /\ \A j \in 1 .. Width :
           coverage'[n][j] = IF j = mapping[mutant.ids[k]] THEN c ELSE coverage[n][j]
  <2>1. AddCoverage(c, mutant.ids[k])
    BY EvaluateRuleParts DEF c
  <2>2. /\ coverage' \in Seq(Rows) /\ Len(coverage') = Len(coverage)
        /\ \A i \in 1 .. Len(coverage) : i # Len(coverage) => coverage'[i] = coverage[i]
        /\ \A j \in 1 .. Width : coverage'[Len(coverage)][j] =
             IF j = mapping[mutant.ids[k]] THEN c ELSE coverage[Len(coverage)][j]
    BY <1>1, <1>4, <2>1, Recorded
  <2> QED
    BY <1>1, <2>2
<1>7. Len(truth[n].rules) = pos
  BY EvaluateRuleParts DEF IInv, RulesInv
<1>8. TypeInv'
  <2>1. Rows' = Rows
    BY <1>2 DEF Rows
  <2> QED
    BY <1>2, <1>5, <1>6, <2>1, EvaluateRuleParts DEF IInv, TypeInv
<1>9. LenInv'
  BY <1>1, <1>5, <1>6, EvaluateRuleParts DEF IInv, LenInv
<1>10. RulesInv'
  <2>1. Len(truth'[Len(truth')].rules) = pos'
    BY <1>1, <1>5, <1>7, EvaluateRuleParts
  <2> QED
    BY <1>2, <2>1, EvaluateRuleParts DEF IInv, RulesInv
<1>11. MapInv' /\ ResultsInv' /\ CrashNeedsAmbiguity'
  BY <1>1, <1>2, EvaluateRuleParts DEF MapInv, ResultsInv, CrashNeedsAmbiguity
<1>12. RowInv'
  <2> SUFFICES ASSUME DistinctIds(mutant)'
               PROVE  \A t \in 1 .. Len(truth') : Tells(t)'
    BY EvaluateRuleParts DEF RowInv
  <2>1. DistinctIds(mutant) /\ \A t \in 1 .. n : Tells(t)
    BY <1>2, Zenon DEF DistinctIds, IInv, RowInv
  <2>2. mapping[mutant.ids[k]] = ColumnOf(mutant, k)
    <3>1. /\ ColumnOf(mutant, k) \in DOMAIN Entries(mutant)
          /\ Entries(mutant)[ColumnOf(mutant, k)] = mutant.ids[k]
      BY <1>1, <1>3, EntriesTyped
    <3> QED
      BY <1>1, <2>1, <3>1, MappingFinds
  <2>3. /\ mutant.hasTarget => 1 \in 1 .. Width /\ ColumnOf(mutant, k) # 1
        /\ \A i \in DOMAIN mutant.ids : ColumnOf(mutant, i) \in 1 .. Width
        /\ \A i \in DOMAIN mutant.ids : ColumnOf(mutant, i) = ColumnOf(mutant, k) => i = k
    <3>1. /\ mutant.hasTarget => ColumnOf(mutant, k) # 1
          /\ \A i \in DOMAIN mutant.ids : ColumnOf(mutant, i) = ColumnOf(mutant, k) => i = k
      BY <1>3 DEF ColumnOf
    <3> QED
      BY <1>1, <2>1, <3>1, ColumnsFit
  <2>4. ASSUME NEW t \in 1 .. n, t # n PROVE Tells(t)'
    BY <1>2, <1>5, <1>6, <2>1, <2>4 DEF Tells
  <2>5. ASSUME NEW t \in 1 .. n, t = n PROVE Tells(t)'
    <3>1. mutant.hasTarget => (IsHit(coverage'[t][1]) <=> truth'[t].target = "MATCH")
      BY <1>5, <1>6, <2>1, <2>2, <2>3, <2>5 DEF Tells
    <3>2. ASSUME NEW i \in DOMAIN mutant.ids, i = k
          PROVE  IsHit(coverage'[t][ColumnOf(mutant, i)]) <=>
                   (i \in DOMAIN truth'[t].rules /\ truth'[t].rules[i] \in Effects)
      <4>1. coverage'[t][ColumnOf(mutant, i)] = c
        BY <1>6, <2>2, <2>3, <2>5, <3>2
      <4>2. i \in DOMAIN truth'[t].rules /\ truth'[t].rules[i] = d
        BY <1>3, <1>4, <1>5, <1>7, <2>5, <3>2
      <4> QED
        BY <1>4, <4>1, <4>2
    <3>3. ASSUME NEW i \in DOMAIN mutant.ids, i # k
          PROVE  IsHit(coverage'[t][ColumnOf(mutant, i)]) <=>
                   (i \in DOMAIN truth'[t].rules /\ truth'[t].rules[i] \in Effects)
      <4>1. coverage'[t][ColumnOf(mutant, i)] = coverage[t][ColumnOf(mutant, i)]
        BY <1>6, <2>2, <2>3, <2>5, <3>3
      <4>2. /\ i \in DOMAIN truth'[t].rules <=> i \in DOMAIN truth[t].rules
            /\ i \in DOMAIN truth[t].rules => truth'[t].rules[i] = truth[t].rules[i]
        BY <1>3, <1>4, <1>5, <1>7, <2>5, <3>3
      <4> QED
        BY <2>1, <4>1, <4>2 DEF Tells
    <3> QED
      BY <1>2, <3>1, <3>2, <3>3 DEF Tells
  <2> QED
    BY <1>5, <2>4, <2>5
<1>13. D!IInv' /\ AnswerInv'
  BY <1>4, EvaluateRuleParts, CombiningStep DEF IInv
<1>14. PassInv'
  <2>1. pc' = "combine" /\ verdicts' = verdicts
    BY EvaluateRuleParts
  <2>2. \A t \in 1 .. n : truth'[t].passed = truth[t].passed
    BY <1>5
  <2>3. /\ n = Len(verdicts) + 1 /\ Len(verdicts) \in Nat
        /\ \A t \in 1 .. Len(verdicts) : truth[t].passed = verdicts[t]
    BY <1>1, EvaluateRuleParts DEF IInv, LenInv, TypeInv, PassInv
  <2>4. \A t \in 1 .. Len(verdicts) : truth'[t].passed = verdicts[t]
    BY <2>2, <2>3
  <2> QED
    BY <2>1, <2>4 DEF PassInv
<1> QED
  BY <1>8, <1>9, <1>10, <1>11, <1>12, <1>13, <1>14 DEF IInv

LEMMA FinishCombiningInv ==
  ASSUME IInv, FinishCombining
  PROVE  IInv'
<1>1. /\ UNCHANGED <<mutant, pc, oracle, decision, verdicts, static, spectrum, suites, truth>>
      /\ pc = "combine" /\ PDP!EndOfRules /\ pos' = pos /\ rules' = rules
  BY Zenon DEF FinishCombining, PDP!EndOfRules
<1>2. Width' = Width /\ coverage' \in Seq(Rows') /\ truth' \in Seq(Tests) /\ RowInv'
  BY <1>1, Frame DEF static
<1>3. TypeInv' /\ LenInv' /\ PassInv'
  BY <1>1, <1>2 DEF IInv, TypeInv, LenInv, PassInv, static
<1>4. MapInv' /\ RulesInv' /\ ResultsInv' /\ CrashNeedsAmbiguity'
  BY <1>1 DEF IInv, MapInv, RulesInv, ResultsInv, CrashNeedsAmbiguity, static
<1>5. D!IInv' /\ AnswerInv'
  BY <1>1, CombiningStep DEF IInv
<1> QED
  BY <1>2, <1>3, <1>4, <1>5 DEF IInv

LEMMA ReturnDecisionInv ==
  ASSUME IInv, ReturnDecision
  PROVE  IInv'
<1> DEFINE n  == Len(truth)
           ok == result.decision = oracle
           r  == [truth[n] EXCEPT !.passed = ok]
<1>1. /\ UNCHANGED <<evaluator, mutant, oracle, verdicts, static, spectrum, suites>>
      /\ pc = "combine" /\ pc' = "decided" /\ result # PDP!NoResult
      /\ decision' = result.decision /\ truth' = [truth EXCEPT ![n] = r]
  BY Zenon DEF ReturnDecision, Last
<1>2. /\ mutant \in Mutants /\ coverage \in Seq(Rows) /\ truth \in Seq(Tests)
      /\ n \in Nat /\ n > 0 /\ Len(coverage) = n /\ n = Len(verdicts) + 1
      /\ Len(verdicts) \in Nat
  BY <1>1 DEF IInv, TypeInv, LenInv
<1>3. /\ truth' \in Seq(Tests) /\ Len(truth') = n
      /\ \A i \in 1 .. n : i # n => truth'[i] = truth[i]
      /\ truth'[n].target = truth[n].target /\ truth'[n].rules = truth[n].rules
      /\ truth'[n].passed = ok
  <2>1. truth[n] \in Tests /\ ok \in BOOLEAN
    BY <1>2, ElementOfSeq
  <2> HIDE DEF ok
  <2>2. /\ r \in Tests /\ r.target = truth[n].target /\ r.rules = truth[n].rules
        /\ r.passed = ok
    BY <2>1 DEF Tests
  <2> HIDE DEF r, n
  <2>3. /\ truth' \in Seq(Tests) /\ Len(truth') = n /\ truth'[n] = r
        /\ \A i \in 1 .. n : i # n => truth'[i] = truth[i]
    BY <1>1, <1>2, <2>2, LastElement DEF n
  <2> QED
    BY <2>2, <2>3
<1>4. decision' \in Decisions
  <2>1. D!NoResult = PDP!NoResult /\ D!Decisions = Decisions
    BY Zenon DEF D!NoResult, D!Pending, PDP!NoResult, PDP!Pending, D!Decisions, Decisions,
       D!Effects, Effects
  <2>2. result = D!NoResult \/ result \in [decision    : D!Decisions,
                                           status      : 0 .. pos,
                                           obligations : SUBSET (1 .. pos)]
    BY Zenon DEF IInv, D!IInv, D!TypeOK
  <2> QED
    BY <1>1, <2>1, <2>2
<1>5. Width' = Width /\ Rows' = Rows
  BY <1>1 DEF static, Width, Rows
<1> HIDE DEF r
<1>6. TypeInv' /\ LenInv'
  BY <1>1, <1>2, <1>3, <1>4, <1>5 DEF IInv, TypeInv, LenInv, static, PCs
<1>7. MapInv' /\ RulesInv' /\ ResultsInv' /\ CrashNeedsAmbiguity'
  BY <1>1 DEF IInv, MapInv, RulesInv, ResultsInv, CrashNeedsAmbiguity, static, evaluator
<1>8. RowInv'
  <2>1. ASSUME NEW t \in 1 .. n PROVE Tells(t)' <=> Tells(t)
    <3>1. truth'[t].target = truth[t].target /\ truth'[t].rules = truth[t].rules
      BY <1>3
    <3>2. mutant' = mutant /\ coverage' = coverage
      BY <1>1 DEF static
    <3> QED
      BY <3>1, <3>2, Zenon DEF Tells
  <2> QED
    BY <1>1, <1>3, <2>1 DEF IInv, RowInv, DistinctIds
<1>9. PassInv'
  <2>1. \A t \in 1 .. Len(verdicts) : truth[t].passed = verdicts[t]
    BY DEF IInv, PassInv
  <2>2. \A t \in 1 .. Len(verdicts) : truth'[t] = truth[t]
    BY <1>2, <1>3
  <2>3. truth'[Len(truth')].passed <=> decision' = oracle'
    BY <1>1, <1>3
  <2> QED
    BY <1>1, <2>1, <2>2, <2>3 DEF PassInv
<1>10. D!IInv' /\ AnswerInv'
  BY <1>1, CombiningIdle DEF IInv
<1> QED
  BY <1>6, <1>7, <1>8, <1>9, <1>10 DEF IInv

LEMMA CrashInv ==
  ASSUME IInv, Crash
  PROVE  IInv'
<1>1. /\ UNCHANGED <<evaluator, mutant, oracle, decision, verdicts, static, spectrum, suites, truth>>
      /\ pc \in {"request", "combine"} /\ pc' = "crashed"
  BY DEF Crash
<1>2. Width' = Width /\ coverage' \in Seq(Rows') /\ truth' \in Seq(Tests) /\ RowInv'
  BY <1>1, Frame DEF static
<1>3. TypeInv' /\ LenInv' /\ PassInv'
  BY <1>1, <1>2 DEF IInv, TypeInv, LenInv, PassInv, static, PCs
<1>4. MapInv' /\ RulesInv' /\ ResultsInv'
  BY <1>1 DEF IInv, MapInv, RulesInv, ResultsInv, static, evaluator
<1>5. CrashNeedsAmbiguity'
  <2> SUFFICES ASSUME mutant.hasTarget, DistinctIds(mutant) PROVE FALSE
    BY <1>1 DEF CrashNeedsAmbiguity, DistinctIds
  <2>1. mutant \in Mutants /\ mapping = MappingOf(mutant)
    BY <1>1 DEF IInv, TypeInv, MapInv
  <2>2. \A x, i : i \in DOMAIN Entries(mutant) /\ Entries(mutant)[i] = x => CanAdd(x)
    <3> SUFFICES ASSUME NEW i \in DOMAIN Entries(mutant) PROVE CanAdd(Entries(mutant)[i])
      OBVIOUS
    <3>1. mapping[Entries(mutant)[i]] = i /\ Entries(mutant)[i] \in DOMAIN mapping
      BY <2>1, MappingFinds
    <3>2. i <= Width
      BY <2>1, EntriesTyped, ColumnsFit
    <3> QED
      BY <3>1, <3>2 DEF CanAdd
  <2>3. CanAdd(TargetXPath)
    <3>1. 1 \in DOMAIN Entries(mutant) /\ Entries(mutant)[1] = TargetXPath
      BY <2>1, ColumnsFit, EntriesTyped
    <3> QED
      BY <2>2, <3>1
  <2>4. pc = "combine" /\ pos < Len(rules) /\ ~ CanAdd(mutant.ids[pos + 1])
    BY <2>3 DEF Crash
  <2>5. PICK meet \in [DOMAIN mutant.effects -> Meetings] : rules = RulesOf(mutant, meet)
    BY <2>4 DEF IInv, RulesInv
  <2>6. pos \in 0 .. Len(rules)
    BY Zenon DEF IInv, D!IInv, D!TypeOK
  <2>7. /\ Len(rules) = Len(mutant.ids) /\ Len(mutant.ids) \in Nat
        /\ DOMAIN mutant.ids = 1 .. Len(mutant.ids)
    BY <2>1, <2>5, RulesTyped
  <2>8. pos + 1 \in DOMAIN mutant.ids
    BY <2>4, <2>6, <2>7
  <2>9. /\ ColumnOf(mutant, pos + 1) \in DOMAIN Entries(mutant)
        /\ Entries(mutant)[ColumnOf(mutant, pos + 1)] = mutant.ids[pos + 1]
    BY <2>1, <2>8, EntriesTyped
  <2> QED
    BY <2>2, <2>4, <2>9
<1>6. D!IInv' /\ AnswerInv'
  BY <1>1, CombiningIdle DEF IInv
<1> QED
  BY <1>2, <1>3, <1>4, <1>5, <1>6 DEF IInv

LEMMA FinishTestInv ==
  ASSUME IInv, FinishTest
  PROVE  IInv'
<1>1. Width' = Width /\ coverage' \in Seq(Rows') /\ truth' \in Seq(Tests) /\ RowInv'
  BY Frame DEF FinishTest, static
<1>2. verdicts' \in Seq(BOOLEAN) /\ Len(verdicts') = Len(verdicts) + 1
  <2>1. verdicts \in Seq(BOOLEAN) /\ verdicts' = Append(verdicts, decision = oracle)
    BY DEF IInv, TypeInv, FinishTest
  <2>2. (decision = oracle) \in BOOLEAN
    BY Zenon
  <2> DEFINE v == decision = oracle
  <2> HIDE DEF v
  <2> QED
    BY <2>1, <2>2, AppendProperties
<1>3. TypeInv'
  BY <1>1, <1>2 DEF IInv, TypeInv, FinishTest, static, PCs
<1>4. LenInv'
  <2>1. Len(verdicts) \in Nat /\ Len(coverage) \in Nat
    BY DEF IInv, TypeInv
  <2> QED
    BY <1>2, <2>1 DEF IInv, LenInv, FinishTest, static
<1>5. MapInv' /\ RulesInv' /\ ResultsInv' /\ CrashNeedsAmbiguity'
  BY DEF IInv, MapInv, RulesInv, ResultsInv, CrashNeedsAmbiguity, FinishTest, static
<1>6. D!IInv' /\ AnswerInv'
  BY CombiningIdle DEF IInv, FinishTest
<1>7. PassInv'
  <2> DEFINE v == decision = oracle
  <2>1. /\ verdicts \in Seq(BOOLEAN) /\ truth \in Seq(Tests) /\ Len(truth) = Len(verdicts) + 1
        /\ verdicts' = Append(verdicts, v) /\ truth' = truth /\ pc' = "test"
        /\ \A t \in 1 .. Len(verdicts) : truth[t].passed = verdicts[t]
    BY DEF IInv, TypeInv, LenInv, PassInv, FinishTest
  <2>2. truth[Len(truth)].passed = v
    <3>1. truth[Len(truth)] \in Tests
      BY <2>1, ElementOfSeq
    <3>2. truth[Len(truth)].passed \in BOOLEAN /\ v \in BOOLEAN
      BY <3>1 DEF Tests
    <3>3. truth[Len(truth)].passed <=> v
      BY DEF IInv, PassInv, FinishTest
    <3> QED
      BY <3>2, <3>3
  <2> HIDE DEF v
  <2> QED
    BY <2>1, <2>2 DEF PassInv
<1> QED
  BY <1>1, <1>3, <1>4, <1>5, <1>6, <1>7 DEF IInv

LEMMA FinishSuiteInv ==
  ASSUME IInv, FinishSuite
  PROVE  IInv'
<1>1. Width' = Width /\ coverage' \in Seq(Rows') /\ truth' \in Seq(Tests) /\ RowInv'
  BY Frame DEF FinishSuite
<1>2. TypeInv' /\ LenInv' /\ PassInv'
  BY <1>1 DEF IInv, TypeInv, LenInv, PassInv, FinishSuite, PCs
<1>3. MapInv' /\ RulesInv' /\ ResultsInv' /\ CrashNeedsAmbiguity'
  BY DEF IInv, MapInv, RulesInv, ResultsInv, CrashNeedsAmbiguity, FinishSuite
<1>4. D!IInv' /\ AnswerInv'
  BY CombiningIdle DEF IInv, FinishSuite
<1> QED
  BY <1>1, <1>2, <1>3, <1>4 DEF IInv

LEMMA SkipCorrectMutantInv ==
  ASSUME IInv, SkipCorrectMutant
  PROVE  IInv'
<1>1. Width' = Width /\ coverage' \in Seq(Rows') /\ truth' \in Seq(Tests) /\ RowInv'
  BY Frame DEF SkipCorrectMutant, static
<1>2. TypeInv' /\ LenInv' /\ PassInv'
  BY <1>1 DEF IInv, TypeInv, LenInv, PassInv, SkipCorrectMutant, static, PCs
<1>3. MapInv' /\ RulesInv' /\ ResultsInv' /\ CrashNeedsAmbiguity'
  BY DEF IInv, MapInv, RulesInv, ResultsInv, CrashNeedsAmbiguity, SkipCorrectMutant, static
<1>4. D!IInv' /\ AnswerInv'
  BY CombiningIdle DEF IInv, SkipCorrectMutant
<1> QED
  BY <1>1, <1>2, <1>3, <1>4 DEF IInv

LEMMA LocalizeInv ==
  ASSUME IInv, Localize
  PROVE  IInv'
<1>1. Width' = Width /\ coverage' \in Seq(Rows') /\ truth' \in Seq(Tests) /\ RowInv'
  BY Frame DEF Localize, static
<1>2. TypeInv' /\ LenInv' /\ PassInv'
  BY <1>1 DEF IInv, TypeInv, LenInv, PassInv, Localize, static, PCs
<1>3. MapInv' /\ RulesInv' /\ CrashNeedsAmbiguity'
  BY DEF IInv, MapInv, RulesInv, CrashNeedsAmbiguity, Localize, static
<1>4. ResultsInv'
  BY Zenon DEF IInv, ResultsInv, Localize, static
<1>5. D!IInv' /\ AnswerInv'
  BY CombiningIdle DEF IInv, Localize
<1> QED
  BY <1>1, <1>2, <1>3, <1>4, <1>5 DEF IInv

LEMMA NextMutantInv ==
  ASSUME IInv, NextMutant
  PROVE  IInv'
<1>1. Width' = Width /\ coverage' \in Seq(Rows') /\ truth' \in Seq(Tests) /\ RowInv'
  BY Frame DEF NextMutant, static
<1>2. TypeInv' /\ LenInv' /\ PassInv'
  BY <1>1 DEF IInv, TypeInv, LenInv, PassInv, NextMutant, static, PCs
<1>3. MapInv' /\ RulesInv' /\ ResultsInv' /\ CrashNeedsAmbiguity'
  BY DEF IInv, MapInv, RulesInv, ResultsInv, CrashNeedsAmbiguity, NextMutant, static
<1>4. D!IInv' /\ AnswerInv'
  BY CombiningIdle DEF IInv, NextMutant
<1> QED
  BY <1>1, <1>2, <1>3, <1>4 DEF IInv

LEMMA StutterInv ==
  ASSUME IInv, UNCHANGED vars
  PROVE  IInv'
<1>1. /\ UNCHANGED <<mutant, pc, oracle, decision, verdicts, static, spectrum, suites, truth>>
      /\ UNCHANGED evaluator /\ rules' = rules /\ pos' = pos
  BY Zenon DEF vars, evaluator
<1>2. Width' = Width /\ Rows' = Rows
  BY <1>1 DEF static, Width, Rows
<1>3. TypeInv' /\ LenInv' /\ MapInv' /\ RulesInv' /\ PassInv'
  BY <1>1, <1>2 DEF IInv, TypeInv, LenInv, MapInv, RulesInv, PassInv, static
<1>4. ResultsInv' /\ CrashNeedsAmbiguity'
  BY <1>1 DEF IInv, ResultsInv, CrashNeedsAmbiguity, static
<1>5. RowInv'
  <2>1. \A t : Tells(t)' <=> Tells(t)
    BY <1>1, Zenon DEF Tells, static
  <2> QED
    BY <1>1, <1>2, <2>1 DEF IInv, RowInv, static
<1>6. D!IInv' /\ AnswerInv'
  BY <1>1, CombiningIdle DEF IInv
<1> QED
  BY <1>3, <1>4, <1>5, <1>6 DEF IInv

(* The inductive invariant holds in every reachable state.                 *)
THEOREM Invariance == Spec => []IInv
<1>1. IInv /\ [Next]_vars => IInv'
  BY StartSuiteInv, StartTestInv, RejectRequestInv, EvaluatePolicyInv, EvaluateRuleInv,
     FinishCombiningInv, ReturnDecisionInv, CrashInv, FinishTestInv, FinishSuiteInv,
     SkipCorrectMutantInv, LocalizeInv, NextMutantInv, StutterInv DEF Next
<1> QED
  BY InitInv, <1>1, PTL DEF Spec

(* The rows of the matrix have one cell per column, and no suite more      *)
(* tests than rows (PolicyCoverageFactory.coverageMatrix).                 *)
THEOREM TypeCorrect == Spec => []TypeOK
<1>1. IInv => TypeOK
  <2> SUFFICES ASSUME IInv PROVE TypeOK
    OBVIOUS
  <2>1. Len(coverage) \in Nat /\ Len(verdicts) \in Nat
    BY DEF IInv, TypeInv
  <2>2. ASSUME NEW i \in DOMAIN coverage PROVE DOMAIN coverage[i] = 1 .. Width
    <3>1. coverage[i] \in Rows
      BY <2>2 DEF IInv, TypeInv
    <3> QED
      BY <3>1 DEF Rows
  <2> QED
    BY <2>1, <2>2, BoundsAssumption DEF IInv, TypeInv, LenInv, PCs, TypeOK
<1> QED
  BY <1>1, Invariance, PTL

(* The localizer's matrix, and which tests it takes for failed, are those  *)
(* of the suite just run, if no rule identifier is used twice              *)
(* (FaultLocalizationExperiment, SpectrumBasedFaultLocalizer).             *)
THEOREM SpectrumIsFaithful == Spec => []SpectrumTellsTruth
<1>1. IInv => SpectrumTellsTruth
  <2> SUFFICES ASSUME IInv, pc = "localized", DistinctIds(mutant)
               PROVE  /\ DOMAIN spectrum.hits = DOMAIN truth
                      /\ DOMAIN spectrum.failed = DOMAIN truth
                      /\ \A t \in DOMAIN truth :
                           /\ spectrum.failed[t] = ~ truth[t].passed
                           /\ mutant.hasTarget => spectrum.hits[t][1] = (truth[t].target = "MATCH")
                           /\ \A i \in DOMAIN mutant.ids :
                                spectrum.hits[t][Column(i)] =
                                  (i \in DOMAIN truth[t].rules /\ truth[t].rules[i] \in Effects)
    BY DEF SpectrumTellsTruth
  <2>1. /\ mutant \in Mutants /\ mapping = MappingOf(mutant) /\ results = verdicts
        /\ coverage \in Seq(Rows) /\ truth \in Seq(Tests) /\ verdicts \in Seq(BOOLEAN)
        /\ Len(coverage) = Len(truth) /\ Len(truth) = Len(verdicts)
    BY DEF IInv, TypeInv, MapInv, LenInv, ResultsInv
  <2>2. DOMAIN coverage = DOMAIN truth /\ DOMAIN results = DOMAIN truth
        /\ DOMAIN truth = 1 .. Len(truth)
    BY <2>1
  <2>3. spectrum = [hits   |-> [i \in DOMAIN coverage |->
                                  [j \in DOMAIN coverage[i] |-> IsHit(coverage[i][j])]],
                    failed |-> [i \in DOMAIN results |-> ~ results[i]]]
    BY Zenon DEF IInv, ResultsInv
  <2>4. /\ DOMAIN spectrum.hits = DOMAIN coverage /\ DOMAIN spectrum.failed = DOMAIN results
        /\ \A t \in DOMAIN coverage :
             spectrum.hits[t] = [j \in DOMAIN coverage[t] |-> IsHit(coverage[t][j])]
    BY <2>3, Zenon
  <2>5. ASSUME NEW t \in DOMAIN truth, NEW j \in 1 .. Width
        PROVE  spectrum.hits[t][j] = IsHit(coverage[t][j])
    <3>1. coverage[t] \in Rows
      BY <2>1, <2>2, <2>5, ElementOfSeq
    <3>2. DOMAIN coverage[t] = 1 .. Width
      BY <3>1 DEF Rows
    <3> QED
      BY <2>2, <2>4, <3>2, Zenon
  <2>6. \A t \in DOMAIN truth : Tells(t)
    BY <2>2 DEF IInv, RowInv
  <2>7. /\ mutant.hasTarget => 1 \in 1 .. Width
        /\ \A i \in DOMAIN mutant.ids : ColumnOf(mutant, i) \in 1 .. Width
    BY <2>1, ColumnsFit
  <2>8. \A i : Column(i) = ColumnOf(mutant, i)
    BY Zenon DEF Column, ColumnOf
  <2>9. ASSUME NEW t \in DOMAIN truth
        PROVE  mutant.hasTarget => spectrum.hits[t][1] = (truth[t].target = "MATCH")
    <3> DEFINE p == IsHit(coverage[t][1])
               q == truth[t].target = "MATCH"
    <3>1. p \in BOOLEAN /\ q \in BOOLEAN
      BY DEF IsHit
    <3>2. mutant.hasTarget => spectrum.hits[t][1] = p /\ (p <=> q)
      BY <2>5, <2>6, <2>7, <2>9, Zenon DEF Tells
    <3> HIDE DEF p, q
    <3>3. mutant.hasTarget => spectrum.hits[t][1] = q
      BY <3>1, <3>2
    <3> QED
      BY <3>3, Zenon DEF q
  <2>10. ASSUME NEW t \in DOMAIN truth, NEW i \in DOMAIN mutant.ids
         PROVE  spectrum.hits[t][Column(i)] =
                  (i \in DOMAIN truth[t].rules /\ truth[t].rules[i] \in Effects)
    <3> DEFINE p == IsHit(coverage[t][ColumnOf(mutant, i)])
               q == i \in DOMAIN truth[t].rules /\ truth[t].rules[i] \in Effects
    <3>1. p \in BOOLEAN /\ q \in BOOLEAN
      BY DEF IsHit
    <3>2. spectrum.hits[t][ColumnOf(mutant, i)] = p /\ (p <=> q)
      BY <2>5, <2>6, <2>7, <2>10, Zenon DEF Tells
    <3> HIDE DEF p, q
    <3>3. spectrum.hits[t][Column(i)] = q
      BY <2>8, <3>1, <3>2
    <3> QED
      BY <3>3, Zenon DEF q
  <2>11. ASSUME NEW t \in DOMAIN truth
         PROVE  spectrum.failed[t] = ~ truth[t].passed
    <3>1. truth[t].passed = results[t]
      BY <2>1, <2>2 DEF IInv, PassInv
    <3>2. spectrum.failed[t] = ~ results[t]
      BY <2>2, <2>3, Zenon
    <3> QED
      BY <3>1, <3>2, Zenon
  <2> QED
    BY <2>2, <2>4, <2>9, <2>10, <2>11, Zenon
<1> QED
  BY <1>1, Invariance, PTL

(* The advice that replaces Rule.evaluate decides as it does, and the      *)
(* traced policy gives a decision the untraced one may give                *)
(* (SematicPolicyTracer).                                                  *)
THEOREM TracingChangesNothing == Spec => []TracingIsTransparent
<1>1. IInv => TracingIsTransparent
  <2> SUFFICES ASSUME IInv PROVE TracingIsTransparent
    OBVIOUS
  <2>1. ASSUME pc \in {"combine", "decided"}, NEW i \in DOMAIN rules
        PROVE  TracedDecision(rules[i]) = RuleDecision(rules[i])
    <3>1. mutant \in Mutants
      BY DEF IInv, TypeInv
    <3>2. PICK meet \in [DOMAIN mutant.effects -> Meetings] : rules = RulesOf(mutant, meet)
      BY <2>1 DEF IInv, RulesInv
    <3>3. rules \in Seq(RuleInstances) /\ Len(rules) = Len(mutant.ids)
      BY <3>1, <3>2, RulesTyped
    <3>4. i \in DOMAIN mutant.ids
      BY <2>1, <3>1, <3>2, <3>3, RulesTyped
    <3>5. rules[i] \in RuleInstances /\ rules[i].v3
      BY <3>1, <3>2, <3>4, RulesTyped
    <3> QED
      BY <3>5, AdviceIsFaithful
  <2> QED
    BY <2>1, Zenon DEF IInv, AnswerInv, TracingIsTransparent
<1> QED
  BY <1>1, Invariance, PTL

(* Recording never kills the experiment on a policy with a target and      *)
(* identifiers of its own for its rules (PolicyCoverageFactory.addCoverage).*)
THEOREM RecordingIsSafe == Spec => []CrashNeedsAmbiguity
<1>1. IInv => CrashNeedsAmbiguity
  BY DEF IInv
<1> QED
  BY <1>1, Invariance, PTL

(* A test writes to its own row only, whatever comes later in the suite    *)
(* (PolicyCoverageFactory.addCoverage).                                    *)
THEOREM RowsStayWritten == Spec => PastRowsFrozen
<1> DEFINE Frozen == coverage' # <<>> =>
                       \A i \in DOMAIN coverage : i < Len(coverage') => coverage'[i] = coverage[i]
<1>1. IInv /\ [Next]_vars => [Frozen]_vars
  <2> SUFFICES ASSUME IInv, Next PROVE Frozen
    OBVIOUS
  <2>1. /\ coverage \in Seq(Rows) /\ Len(coverage) \in Nat /\ DOMAIN coverage = 1 .. Len(coverage)
        /\ mutant \in Mutants /\ truth \in Seq(Tests)
    BY DEF IInv, TypeInv
  <2>2. ASSUME NEW c \in Cells, NEW xPath, AddCoverage(c, xPath), Len(coverage) > 0
        PROVE  Frozen
    <3>1. Width \in Nat
      BY WidthNat DEF IInv, TypeInv
    <3>2. /\ Len(coverage') = Len(coverage)
          /\ \A i \in 1 .. Len(coverage) : i # Len(coverage) => coverage'[i] = coverage[i]
      BY <2>1, <2>2, <3>1, Recorded
    <3> SUFFICES ASSUME NEW i \in DOMAIN coverage, i < Len(coverage')
                 PROVE  coverage'[i] = coverage[i]
      OBVIOUS
    <3>3. i \in 1 .. Len(coverage) /\ i < Len(coverage)
      BY <2>1, <3>2, Zenon
    <3>4. \A m, n \in Nat : m < n => m # n
      OBVIOUS
    <3>5. i # Len(coverage)
      BY <2>1, <3>3, <3>4
    <3> QED
      BY <3>2, <3>3, <3>5, Zenon
  <2>3. ASSUME NEW meet \in [DOMAIN mutant.effects -> Meetings], NEW o \in Oracles,
               StartTest(meet, o)
        PROVE  Frozen
    <3> DEFINE row == [i \in 1 .. Width |-> Occupier]
    <3>1. coverage' = Append(coverage, row)
      BY <2>3 DEF StartTest
    <3> HIDE DEF row
    <3> QED
      BY <2>1, <3>1
  <2>4. ASSUME NEW match \in MatchResults, EvaluatePolicy(match) PROVE Frozen
    <3>1. AddCoverage(TargetCoverage(match), TargetXPath) /\ TargetCoverage(match) \in Cells
      BY <2>4 DEF EvaluatePolicy, TargetCoverage, Cells
    <3>2. Len(coverage) > 0
      BY <2>1, <2>4 DEF EvaluatePolicy, IInv, LenInv, TypeInv
    <3> QED
      BY <2>2, <3>1, <3>2
  <2>5. ASSUME EvaluateRule PROVE Frozen
    <3> DEFINE c == TracedCoverage(rules[pos + 1])
    <3>1. AddCoverage(c, mutant.ids[pos + 1]) /\ pc = "combine" /\ pos < Len(rules)
      BY <2>5, EvaluateRuleParts
    <3>2. PICK meet \in [DOMAIN mutant.effects -> Meetings] : rules = RulesOf(mutant, meet)
      BY <3>1 DEF IInv, RulesInv
    <3>3. pos \in 0 .. Len(rules)
      BY Zenon DEF IInv, D!IInv, D!TypeOK
    <3>4. rules[pos + 1] \in RuleInstances /\ rules[pos + 1].v3
      BY <2>1, <3>1, <3>2, <3>3, RulesTyped
    <3>5. c \in Cells
      BY <3>4, AdviceIsFaithful
    <3>6. Len(coverage) > 0
      BY <2>1, <3>1 DEF IInv, LenInv, TypeInv
    <3> HIDE DEF c
    <3> QED
      BY <2>2, <3>1, <3>5, <3>6
  <2>6. ASSUME NEW m \in Mutants, StartSuite(m) PROVE Frozen
    BY <2>6 DEF StartSuite
  <2>7. ASSUME coverage' = coverage PROVE Frozen
    BY <2>7
  <2>8. RejectRequest \/ FinishCombining \/ ReturnDecision \/ Crash \/ FinishTest \/ FinishSuite
          \/ SkipCorrectMutant \/ Localize \/ NextMutant => coverage' = coverage
    BY Zenon DEF RejectRequest, FinishCombining, ReturnDecision, Crash, FinishTest, FinishSuite,
       SkipCorrectMutant, Localize, NextMutant, static
  <2> HIDE DEF Frozen
  <2> QED
    BY <2>3, <2>4, <2>5, <2>6, <2>7, <2>8 DEF Next
<1> QED
  BY <1>1, Invariance, PTL DEF PastRowsFrozen, Spec
=============================================================================

-------------------------- MODULE SemanticCoverage --------------------------
(***************************************************************************)
(* Collecting a program spectrum: FaultLocalizationExperiment runs a test  *)
(* suite on one mutant after another while the aspect SematicPolicyTracer  *)
(* writes, into the static fields of PolicyCoverageFactory, which elements *)
(* of the policy each test reached; SpectrumBasedFaultLocalizer reads them *)
(* back.  Nothing ties the parties but the order of their calls: the last  *)
(* row is the row of the running test, the i-th verdict is that of the     *)
(* i-th row, and an element owns the column its XPath is mapped to.        *)
(*                                                                         *)
(* The policy decision point is the loop of RuleCombining, one rule at a   *)
(* time.  The policies are single policies, not sets.                      *)
(***************************************************************************)
EXTENDS Xacml, Naturals, Sequences, FiniteSets

CONSTANTS
  Mutants,     (* policies: [alg, effects, ids, hasTarget]                 *)
  Meetings,    (* how a rule can meet a request: <<target, condition>>     *)
  Oracles,     (* expected decisions                                       *)
  MaxTests,    (* tests of a suite                                         *)
  MaxSuites    (* suites the experiment runs                               *)

VARIABLES
  alg, rules, pos, firstD, firstP, firstError, potential, atLeastOne, carried, result,
               (* the combine method that is running (RuleCombining)       *)
  mutant,      (* the policy under test                                    *)
  pc,          (* where the experiment is                                  *)
  oracle,      (* the running test's expected decision                     *)
  decision,    (* what the policy decided for the running test             *)
  verdicts,    (* the list runTests is building                            *)
  coverage,    (* PolicyCoverageFactory.coverageMatrix                     *)
  mapping,     (* PolicyCoverageFactory.mapping: XPath to column           *)
  results,     (* PolicyCoverageFactory.results                            *)
  spectrum,    (* the last SpectrumBasedFaultLocalizer: [hits, failed]     *)
  suites,      (* suites started                                           *)
  truth        (* what happened, test by test: the target's answer, the    *)
               (* decision of each rule evaluated and whether the policy   *)
               (* decided what the test expects                            *)

evaluator == <<alg, rules, pos, firstD, firstP, firstError, potential, atLeastOne, carried, result>>
static    == <<coverage, mapping, results>>
vars == <<evaluator, mutant, pc, oracle, decision, verdicts, static, spectrum, suites, truth>>

(* Every way the rules of a mutant can meet a request.                     *)
RulesOf(m, meet) == [i \in DOMAIN m.effects |->
                       [effect |-> m.effects[i], target |-> meet[i][1],
                        condition |-> meet[i][2], v3 |-> TRUE]]

PDP == INSTANCE RuleCombining
         WITH RuleLists <- UNION {{RulesOf(m, meet) : meet \in [DOMAIN m.effects -> Meetings]} :
                                    m \in Mutants}

(* XpathSolver.getEntryListRelativeXPath: the target of the policy, if it  *)
(* has one, and its rules in document order, each known by its identifier. *)
TargetXPath == "Target"
Entries(m)  == (IF m.hasTarget THEN <<TargetXPath>> ELSE <<>>) \o m.ids

ASSUME MutantsAssumption ==
  \A m \in Mutants : /\ m.alg \in PDP!Algorithms
                     /\ m.effects \in Seq(Effects)
                     /\ m.ids \in Seq(STRING) /\ Len(m.ids) = Len(m.effects)
                     /\ \A i \in DOMAIN m.ids : m.ids[i] # TargetXPath
                     /\ m.hasTarget \in BOOLEAN
ASSUME MeetingsAssumption ==
  Meetings \subseteq (MatchResults \cup {Absent}) \X {"TRUE", "FALSE", "ERROR", Absent}
ASSUME OraclesAssumption == Oracles \subseteq Decisions
ASSUME BoundsAssumption  == MaxTests \in Nat /\ MaxSuites \in Nat

Last(s) == Len(s)

-----------------------------------------------------------------------------
(* Faulty variant: columns counted from one where the row counts from zero.*)
MappingOfShifted(m) ==
  [x \in {Entries(m)[i] : i \in DOMAIN Entries(m)} |->
     1 + CHOOSE i \in DOMAIN Entries(m) :
           Entries(m)[i] = x /\ \A j \in DOMAIN Entries(m) : Entries(m)[j] = x => j <= i]

(* HashMap.put: an XPath that occurs twice keeps its last index.           *)
MappingOf(m) ==
  [x \in {Entries(m)[i] : i \in DOMAIN Entries(m)} |->
     CHOOSE i \in DOMAIN Entries(m) :
       Entries(m)[i] = x /\ \A j \in DOMAIN Entries(m) : Entries(m)[j] = x => j <= i]

Width == Cardinality(DOMAIN mapping)

TargetCoverage(match) == [kind |-> "target", value |-> match]
RuleCoverage(value)   == [kind |-> "rule", value |-> value]

(* new TargetCoverage(1), "only a position occupier".                      *)
Occupier == TargetCoverage("NO_MATCH")

(* addCoverage throws when the XPath has no column (unboxing null) or one  *)
(* beyond the end of the row.                                              *)
CanAdd(xPath) == xPath \in DOMAIN mapping /\ mapping[xPath] <= Width

(* Faulty variants: add for set; the first row for the last.               *)
AddCoverageAtEnd(c, xPath) == coverage' = [coverage EXCEPT ![Last(coverage)] = Append(@, c)]
AddCoverageFirst(c, xPath) == coverage' = [coverage EXCEPT ![1][mapping[xPath]] = c]

AddCoverage(c, xPath) == coverage' = [coverage EXCEPT ![Last(coverage)][mapping[xPath]] = c]

(* Faulty variant: a condition that fails is taken for one that is false.  *)
TracedDecisionLenient(rule) ==
  CASE rule.target = "NO_MATCH"      -> "NotApplicable"
    [] rule.target = "INDETERMINATE" -> Failed(rule)
    [] OTHER -> CASE rule.condition \in {Absent, "TRUE"}  -> rule.effect
                  [] rule.condition \in {"FALSE", "ERROR"} -> "NotApplicable"

(* The around advice that replaces Rule.evaluate: what it returns and what *)
(* it records.                                                             *)
TracedDecision(rule) ==
  CASE rule.target = "NO_MATCH"      -> "NotApplicable"
    [] rule.target = "INDETERMINATE" -> Failed(rule)
    [] OTHER -> CASE rule.condition = Absent  -> rule.effect
                  [] rule.condition = "ERROR" -> Failed(rule)
                  [] rule.condition = "TRUE"  -> rule.effect
                  [] rule.condition = "FALSE" -> "NotApplicable"

Intermediate(rule) ==
  CASE rule.target = "NO_MATCH"      -> <<"FALSE", "NOTEVALUATED">>
    [] rule.target = "INDETERMINATE" -> <<"ERROR", "NOTEVALUATED">>
    [] OTHER -> <<"TRUE", IF rule.condition = Absent THEN "EMPTY" ELSE rule.condition>>

(* RuleCoverage: the two intermediate results folded into one.             *)
RuleDecisionCoverage(t, c) ==
  IF t \in {"TRUE", "EMPTY"} /\ c \in {"TRUE", "EMPTY"} THEN "EFFECT"
  ELSE IF t = "FALSE" \/ c = "FALSE" THEN "NA"
  ELSE "INDETERMINATE"

TracedCoverage(rule) ==
  RuleCoverage(RuleDecisionCoverage(Intermediate(rule)[1], Intermediate(rule)[2]))

-----------------------------------------------------------------------------
NoSpectrum == [hits |-> <<>>, failed |-> <<>>]

Init == /\ mutant \in Mutants
        /\ alg = mutant.alg
        /\ rules = RulesOf(mutant, [i \in DOMAIN mutant.effects |-> CHOOSE x \in Meetings : TRUE])
        /\ PDP!Init
        /\ pc = "suite"
        /\ oracle = "Permit" /\ decision = "NotApplicable"
        /\ verdicts = <<>> /\ coverage = <<>> /\ mapping = <<>> /\ results = <<>>
        /\ spectrum = NoSpectrum
        /\ suites = 0 /\ truth = <<>>

(* runTests(mutant): the before advice initialises the matrix and the      *)
(* mapping, not the results.                                               *)
StartSuite(m) ==
  /\ pc = "suite" /\ suites < MaxSuites
  /\ mutant' = m
  /\ coverage' = <<>> /\ mapping' = MappingOf(m)
  /\ verdicts' = <<>> /\ truth' = <<>>
  /\ suites' = suites + 1
  /\ pc' = "test"
  /\ UNCHANGED <<evaluator, oracle, decision, results, spectrum>>

(* runTest(policy, request, oracle): the before advice opens a new row.    *)
(* meet is how each rule meets the request.                                *)
StartTest(meet, o) ==
  /\ pc = "test" /\ Len(coverage) < MaxTests
  /\ coverage' = Append(coverage, [i \in 1 .. Width |-> Occupier])
  /\ oracle' = o
  /\ alg' = mutant.alg /\ rules' = RulesOf(mutant, meet)
  /\ pos' = 0 /\ firstD' = 0 /\ firstP' = 0 /\ firstError' = 0
  /\ potential' = FALSE /\ atLeastOne' = FALSE /\ carried' = {}
  /\ result' = PDP!NoResult
  /\ pc' = "request"
  /\ UNCHANGED <<mutant, decision, verdicts, mapping, results, spectrum, suites, truth>>

(* PolicyRunner.evaluate: a request that cannot be parsed never reaches    *)
(* the policy and answers Integer.MAX_VALUE, which no oracle expects.      *)
RejectRequest ==
  /\ pc = "request"
  /\ decision' = "unparsable"
  /\ truth' = Append(truth, [target |-> "NO_MATCH", rules |-> <<>>, passed |-> FALSE])
  /\ pc' = "decided"
  /\ UNCHANGED <<evaluator, mutant, oracle, verdicts, static, spectrum, suites>>

(* policy.evaluate: the before advice records the outcome of the target, a *)
(* missing one as a match; the policy itself then looks at it again.       *)
EvaluatePolicy(match) ==
  /\ pc = "request"
  /\ mutant.hasTarget \/ match = "MATCH"
  /\ CanAdd(TargetXPath)
  /\ AddCoverage(TargetCoverage(match), TargetXPath)
  /\ truth' = Append(truth, [target |-> match, rules |-> <<>>,
                             passed |-> match # "MATCH" /\ oracle = "NotApplicable"])
  /\ IF match = "MATCH" THEN pc' = "combine" /\ UNCHANGED decision
     ELSE pc' = "decided" /\ decision' = "NotApplicable"
  /\ UNCHANGED <<evaluator, mutant, oracle, verdicts, mapping, results, spectrum, suites>>

(* rule.evaluate inside the combine method: the advice evaluates the rule  *)
(* and records it, the method goes on with its decision.                   *)
CombineRule(d) ==
  \/ PDP!ReturnRuleResult(d)
  \/ PDP!SkipNotApplicable(d)
  \/ PDP!CollectEffect(d)
  \/ PDP!RecordError3(d)
  \/ PDP!RecordError2(d)
  \/ PDP!IgnoreError(d)

EvaluateRule ==
  LET rule == rules[pos + 1] IN
  /\ pc = "combine" /\ result = PDP!NoResult /\ pos < Len(rules)
  /\ CanAdd(mutant.ids[pos + 1])
  /\ CombineRule(TracedDecision(rule))
  /\ AddCoverage(TracedCoverage(rule), mutant.ids[pos + 1])
  /\ truth' = [truth EXCEPT ![Last(truth)].rules = Append(@, RuleDecision(rule))]
  /\ UNCHANGED <<mutant, pc, oracle, decision, verdicts, mapping, results, spectrum, suites>>

FinishCombining ==
  /\ pc = "combine"
  /\ PDP!EndOfRules
  /\ UNCHANGED <<mutant, pc, oracle, decision, verdicts, static, spectrum, suites, truth>>

(* The result has reached PolicyRunner.                                    *)
ReturnDecision ==
  /\ pc = "combine" /\ result # PDP!NoResult
  /\ decision' = result.decision
  /\ truth' = [truth EXCEPT ![Last(truth)].passed = (result.decision = oracle)]
  /\ pc' = "decided"
  /\ UNCHANGED <<evaluator, mutant, oracle, verdicts, static, spectrum, suites>>

(* A coverage that cannot be added ends the experiment: it catches no      *)
(* RuntimeException.                                                       *)
Crash ==
  /\ \/ pc = "request" /\ ~ CanAdd(TargetXPath)
     \/ /\ pc = "combine" /\ result = PDP!NoResult /\ pos < Len(rules)
        /\ ~ CanAdd(mutant.ids[pos + 1])
  /\ pc' = "crashed"
  /\ UNCHANGED <<evaluator, mutant, oracle, decision, verdicts, static, spectrum, suites, truth>>

(* Faulty variant: a verdict goes to the front of the list.                *)
FinishTestInFront ==
  /\ pc = "decided"
  /\ verdicts' = <<decision = oracle>> \o verdicts
  /\ pc' = "test"
  /\ UNCHANGED <<evaluator, mutant, oracle, decision, static, spectrum, suites, truth>>

FinishTest ==
  /\ pc = "decided"
  /\ verdicts' = Append(verdicts, decision = oracle)
  /\ pc' = "test"
  /\ UNCHANGED <<evaluator, mutant, oracle, decision, static, spectrum, suites, truth>>

(* runTests returns: the after advice publishes the verdicts.              *)
FinishSuite ==
  /\ pc = "test" /\ Len(verdicts) > 0
  /\ results' = verdicts
  /\ pc' = "localize"
  /\ UNCHANGED <<evaluator, mutant, oracle, decision, verdicts, coverage, mapping, spectrum, suites, truth>>

(* "if (booleanListAnd(results)) continue"                                 *)
SkipCorrectMutant ==
  /\ pc = "localize"
  /\ \A i \in DOMAIN verdicts : verdicts[i]
  /\ pc' = "suite"
  /\ UNCHANGED <<evaluator, mutant, oracle, decision, verdicts, static, spectrum, suites, truth>>

(* new SpectrumBasedFaultLocalizer(getCoverageMatrix())                    *)
IsHit(c) == c \in {TargetCoverage("MATCH"), RuleCoverage("EFFECT")}

Localize ==
  /\ pc = "localize"
  /\ \E i \in DOMAIN verdicts : ~ verdicts[i]
  /\ spectrum' = [hits   |-> [i \in DOMAIN coverage |->
                                [j \in DOMAIN coverage[i] |-> IsHit(coverage[i][j])]],
                  failed |-> [i \in DOMAIN results |-> ~ results[i]]]
  /\ pc' = "localized"
  /\ UNCHANGED <<evaluator, mutant, oracle, decision, verdicts, static, suites, truth>>

(* The localizer is a local variable of the loop over the mutants.         *)
NextMutant ==
  /\ pc = "localized"
  /\ pc' = "suite"
  /\ spectrum' = NoSpectrum
  /\ UNCHANGED <<evaluator, mutant, oracle, decision, verdicts, static, suites, truth>>

Next == \/ \E m \in Mutants : StartSuite(m)
        \/ \E meet \in [DOMAIN mutant.effects -> Meetings], o \in Oracles : StartTest(meet, o)
        \/ RejectRequest
        \/ \E match \in MatchResults : EvaluatePolicy(match)
        \/ EvaluateRule \/ FinishCombining \/ ReturnDecision \/ Crash
        \/ FinishTest \/ FinishSuite
        \/ SkipCorrectMutant \/ Localize \/ NextMutant

Spec == Init /\ [][Next]_vars

-----------------------------------------------------------------------------
DistinctIds(m) == \A i, j \in DOMAIN m.ids : m.ids[i] = m.ids[j] => i = j

(* The column of the i-th rule, when every element has its own.            *)
Column(i) == i + (IF mutant.hasTarget THEN 1 ELSE 0)

TypeOK ==
  /\ mutant \in Mutants /\ suites \in 0 .. MaxSuites
  /\ pc \in {"suite", "test", "request", "combine", "decided", "localize", "localized", "crashed"}
  /\ oracle \in Decisions /\ decision \in Decisions \cup {"unparsable"}
  /\ Len(verdicts) <= MaxTests /\ Len(coverage) <= MaxTests
  /\ \A i \in DOMAIN coverage : DOMAIN coverage[i] = 1 .. Width

(* When the localizer is built, its matrix and its verdicts are those of   *)
(* the suite just run: row by row the elements that took effect - and only *)
(* those, an element that was never reached or failed counts for nothing - *)
(* and as failed exactly the tests for which the policy did not decide     *)
(* what they expect.  This needs distinct rule identifiers.                *)
SpectrumTellsTruth ==
  pc = "localized" /\ DistinctIds(mutant) =>
    /\ DOMAIN spectrum.hits = DOMAIN truth /\ DOMAIN spectrum.failed = DOMAIN truth
    /\ \A t \in DOMAIN truth :
         /\ spectrum.failed[t] = ~ truth[t].passed
         /\ mutant.hasTarget => spectrum.hits[t][1] = (truth[t].target = "MATCH")
         /\ \A i \in DOMAIN mutant.ids :
              spectrum.hits[t][Column(i)] =
                (i \in DOMAIN truth[t].rules /\ truth[t].rules[i] \in Effects)

(* Tracing changes no decision: the advice decides on a rule as            *)
(* Rule.evaluate does, whatever its target and its condition answer, and   *)
(* what the traced policy answers is what the untraced one would have      *)
(* answered to the request: one of the answers of the combining algorithm, *)
(* if its target matches.                                                  *)
TracingIsTransparent ==
  /\ pc \in {"combine", "decided"} =>
       \A i \in DOMAIN rules : TracedDecision(rules[i]) = RuleDecision(rules[i])
  /\ result # PDP!NoResult => result.decision \in PDP!Answers(alg, rules)

(* Only the row of the running test is ever written.                       *)
PastRowsFrozen ==
  [][coverage' # <<>> => \A i \in DOMAIN coverage : i < Len(coverage') => coverage'[i] = coverage[i]]_vars

(* A run dies while recording only on a policy without a target or with a  *)
(* rule identifier used twice.                                             *)
CrashNeedsAmbiguity ==
  pc = "crashed" => ~ mutant.hasTarget \/ ~ DistinctIds(mutant)
=============================================================================

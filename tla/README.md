# A verification development for XPA

XPA tests, mutates, debugs and repairs access-control policies written in XACML 3.0. The
repository holds two programs of the project: XPA itself, in Java, and Z3-str, a theory of strings
in C++ that XPA calls as a process, with a copy of the Z3 solver it plugs into. XPA exists twice:
`src/xpa` (Maven, packages `org.seal`, `org.umu`, `org.wso2`) is current, `src/src` (Eclipse,
`org.sag`) is what it was moved from. The models follow `src/xpa`; the one place where the two trees
behave differently is named below. Paths of Java files are relative to `src/xpa/src/main/java/org`,
those of C++ files to `src/Z3-str`.

There are no threads. What makes this code hard to test is different: loops that return early and
settle the rest in a cascade over flags; static fields that one part writes through an aspect and
another reads later, tied only by the order of calls; one step of several failing; searches whose
steps depend on files and coverage left by earlier steps; and, in Z3-str, callbacks of a solver that
backtracks at will, while half of the plug-in's tables backtrack with it and half do not.

## Inventory

| Part | State | Operations | Hard behaviour | What makes it correct |
|---|---|---|---|---|
| Rule combining, `wso2/balana/combine/xacml{2,3}/*RuleAlg` | flags, first failures and obligations of the running loop | `combine`, which calls `Rule.evaluate` | early return, rules that fail, order of the cascade | the decision is one the rules not evaluated could not change; status and obligations belong to it |
| Policy combining, `*PolicyAlg` | the same, and the selected policy | `combine`, which calls `match` and `evaluate` | targets that fail or are missing | as above; nothing is evaluated that must not be |
| Policies and rules, `wso2/balana/{AbstractPolicy,Policy,PolicySet,Rule}` | parsed policy | `match`, `evaluate`, `encode` | the target is looked at twice | `evaluate` agrees with `match` |
| Semantic coverage, `seal/semanticCoverage` | static `coverageMatrix`, `mapping`, `results` | `runTests`, `runTest`, advice around `Rule.evaluate` and before `AbstractPolicy.evaluate` | static state, re-implementation of `Rule.evaluate` in the advice | the matrix tells what happened; tracing changes nothing |
| Semantic fault localization, `seal/semanticFaultLocalization` | spectrum, coefficients, ranks | experiment over mutants, 14 formulas, ranking | matrix and verdicts paired by index | the spectrum is that of the suite just run |
| Multi-fault repair, `seal/repair/{ExperimentMultiFault,MutantNode}` | priority queue of mutants, their files, the static coverage | `start`, `generateMutants`, `isPromising`, `getSuspicionRank` | stale coverage, shared file names, termination | best first, honest when it gives up, keeps what it returns |
| Single-fault repair, `seal/repair/{PolicyRepairer,ExperimentOnRepair}` | mutator, mutant files | `repair`, `repairSmartly`, `repairOneByOne`, `repairRandomOrder` | off-by-one between positions and rules, tries counted by `indexOf` | the first repair in rank order |
| Semantic mutation, `seal/semanticMutation` | one DOM document | one method per mutation operator | change, parse, restore: the parse may throw | the document is what it was |
| Old coverage, localization and mutation, `seal/{coverage,faultlocalization,mutation}` | static lists, mutant files | as above, on Balana objects | exceptions swallowed | as above |
| Decision point front end, `wso2/balana/{PDP,Balana,PolicyReference}`, `ctx`, `cond`, `attr`, `finder` | configuration | parse requests, look up attributes, evaluate functions | | |
| String theory: concatenations, `strArgmt.cpp`, `cb_new_eq`, `cb_push`, `cb_pop` | cut information per variable, table of variables made, scopes | reports of equalities, axioms, backtracking | axioms vanish with their scope, the cut information must too; a split along a common ancestor never ends | no solution is lost; a split is refused exactly where it would loop |
| String theory: free variables, `strTheory.cpp`, `strRegex.cpp` | tables of length, value and unroll testers | `cb_final_check`, `cb_new_eq` on a tester | tables outlive the axioms they stand for; blocks of options with "more" | every string is offered once and the value is found |
| MC/DC tests, `seal/mcdc`; inference of combining algorithms, `seal/combiningalgorithms`; GUI, `seal/gui`; editor, `umu` | strings, tables, widgets | | | |

How they interact: the GUI and the experiments call the mutators, which give policies; a test suite
runs each policy on its requests by calling the policy object directly, not through `PDP`; aspects
woven around those calls fill static fields; the localizers read the static fields and rank policy
elements; the repairers mutate in that order and run the suite again.

Z3-str registers callbacks with Z3's core: `cb_new_eq` when two strings become equal, `cb_push` and
`cb_pop` when a scope opens or closes, `cb_final_check` when the core has nothing left to do. The
callbacks answer with axioms; the core decides which of them it tries first and when it goes back.

## Modules

| Module | Models | 
|---|---|
| `Xacml` | decisions, match results and `Rule.evaluate` |
| `CombiningPromise` | abstract: what a rule combining algorithm may answer, from what the rules could have decided had none failed |
| `CombineOnce` | abstract specification: one step from a list of children to a verdict that stays |
| `RuleCombining` | the `combine` methods of the seven `*RuleAlg` classes; implements `CombineOnce` with `Answers`: what is promised, and where the code departs from it something else |
| `PolicyPromise` | abstract: the same for policies, whose target may fail or be missing; `AbstractPolicy.match` and `evaluate` |
| `PolicyCombining` | the `combine` methods of the eight `*PolicyAlg` classes; implements `CombineOnce` with `PolicyAnswers` |
| `SemanticCoverage` | `FaultLocalizationExperiment`, `TestSuite`, `PolicyRunner`, the advice of `SematicPolicyTracer`, `PolicyCoverageFactory` and the constructor of `SpectrumBasedFaultLocalizer`, composed with `RuleCombining` |
| `MultiFaultRepair` | `ExperimentMultiFault.start` and `MutantNode` |
| `PolicyRepair` | `PolicyRepairer`: `repairSmartly`, `repairRandomOrder`, `repairOneByOne` and what they call |
| `CutInfo` | the cut information of the string theory: `addCutInfoOneNode`, `addCutInfoMerge`, `hasSelfCut`, and what `cb_pop` leaves of it |
| `ConcatSplit` | `simplifyConcatEq` with its six types, `solve_concat_eq_str` for two arguments, `cb_push`, `cb_pop`; extends `CutInfo` |
| `FreeVarSearch` | `cb_final_check` for free variables and common unrollings: length, value and unroll testers and their axioms |
| `*_proofs` | lemmas and theorems about the module of that name |
| `MC*` | instances for TLC |

**RuleCombining.** The variables are the locals of the loops (`firstD`, `firstP` for
`firstIndeterminateResultD/P`, `potential` for `potentialDeny`/`potentialPermit`, and so on); the
Boolean that goes with a first failure (`atLeastOneErrorD`) is the test that it is not 0. A step is
one iteration, and the action says which branch it takes; `EndOfRules` is the cascade, one
definition per class. Deny- and permit-overrides are mirror images up to the cascade and share
actions through `X`, the effect that overrides, and `Y`. A result is its decision, the rule its
status comes from and the rules whose obligations it carries.

**The promise.** A rule that fails *could* have had its effect or none. `CouldDecide` is the set of
decisions the algorithm would have reached over all such resolutions, and `Promised` says what may be
answered for that set. It knows nothing of loops, order of evaluation or flags, and it is about all
the rules, also those an early return leaves unevaluated. Deny-overrides 3.0 answers the exact
extended decision, and so does permit-overrides 3.0; the 1.0 algorithms answer plainly exactly when
nothing else was possible; first-applicable may answer indeterminately although nothing else was
possible; the unless algorithms count every failure against the overriding effect. 3.0 algorithms over
2.0 rules, whose failures name no effect, promise nothing (`Understood`). The promise is not fitted to
the code: where a class breaks it is a formula of its own, `Departs` (permit-overrides 3.0 loses a
lost Deny) and for policies `PolicyDeparts` and `MatchMayThrow`, and what is checked and proved is
`Answers`: the promise is kept everywhere else, and broken there in every case.

**PolicyCombining** adds what a policy has and a rule has not: a target asked by `match` before
`evaluate`. `matched` and `evaluated` record the calls. The classes differ in what a failing target
means: Deny (deny-overrides), Indeterminate (first-applicable, only-one-applicable, and
permit-overrides 1.0 after the loop), nothing (permit-overrides 3.0). A missing target makes
`match` throw; permit-unless-deny throws on any policy. `Throws` stands for the exception.
`PolicyPromise` states the promises in the same terms as for rules, `PolicyCouldDecide`: a policy
without a target applies, one whose target failed may have decided as its own algorithm does or not
at all. No promise allows an exception. The departures are these: deny-overrides 3.0 takes a failed
target for a Deny (the class has a TODO there), and calls a lost Deny beside a possible Permit
IndeterminateD unless its flags have seen both in one way (`SeesBoth`); permit-overrides 3.0 passes over
failed targets and over a plain Indeterminate (`Overlook`), and loses a lost Deny; permit-unless-deny
throws; and `match` throws for a missing target. Three of them contradict the repository's own text and
are findings. In 1.0, deny-overrides takes any trouble for a Deny, as
the comment in its loop has it ("we always return DENY if any Policy returns DENY or INDETERMINATE").

**SemanticCoverage** has one action per call or advice, in the order of the code, and the decision
point inside it is `RuleCombining` itself (`PDP == INSTANCE RuleCombining`): `EvaluateRule` is the
iteration of the running `combine` together with the advice that replaces `Rule.evaluate`, and it
takes the decision the *advice* computes, so that a divergence from `Rule.evaluate` disables the
loop's own step or changes its outcome. The comparison of `TracedDecision` with `RuleDecision` is over
every target and condition outcome, failed and absent ones included. Rows, columns, the occupier, the
mapping by XPath and its two failure modes (no column, column beyond the row) follow
`PolicyCoverageFactory`. `truth` is a history variable: what happened, and whether the policy decided
what the test expects, written down by the model and not by the code; `SpectrumTellsTruth` compares
hits and verdicts with it, test by test.

**MultiFaultRepair.** A node is a `MutantNode` and names a file. Names and policies are different
things: a name is the sequence of what `getMutantFileName` was given (`Mutation`), a policy the
sequence of changes made to the policy to repair (`Change`), and `disk` says which policy a file
holds. Positions -1 and 0 make the same CRC mutants under the same names. The CCF mutants of a rule
that compares integers are named without the rule (`PolicyMutator.java:1244`), so that with two such
rules (`compares`, `IntegerCCF`) different mutants have one name, and `saveStringToTextFile` keeps the
last: the earlier node stays queued, and runs and may return the policy of the later. What the suite
says of a policy and what its coverage ranks first are chosen once per policy and kept (`verdicts`,
`suspicion`). `covered` says whose run the static coverage comes from. A run may also break
(`TestsBreak`): the exception is swallowed, null is returned and dereferenced, and `start` ends
without a clean-up. In `src/xpa` the old tracer is renamed `PolicyTracer.aj_` and not woven, so that
the old localizer sees no coverage and ranks positions 0 and 1 only; the model describes the tree
where it is woven, `src/src`, whose repair code is otherwise the same.

**PolicyRepair.** The nesting of the code (positions of the ranking, operators of a position,
mutants of an operator) is `at`, `step` and `next`; `StepsAt` lists the operators the four
`repairBugPosition*` methods apply, which are sixteen copies of the same steps: make the mutants
(`MakeMutants`), run them until one passes (`MutantFails`, `MutantPasses`), delete the files of the
others (`DeleteMutants`), return if there was one. A run of the suite may also end in the exception that
`runAllTestsOnMutant` turns into null (`MutantBreaksRun`), and an operator may throw (`MakeNone`).
What an operator does to a policy is abstracted to how many mutants it makes, the same for every
rule; what the suite says of a mutant is any answer, the same one each time. `maxRules` equals the
number of rules, which are the only children of a policy, so the `continue` at
`PolicyRepairer.java:219` is not reachable and has no action. `failed` is a history variable;
`StepFailed` and `PositionFailed`, in which the properties are stated, say of it that all mutants of
an operator, and of all operators of a position, failed.

**CutInfo and ConcatSplit.** When two equal concatenations overlap in an unknown way, the theory
cuts a variable along a new one: one axiom lists the arrangements, each tied to a value of an integer
"xor" variable. `cutVARMap` has the levels and ancestors the code keeps to refuse a cut that would
loop; `CutInfo` models its stack as a set of entries, since the levels on it rise. `ConcatSplit` has
an action per callback: a report of two equal concatenations (`QuickEq`, `SameLengthEq`,
`SimplifyEq` for what `simplifyConcatEq` does by equal arguments, by lengths and by type), of a
concatenation equal to a constant (`SolveConcatEqStr`), an equality the core adopts from an axiom
(`Adopt`), a scope opened or closed. The abstractions: an argument is a variable or a constant, a
nested concatenation being named by a variable; the core is external, and reports any pair it holds
equal, in any order, once while the axiom of the pair is in force; of the input one solution is
followed, and an axiom is represented by the values of its xor variable under which that solution
satisfies it, so that an axiom that none satisfies, or two that demand different values of a shared
xor variable, are a lost solution. Where a concatenation has become a constant, the code also calls
`simplifyParent` (`strArgmt.cpp:1649`) for concatenations around it; with atoms for arguments
it is left out. An axiom records the pair it is about in the order it was reported
in, which is the order its cuts are numbered in; the values of an axiom of type 6 are the lengths of
the overlap. A return to a scope (`cb_pop`) forgets cut entries at or above the
level returned to, so also what the open scope recorded: `remembered` marks the axioms whose cuts
have not been forgotten that way.

**FreeVarSearch.** The testers of one variable. `lenTesters` and `valRange` are the tables that
survive backtracking, `axioms` and `values` what a scope takes with it; `learnt` is a history
variable: every axiom asserted so far, in whatever scope. `CbFinalCheck` is the whole final check: it
walks the tables, asserts again what was lost, and makes the next tester where all before it answered
"more"; strings are numbers in the base of the alphabet, as `getNextValEncode` counts. For a variable
that unrolls constants (`genUnrollConditionalOptions`, `genUnrollAssign` and the least common multiple
of `strRegex.cpp`) there are unroll testers instead. The core gives a tester a value its axiom allows
(`Follow`), may guess wrongly (`Guess`) and then takes the guess back (`Backtrack`). The abstractions:
one variable; a tester gets a value only once its axiom applies, so that the case of value testers
without a length tester (`moreValueTests`) does not arise; constants that are unrolled are not empty
(an empty one divides by zero at `strRegex.cpp:451`), and a variable unrolls finitely many; the
alphabet has at least two letters (with one, the carry that ends the enumeration is never seen).

## Runs

| Run | Instance | Checks |
|---|---|---|
| `rule_combining` | all policies of at most 3 rules, every path through `Rule.evaluate`, both versions, 7 algorithms | `TypeOK`, `FlagsSummariseRules`, `StatusIsFirstError`, `ObligationsOfDecision`, `KeepsPromise` (refinement of `CombineOnce`) |
| `policy_combining` | all policy sets of at most 3 policies, all decisions and target outcomes, 8 algorithms | `TypeOK`, `StatusExplains`, `OnlyOneEvaluated`, `ObligationsOfDecision`, `KeepsPromise` |
| `semantic_coverage` | 6 policies of 2 rules, 2 suites of at most 2 tests, rules that meet a request in 6 ways, every outcome of target and condition among them | `TypeOK`, `SpectrumTellsTruth`, `TracingIsTransparent`, `CrashNeedsAmbiguity`, `PastRowsFrozen` |
| `multi_fault_repair` | 3 searches (2 layers; 2 rules that compare integers; random order), 2 tests, 1 mutant per position | `TypeOK`, `RankedFromOwnRun`, `CheapestFirst`, `GaveUpExhausted`, `RepairKept`, `SearchEnds` |
| `policy_repair` | 2 policies of 2 rules (one names no attribute), 3 ways to rank, up to 4 mutants per operator | `TypeOK`, `FirstInRankOrder`, `NullExhaustsRank`, `OnlyRepairKept`, `TriesCountPositions`, `RepairEnds` |
| `concat_split` | 10 inputs with pairs of every type, 7 solutions, 2 scopes, 4 axioms in force, 9 variables | `TypeOK`, `NoSolutionLost`, `CutsBacked` (with `LevelsWithinScope`), `CutInfoSound`, `CutInfoComplete`, `SplitsWithinString` |
| `free_var_search` | 8 values of a variable, free or an unrolling; 2 letters, lengths to 3, 4 unrollings, 2 scopes | `TypeOK`, `EveryStringOnce`, `UnrollsExact`, `ReassertedAlike`, `NeverStuck`, `SolutionKept`, `SolutionFound` |
| `none_applied`, `unless_is_definite`, `missing_target_inherits`, `every_rule_mutated`, `solution_lost` | as above; `solution_lost` has an input of its own | one finding each |

Why the bounds suffice. In the combining loops, the cascades depend on which of at most three
flags are set, and three rules set any three of them in any order; a fourth rule adds no new
combination, and the theorems cover every length. Two suites are needed for anything
stale to show, two tests for a row to be confused with another, two rules for an early return; the
policies differ in what the tracer depends on (an early return, no target, an identifier used
twice). Two layers are needed for a mutant of a mutant and for a node whose parent's results are
consulted; two tests are needed for a mutant that passes one more and breaks another; two rules
that compare integers are needed for different mutants of one name. With two
rules there is one that is repaired as a rule and one whose position means something else, and all
rankings are enumerated, in random order those with a position before and after its repetition.
In `concat_split`, an input has at most three equalities, so that a cut can build on a cut, and
`MaxAxioms` and `MaxNode` leave room for that; two scopes are what it takes to return to a scope that
has recorded something. In `free_var_search`, testers of two options make a length of three letters
take four value testers, the last exactly full, and a length tester that is not the first; with two
pushes axioms are lost and asserted again while a later scope is open. `MaxLevel`, `MaxAxioms`,
`MaxNode` and `MaxLength`, and `MaxLen`, `MaxUnrolls` and `MaxPushes`, bound what the core does, not
what the plug-in does; a length tester must fit (`LenDistance <= MaxLen + 1`).

`CHECK_DEADLOCK FALSE` everywhere: a `combine` returns, an experiment runs out of mutants or dies,
a search ends, a solver has no more to report.

Fairness. `MultiFaultRepair` and `PolicyRepair` have `WF_vars(Next)`: each is one thread in loops
that call nothing that waits; as long as it can take a step it does. The test runs are assumed to
end. `FreeVarSearch` has weak fairness of three steps the core owes the plug-in: it leaves no tester
without a value that its axiom allows (`Follow`), it closes the scope of a guess that the input
refutes (`Backtrack`), and it calls the final check before it answers (`CbFinalCheck`). Guesses and
scopes are not fair, and are bounded, since a core that guessed for ever would never answer. All
other properties are safety properties and need none.

Each property comes with a faulty variant of one definition, kept beside that definition and named
after it (`RecordError3Last`, `CleanUpAll`), under which the run finds the property violated: a
first failure overwritten, a list replaced instead of extended, `break` for `continue`, a
verdict put in front of the others. They are not part of any specification.

## Findings

1. *Permit-overrides 3.0 for policies answers NotApplicable when something may have applied*
   (`PermitOverridesPolicyAlg.java:111`): the branch for a failed target is commented out, and the
   cascade after the loop has no branch for a lost Deny, under a comment that none of the rules
   applied. The rule class has the second gap too (`PermitOverridesRuleAlg.java:148`).
2. *Permit-unless-deny for policies casts to the element class of rules*
   (`PermitUnlessDenyPolicyAlg.java:93`) and throws for every policy set that is not empty.
3. *A policy without a target ends the evaluation of its policy set* (`AbstractPolicy.java:603`):
   `match` calls the missing target, where `evaluate` has it inherit from the parent policy. (With
   tracing, a suite run on such a policy dies already at `PolicyCoverageFactory.java:21`, where the
   column of the missing target is unboxed; `CrashNeedsAmbiguity` has it as one of the two causes.)
4. *The last rule is never repaired* (`PolicyRepairer.java:210`): its position is also `maxRules`,
   the position of "remove a rule", which is tested for first. null is returned, documented as
   "cannot be repaired", although no mutant of that rule was made.
5. *A xor variable is shared by mirrored pairs* (`strArgmt.cpp:1968`): the variable for a
   concatenation that equals a constant is looked up by its arguments in either order, while its
   values number the cuts of the constant from the first argument. `x.y = "aba"` and `y.x = "aab"`
   have a solution (`x = "ab"`, `y = "a"`), and no value of the variable suits both axioms: the
   answer is UNSAT.

Three places where the code is odd without a property at stake: the braces of a branch are missing at
`xacml2/PermitOverridesRuleAlg.java:155`, harmless since a rule that does not apply has no
obligations; deny-unless-permit evaluates a policy without matching it first
(`DenyUnlessPermitPolicyAlg.java:85`), harmless since `evaluate` looks at the target again; and under
the comment "PTF" (`PolicyRepairer.java:269`) the operator that makes the policy target true is called
a second time, so that the one that makes it false never is.

Not a contradiction of any text, but worth knowing: names of mutant files are shared.

- A repair can be deleted. When a name was given twice and one of the pair is the repair, the clean-up
  of the other deletes its file. `RepairKept` says exactly when the file is there, and that
  it takes a name given twice (`ListedTwice`): by positions -1 and 0, by the last rule in random order,
  or by two rules that compare integers.
- A mutant may never be tested. Of the mutants that share a name only the last written is run, so that
  null can be returned although one of the others would pass: `GaveUpExhausted` claims that every mutant
  was tested only where the name tells the mutant (`Plain`); of the others it claims that their nodes were
  run, on whatever their files held then.
- What is returned is a name; what is on disk under it passes all tests, but need not be the mutant the
  node was made for.

## What is proved

Every component has `TypeOK` and its other safety invariants proved for every value of the
constants, with the two refinements of `CombineOnce` and the action property `PastRowsFrozen`. Only
the liveness properties are left to the runs; for two of the three, the theorems `EveryStepNearer`
prove the part that is within the provers' reach.

**RuleCombining** (`RuleListsAssumption`: lists of rule instances, of any length):

- `TypeCorrect`: `Spec => []TypeOK`.
- `LoopInvariant`: `Spec => [](TypeOK /\ FlagsSummariseRules)`.
- `LoopsKeepPromise`: `Spec => KeepsPromise`, the loops implement the abstract specification: they keep
  the promise except exactly where `Departs` says.
- `FirstErrorReported`: `Spec => []StatusIsFirstError`.
- `ObligationsMatchDecision`: `Spec => []ObligationsOfDecision`.

`TypeOK /\ FlagsSummariseRules` is inductive: while the loop runs, no rule so far
could have stopped it, each first failure is the first, each flag says exists. The type alone is
not enough, since a cascade only makes sense of flags that summarise all the rules. From the
invariant, `RuleCombining_proofs` derives what the flags say after the last rule in terms of
`CouldDecide`, one lemma per family of algorithms; from an early return it derives that no
resolution of the later rules changes the answer. `CombiningPromise_proofs` holds the facts about
`CouldDecide` both rest on: which decisions can and cannot be reached when a rule with the
overriding effect is there, failed or absent, each by exhibiting a resolution (`Plausible`,
`Choices`, `Decidable`).
The status and obligation theorems follow from the same invariant and the cascades.

**PolicyCombining** (`PolicyListsAssumption`): `TypeCorrect`, `LoopsKeepPromise`,
`ObligationsMatchDecision`, `StatusIsExplained`, `OnlyOneIsEvaluated`. `IInv` adds to the types what
the loops keep while there is no result: the obligations carried are those of the policies evaluated
to the effect that is overridden, a recorded failure is that of a policy in trouble, and
only-one-applicable has evaluated nothing and matched at most the policy it has selected.
`LoopsKeepPromise` needs more, `FlagInv`: what each flag says of the policies passed, in both
directions (a flag is set exactly if a policy of that kind was passed), and that none of them was one
at which the loop returns. With it the cascade is compared with `PolicyAnswers` class by class, the
departures included; for an early return, the policies not looked at are resolved arbitrarily.

**SemanticCoverage** (`MutantsAssumption`, `MeetingsAssumption`, `OraclesAssumption`,
`BoundsAssumption`: well-formed policies of any size, any requests, suites of any length):
`TypeCorrect`, `SpectrumIsFaithful`, `TracingChangesNothing`, `RecordingIsSafe`, `RowsStayWritten`.
The combine method in the middle of a test is not proved again: `RuleCombining_proofs` is
instantiated, and its invariant is a conjunct of this one. The others tie the lengths of matrix, truth
and verdicts to the place in the experiment (`LenInv`), the columns to the policy under test
(`MapInv`), each row to what happened (`RowInv`), and each verdict to whether the decision was the
expected one (`PassInv`); for distinct identifiers the mapping is a bijection onto the columns
(`MappingFinds`), which is what makes a row legible and a crash impossible.

**MultiFaultRepair** (`SearchesAssumption`, `SuiteAssumption`, `ComparisonAssumption`: any numbers of
rules, layers, tests and mutants per position, any rules that compare integers): `TypeCorrect`,
`RankingIsOwn`, `BestFirst`, `NullIsHonest`, `RepairStays`. A node costs no less than its parent, so
whatever is queued costs no less than what has been polled (`OrderInv`); a node that was run and is no
longer at hand fails, and has been mutated if it deserved it (`SettledInv`); two nodes have one file
only through a mutation listed twice (`FileInv`); and a file whose name tells its mutant holds that
mutant (`NameInv`). `EveryStepNearer`: no call of `start` takes infinitely many steps. Nodes are made
faster than they are dealt with, but always in a deeper layer, so that the numbers of open nodes,
layer by layer (`OpenNodes`), come down lexicographically with each node that is dealt with; what
remains is the way through the loop for one node (`Place`) and the way out (`Ends`). `Nearer` is that
order, well-founded for every number of layers.

**PolicyRepair** (`PoliciesAssumption`, `MethodsAssumption`: any number of rules, of mutants per
operator, any ranking): `TypeCorrect`, `FirstIsReturned`, `NullIsHonest`, `OnlyTheRepairStays`,
`TriesAreExact`. Whatever lies before the place in the three loops has failed (`FailedInv`), and the
files on disk are those of the operator at hand (`FilesInv`). That a position found again in the
ranking cannot succeed the second time, on which `TriesAreExact` rests, takes the least such place.
`EveryStepNearer`: no call takes infinitely many steps, since each shortens one of the three loops and
leaves those around it alone (`PositionsLeft`, `OperatorsLeft`, `MutantsLeft`).

**CutInfo and ConcatSplit** (`ConstantsAssumption`, `InputsAssumption`: any input that its solution
satisfies, any depth of scopes, any number of axioms):

- `LevelsStayWithinScope`: the branches "should not be here" of `addCutInfoOneNode` and
  `addCutInfoMerge` for a top above the open scope are not reached. `LevelInv` says that entries are
  of open scopes.
- `CutsAreBacked`: no split is refused for the sake of an axiom that is gone, or of a scope that is
  closed (`CutsBacked` includes `LevelsWithinScope`). `BackedInv` adds that
  every entry which names another variable has an axiom no younger than itself that cuts its variable,
  so that a return closes the axiom only with the entry.
- `SolutionsKept`: `Spec => [](Swapped \/ NoSolutionLost)`. The axioms never rule out a solution,
  whatever the splits, the reports and the scopes, but for a cut that was refused and for the shared
  xor variable of finding 5 (`Swapped`). That every axiom can be satisfied by itself is not inductive:
  axioms speak of variables made by others. The invariant `Sound` says that what the core holds is about
  variables known at its level (`Known`: those of the input and of the axioms in force) and true in the
  solution extended to them; that no two pairs share made variables (`TableOK`); that an axiom in force
  leaves the solution an outcome (`AxiomOK`); and that a pair is split by one axiom at most
  (`UniqueSplits`), so that two demands on one xor variable come from one axiom or from `Swapped`. A
  split keeps it because of two strings cut in two places, one cut lies at or before the other, and the
  made variable is given the piece between; each of the six types has its own lemma.
- `TypeCorrect`, and `CutsStayWithinString` (no `substr` beyond a constant) follow from `Sound`;
  `ConstantCutWithin` is the arithmetic of types 2 and 3 for all integers.
- `RefusedCutsLoop` and `LoopsAreFound`: a cut is refused exactly where it would loop (`CutInfoSound`,
  `CutInfoComplete`). `Ancestors` is the closure of a relation; the proofs are about the pairs reached
  by it (`Reached`), of which `AncestorsReached` and `AncestorsIn` say that they are the same. Soundness
  needs that what a variable's entry records is an ancestor through cuts in force (`CutInfoInv`).
  Completeness needs that cuts lead from a made variable to an older one (`CutsDown`), so that the
  closure is well founded, and that no entry misses an ancestor of its variable (`CutsKept`), for which
  the levels of each stack must be ordered (`StacksOK`) and the keys exist (`KeysBelow`).

**FreeVarSearch** (`ConstantsAssumption`: any alphabet of two letters or more, any distances, any
inputs with finitely many constants, none of them empty, that the solution unrolls, any bounds that
leave room for one length tester): `TypeCorrect`, `EachStringOnce`, `AssertedAlike`,
`UnrollsAreExact`, `CheckHelps`, `KeepsSolution`. First that the numbers below `Power[len]` write the
strings of a length, each once (`OneEncoding`, `SomeEncoding`, `StringsCount`), from their digits.
Then that what `genValOptions` collects with carries and `coverAll` is a block of consecutive numbers
(`OptionsAre`) that starts where the block before ends, also when some testers of a length are
asserted again and others are not (`RangesAfterIs`). `Inv` then says in closed form what each axiom in
force is, as a function of its tester alone; that the tables hold an entry for each (`TablesOK`), and
within the bounds; that no value tester's axiom is in force without those before it (`Chained`), which
is what makes the strings complete; and that the value of a tester is one its axiom allows and its
predecessors are "more" (`ValueOK`), which is what `moreValueTests` and `genLenValOptionsForFreeVar`
rely on when they look for the first length tester with a value. `AssertedAlike` is about the history:
whatever was learnt is an axiom of a tester of the tables as they are now (`Learnt`), since the tables
only grow and no entry changes (`Grows`), and axioms of one tester differ in their levels only
(`OneFact`). `UnrollsAreExact` rests on closed forms of the two loops under it. The fold of
`computeLCM` over the lengths is their least common multiple (`FoldIs`): the product divided by the
greatest common divisor is a common multiple, and none is less (`LcmIs`). An unrolled constant repeats
its letters (`UnrolledIs`), so that unrolling twice is unrolling the product of the times
(`RepeatTwice`). A string that unrolls all constants has a multiple of that length, and is fixed by
its length (`CommonLength`, `CommonSame`); if there is one that is not empty, its beginning is what
every constant is when unrolled to that length (`CommonNeedsOne`), so `LcmStrings` has one member.
`CheckHelps` (`NeverStuck`) says that whenever x has no value and no tester waits for one, what the
final check asserts (`FinalCheck`) makes a tester wait or gives x a value; otherwise the core would
answer SAT with no value for x. It follows the walk of `genFreeVarOptions` over the tables: of the
testers that lead there, all are "more", and the first the walk comes to that is not in force, or is
new, applies. `KeepsSolution` (`SolutionKept`) says that the axioms never rule out the solution: what
it gives a tester is among the options, and "more" only if the strings it needs are those of a later
tester (`Beyond`).

The loops and encodings of the code are recursive functions in the models. The library's induction
theorems cannot be used for them, since they take an operator; the proofs take the least number for which
a claim fails instead (`LeastOf`, from the well-foundedness of `<` on the naturals).

Model-checked only: the liveness properties `SearchEnds`, `RepairEnds` and `SolutionFound`, since
liveness under fairness is out of the prover's reach. Of the first two, `EveryStepNearer` proves that
no call goes on for ever; what is left to the runs is that a call which has not returned can take a
step (`ENABLED`, under `WF_vars(Next)`). Of `SolutionFound`, `CheckHelps` and `KeepsSolution` prove
that there is always a next step of the plug-in and that none of its axioms excludes the solution;
what is left is that the core, in the fairness stated above, gets there.

## Not modelled

- *Z3* (`src/Z3-str/z3`, some 410 000 lines) is a third-party solver with a patched string sort. The
  models use it as the core that opens and closes scopes and picks values. It makes up nearly all the
  C and C++ in the repository, so that of those lines the models cover next to nothing, although they
  cover the core of the project's own programs.
- *Rest of the string theory*: splitting of unrolled expressions against concatenations and
  constants, reduction of the string functions to axioms (`strAstReduce.cpp`), propagation of lengths
  and of `contains`, the analysis that finds the free variables (`ctxDepAnalysis`) and the order among
  them. These are rewritings of terms inside the solver's context, with little control of their own.
- *Suspicion ranking and the coefficient formulas*: quotients of floating-point numbers compared
  with a tolerance. Localization and repair take the ranking as an input.
- *Semantic mutation* (`Mutator`) and *mutation of Balana objects*: some fifty rewritings of a DOM tree
  or a policy; the repairs take what an operator makes as an input. The parse failure that skips the
  restoration of the shared document (`Mutator.java:181`) is listed as a hazard without a property.
- *Repair experiments* (`ExperimentOnRepair`): a loop over methods and mutants that times repairs.
- *Old coverage and localization*: replaced by the semantic ones, its tracer switched off; what
  remains of it in `MultiFaultRepair` is `covered`.
- *Policy sets in `SemanticCoverage`*: the experiments load single policies; with nested sets, several
  targets would write to one row under the same name.
- *Decision point front end*, *policy loading*, *MC/DC tests*: sequential data transformation, what
  it computes is an input of the models. *Inference with Z3-str*: its answers are the solver's. *GUI*
  and *UMU editor*: Swing, XML trees. `Experiments`, `schemas` and `resources`: data.

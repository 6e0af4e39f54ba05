---------------------------- MODULE PolicyRepair ----------------------------
(***************************************************************************)
(* Repairing a policy with one fault (PolicyRepairer): the positions of a  *)
(* suspicion ranking are tried in order, and at each position the mutation *)
(* operators that fit it.  An operator writes its mutants to files; the    *)
(* first that passes the test suite is the repair, and the files of the    *)
(* operator's other mutants are deleted.                                   *)
(*                                                                         *)
(* A run of the suite may fail to end: PolicySpreadSheetTestSuite swallows *)
(* the exception and answers null, which getTestResults dereferences.      *)
(***************************************************************************)
EXTENDS Naturals, Integers, Sequences, SequencesExt, FiniteSets

CONSTANTS
  Methods,     (* how the ranking is made                                  *)
  Policies     (* policies to repair: [rules, attributes, yields]          *)

(* createRuleEffectFlippingMutants ... createRemoveParallelTargetElement-  *)
(* Mutants, in the order in which repairBugPositionRules calls them.       *)
RuleOperators == <<"CRE", "RTT", "RTF", "RCT", "RCF", "ANF", "RNF", "FCF", "CCF", "RPTE">>

PolicyOperators == {"CRC", "PTT", "PTF", "FPR", "FDR", "RER"}
Operators == PolicyOperators \cup Range(RuleOperators)

(* A policy is its number of rules, whether any attribute occurs in it     *)
(* (RTF needs one to build a false target) and how many mutants each       *)
(* operator makes of it.                                                   *)
ASSUME PoliciesAssumption ==
  \A p \in Policies : /\ p.rules \in Nat \ {0}
                      /\ p.attributes \in BOOLEAN
                      /\ p.yields \in [Operators -> Nat]
ASSUME MethodsAssumption == Methods \subseteq {"smartly", "random order", "one by one"}

VARIABLES
  method,      (* which of repairSmartly, ... was called                   *)
  policy,      (* the policy to repair                                     *)
  pc,          (* where the call is                                        *)
  rank,        (* suspicionRank                                            *)
  at,          (* index in rank of bugPosition                             *)
  step,        (* index of the operator within the position                *)
  mutantList,  (* what that operator made                                  *)
  next,        (* index of the mutant to run                               *)
  correct,     (* index of correctMutant in mutantList, 0 for null         *)
  files,       (* mutants on disk                                          *)
  failed,      (* mutants that failed a test                               *)
  tries,       (* numTriesBeforSucceed                                     *)
  outcome      (* what the call returned: [kind, mutant]                   *)

vars == <<method, policy, pc, rank, at, step, mutantList, next, correct,
          files, failed, tries, outcome>>

NoMutant == [op |-> "none", rule |-> 0, nr |-> 0]
Returned(kind, mutant) == [kind |-> kind, mutant |-> mutant]

(* An operator and the rule it is applied to, 0 for the policy.            *)
Apply(op, rule) == [op |-> op, rule |-> rule]

(* The mutants an operator makes, numbered as in their file names.         *)
MutantsOf(a) == [k \in 1 .. policy.yields[a.op] |-> [op |-> a.op, rule |-> a.rule, nr |-> k]]

-----------------------------------------------------------------------------
(* The operators applied at a position.  maxRules, the number of children  *)
(* of the policy, is the number of its rules, so that the last rule has    *)
(* the position of "remove a rule".  The second PTT stands under "PTF".    *)
StepsAt(bugPosition) ==
  CASE bugPosition = -1 -> <<Apply("CRC", 0)>>
    [] bugPosition = 0  -> <<Apply("PTT", 0), Apply("PTT", 0), Apply("FPR", 0), Apply("FDR", 0)>>
    [] bugPosition = policy.rules -> [r \in 1 .. policy.rules |-> Apply("RER", r)]
    [] bugPosition \in 1 .. policy.rules - 1 ->
         [k \in DOMAIN RuleOperators |-> Apply(RuleOperators[k], bugPosition)]

(* repairOneByOne: -1 .. number of rules, then maxRules.                   *)
OneByOneRank == [i \in 1 .. policy.rules + 3 |->
                   IF i = policy.rules + 3 THEN policy.rules ELSE i - 2]

(* getRandomSuspicionRank shuffles the same list.                          *)
RandomRanks ==
  {s \in [1 .. policy.rules + 3 -> -1 .. policy.rules] :
     \A p \in -1 .. policy.rules :
       Cardinality({i \in DOMAIN s : s[i] = p}) = (IF p = policy.rules THEN 2 ELSE 1)}

(* getSuspicionRank: the target and the rules as the fault localizer ranks *)
(* them, the combining algorithm in front.                                 *)
SuspicionRanks == {<<-1>> \o s : s \in SetToSeqs(0 .. policy.rules)}

Init == /\ method \in Methods /\ policy \in Policies
        /\ pc = "rank" /\ rank = <<>> /\ at = 1 /\ step = 1
        /\ mutantList = <<>> /\ next = 1 /\ correct = 0
        /\ files = {} /\ failed = {} /\ tries = 0
        /\ outcome = Returned("nothing yet", NoMutant)

MakeRank ==
  /\ pc = "rank"
  /\ rank' \in (CASE method = "smartly"      -> SuspicionRanks
                  [] method = "random order" -> RandomRanks
                  [] method = "one by one"   -> {OneByOneRank})
  /\ pc' = "mutate"
  /\ UNCHANGED <<method, policy, at, step, mutantList, next, correct, files, failed, tries, outcome>>

CurrentStep == StepsAt(rank[at])[step]

(* RTF of a policy without attributes: "No attribute collected".           *)
CannotMutate(a) == a.op = "RTF" /\ ~ policy.attributes

(* An operator makes its mutants and writes their files.                   *)
MakeMutants ==
  /\ pc = "mutate" /\ step <= Len(StepsAt(rank[at]))
  /\ ~ CannotMutate(CurrentStep)
  /\ mutantList' = MutantsOf(CurrentStep)
  /\ files' = files \cup Range(mutantList')
  /\ next' = 1 /\ correct' = 0
  /\ pc' = "find"
  /\ UNCHANGED <<method, policy, rank, at, step, failed, tries, outcome>>

Throw ==
  /\ pc' = "done"
  /\ outcome' = Returned("exception", NoMutant)

MakeNone ==
  /\ pc = "mutate" /\ step <= Len(StepsAt(rank[at]))
  /\ CannotMutate(CurrentStep)
  /\ Throw
  /\ UNCHANGED <<method, policy, rank, at, step, mutantList, next, correct, files, failed, tries>>

-----------------------------------------------------------------------------
(* find1stCorrectMutant runs the suite on one mutant after the other.  The *)
(* suite says the same of the same mutant again.                           *)
MutantFails ==
  /\ pc = "find" /\ next <= Len(mutantList)
  /\ failed' = failed \cup {mutantList[next]}
  /\ next' = next + 1
  /\ UNCHANGED <<method, policy, pc, rank, at, step, mutantList, correct, files, tries, outcome>>

MutantPasses ==
  /\ pc = "find" /\ next <= Len(mutantList)
  /\ mutantList[next] \notin failed
  /\ correct' = next
  /\ pc' = "delete"
  /\ UNCHANGED <<method, policy, rank, at, step, mutantList, next, files, failed, tries, outcome>>

MutantBreaksRun ==
  /\ pc = "find" /\ next <= Len(mutantList)
  /\ mutantList[next] \notin failed
  /\ Throw
  /\ UNCHANGED <<method, policy, rank, at, step, mutantList, next, correct, files, failed, tries>>

NoneCorrect ==
  /\ pc = "find" /\ next > Len(mutantList)
  /\ pc' = "delete"
  /\ UNCHANGED <<method, policy, rank, at, step, mutantList, next, correct, files, failed, tries, outcome>>

(* Faulty variants: nothing is deleted once a mutant is correct; the       *)
(* operators that are left at the position are skipped.                    *)
DeleteOnlyIncorrectLists ==
  IF correct = 0 THEN files \ Range(mutantList) ELSE files

DeleteThenLeave ==
  /\ pc = "delete"
  /\ files' = files \ {mutantList[k] : k \in DOMAIN mutantList \ {correct}}
  /\ pc' = IF correct # 0 THEN "found" ELSE "mutate"
  /\ step' = Len(StepsAt(rank[at])) + 1
  /\ UNCHANGED <<method, policy, rank, at, mutantList, next, correct, failed, tries, outcome>>

(* deleteMutantFile                                                        *)
KeptFiles == files \ {mutantList[k] : k \in DOMAIN mutantList \ {correct}}

DeleteMutants ==
  /\ pc = "delete"
  /\ files' = KeptFiles
  /\ pc' = IF correct # 0 THEN "found" ELSE "mutate"
  /\ step' = IF correct # 0 THEN step ELSE step + 1
  /\ UNCHANGED <<method, policy, rank, at, mutantList, next, correct, failed, tries, outcome>>

(* Faulty variants: the operator index is kept; the last position is left  *)
(* out; the same position is tried for ever.                               *)
NextPositionMidway ==
  /\ pc = "mutate" /\ step > Len(StepsAt(rank[at])) /\ at < Len(rank)
  /\ at' = at + 1
  /\ UNCHANGED <<method, policy, pc, rank, step, mutantList, next, correct, files, failed, tries, outcome>>

NextPositionButLast ==
  /\ pc = "mutate" /\ step > Len(StepsAt(rank[at])) /\ at < Len(rank)
  /\ at' = IF at + 1 = Len(rank) THEN at ELSE at + 1
  /\ step' = IF at + 1 = Len(rank) THEN step ELSE 1
  /\ pc' = IF at + 1 = Len(rank) THEN "exhausted" ELSE "mutate"
  /\ UNCHANGED <<method, policy, rank, mutantList, next, correct, files, failed, tries, outcome>>

NextPositionAgain ==
  /\ pc = "mutate" /\ step > Len(StepsAt(rank[at])) /\ at < Len(rank)
  /\ step' = 1
  /\ UNCHANGED <<method, policy, pc, rank, at, mutantList, next, correct, files, failed, tries, outcome>>

(* The operators of a position did not help.                               *)
NextPosition ==
  /\ pc = "mutate" /\ step > Len(StepsAt(rank[at])) /\ at < Len(rank)
  /\ at' = at + 1 /\ step' = 1
  /\ UNCHANGED <<method, policy, pc, rank, mutantList, next, correct, files, failed, tries, outcome>>

RankExhausted ==
  /\ pc = "mutate" /\ step > Len(StepsAt(rank[at])) /\ at = Len(rank)
  /\ pc' = "exhausted"
  /\ UNCHANGED <<method, policy, rank, at, step, mutantList, next, correct, files, failed, tries, outcome>>

(* Faulty variant: lastIndexOf.                                            *)
LastIndexOf(bugPosition) ==
  (CHOOSE i \in DOMAIN rank : rank[i] = bugPosition
                              /\ \A j \in DOMAIN rank : rank[j] = bugPosition => j <= i) - 1

(* suspicionRank.indexOf(bugPosition), counted from 0.                     *)
IndexOf(bugPosition) == SelectInSeq(rank, LAMBDA p : p = bugPosition) - 1

Return ==
  /\ pc \in {"found", "exhausted"}
  /\ tries' = IndexOf(rank[at])
  /\ outcome' = IF pc = "found" THEN Returned("repair", mutantList[correct])
                                ELSE Returned("null", NoMutant)
  /\ pc' = "done"
  /\ UNCHANGED <<method, policy, rank, at, step, mutantList, next, correct, files, failed>>

Next == \/ MakeRank \/ MakeMutants \/ MakeNone
        \/ MutantFails \/ MutantPasses \/ MutantBreaksRun \/ NoneCorrect
        \/ DeleteMutants \/ NextPosition \/ RankExhausted \/ Return

(* One thread, and no call that blocks: the call goes on while it can.     *)
Spec == Init /\ [][Next]_vars /\ WF_vars(Next)

-----------------------------------------------------------------------------
Locations == {"rank", "mutate", "find", "delete", "found", "exhausted", "done"}

(* Every variable has its type; an operator index stays within its         *)
(* position, a mutant index within its list.                               *)
TypeOK ==
  /\ method \in Methods /\ policy \in Policies /\ pc \in Locations
  /\ pc # "rank" => at \in DOMAIN rank /\ step \in 1 .. Len(StepsAt(rank[at])) + 1
  /\ Range(rank) \subseteq -1 .. policy.rules
  /\ next \in 1 .. Len(mutantList) + 1
  /\ correct \in 0 .. Len(mutantList)
  /\ tries \in 0 .. policy.rules + 2
  /\ outcome.kind \in {"nothing yet", "repair", "null", "exception"}

(* What the ranking asks for: the mutants of every operator of every       *)
(* position.                                                               *)
StepFailed(i, s) == Range(MutantsOf(StepsAt(rank[i])[s])) \subseteq failed
PositionFailed(i) == \A s \in DOMAIN StepsAt(rank[i]) : StepFailed(i, s)

(* The repair is the first correct mutant in the order of the ranking:     *)
(* however lists, operators and positions are nested, nothing that comes   *)
(* before it was skipped (repairBySuspicionRank, find1stCorrectMutant).    *)
FirstInRankOrder ==
  outcome.kind = "repair" =>
    \E i \in DOMAIN rank : \E s \in DOMAIN StepsAt(rank[i]) :
      LET mutants == MutantsOf(StepsAt(rank[i])[s]) IN
      \E k \in DOMAIN mutants :
        /\ outcome.mutant = mutants[k] /\ mutants[k] \notin failed
        /\ \A l \in 1 .. k - 1 : mutants[l] \in failed
        /\ \A t \in 1 .. s - 1 : StepFailed(i, t)
        /\ \A j \in 1 .. i - 1 : PositionFailed(j)

(* null is returned only when every mutant the ranking asks for was made,  *)
(* run and failed.                                                         *)
NullExhaustsRank ==
  outcome.kind = "null" => \A i \in DOMAIN rank : PositionFailed(i)

(* The repair is still on disk when the call returns, and nothing else is, *)
(* although PTT is made twice and a position may be ranked twice.  A call  *)
(* that threw leaves no more than the mutants it was working on.           *)
OnlyRepairKept ==
  pc = "done" =>
    files = CASE outcome.kind = "repair"    -> {outcome.mutant}
              [] outcome.kind = "null"      -> {}
              [] outcome.kind = "exception" -> IF CannotMutate(CurrentStep)
                                               THEN {} ELSE Range(mutantList)

(* After a repair getNumTriesBeforSucceed is the number of positions that  *)
(* were tried in vain, although it is looked up by value in a ranking that *)
(* may list a position twice: the second time nothing is found.            *)
TriesCountPositions ==
  outcome.kind = "repair" => tries = at - 1

(* The call returns, or throws.                                            *)
RepairEnds == <>(pc = "done")

(* "null if cannot be repaired": the mutants of every rule were tried.     *)
EveryRuleMutated ==
  outcome.kind = "null" =>
    \A r \in 1 .. policy.rules, k \in DOMAIN RuleOperators :
      Range(MutantsOf(Apply(RuleOperators[k], r))) \subseteq failed
=============================================================================

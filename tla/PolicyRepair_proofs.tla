------------------------ MODULE PolicyRepair_proofs ------------------------
(***************************************************************************)
(* Proofs about PolicyRepair, for every policy, every number of mutants an *)
(* operator makes, every ranking, and whatever the suite says of a mutant. *)
(***************************************************************************)
EXTENDS PolicyRepair, FiniteSetTheorems, WellFoundedInduction, TLAPS

Applications == [op : Operators, rule : Nat]
Mutants == [op : Operators, rule : Nat, nr : Nat]

(* The inductive invariant, part by part.                                  *)
TypeInv ==
  /\ method \in Methods /\ policy \in Policies /\ pc \in Locations
  /\ rank \in Seq(-1 .. policy.rules) /\ Len(rank) <= policy.rules + 3
  /\ pc = "rank" => rank = <<>> /\ at = 1 /\ step = 1
  /\ pc # "rank" => at \in DOMAIN rank /\ step \in 1 .. Len(StepsAt(rank[at])) + 1
  /\ mutantList \in Seq(Mutants)
  /\ next \in 1 .. Len(mutantList) + 1
  /\ correct \in 0 .. Len(mutantList)
  /\ tries \in 0 .. policy.rules + 2

(* The operator at hand has made mutantList.                               *)
AtHand == pc \in {"find", "delete", "found"}

MutantsInv ==
  AtHand => /\ step \in DOMAIN StepsAt(rank[at]) /\ ~ CannotMutate(CurrentStep)
            /\ mutantList = MutantsOf(CurrentStep)

(* Mutants are on disk only while the operator that made them is tried.    *)
FilesInv ==
  /\ pc \in {"rank", "mutate", "exhausted"} => files = {}
  /\ pc \in {"find", "delete"} => files = Range(mutantList)
  /\ pc = "found" => files = {mutantList[correct]}

(* What the loops have left behind failed, and the mutant found did not.   *)
FailedInv ==
  /\ pc \in {"mutate", "find", "delete", "found", "exhausted"} =>
       /\ \A j \in 1 .. at - 1 : PositionFailed(j)
       /\ \A t \in 1 .. step - 1 : StepFailed(at, t)
  /\ pc = "exhausted" => \A j \in DOMAIN rank : PositionFailed(j)

CorrectInv ==
  /\ pc = "find" => /\ correct = 0
                    /\ \A l \in 1 .. next - 1 : mutantList[l] \in failed
  /\ pc \in {"delete", "found"} =>
       IF correct = 0 THEN pc = "delete" /\ Range(mutantList) \subseteq failed
       ELSE /\ mutantList[correct] \notin failed
            /\ \A l \in 1 .. correct - 1 : mutantList[l] \in failed

DoneInv ==
  /\ pc # "done" => outcome.kind = "nothing yet"
  /\ pc = "done" => /\ outcome.kind \in {"repair", "null", "exception"}
                    /\ FirstInRankOrder /\ NullExhaustsRank
                    /\ OnlyRepairKept /\ TriesCountPositions

IInv == TypeInv /\ MutantsInv /\ FilesInv /\ FailedInv /\ CorrectInv /\ DoneInv

-----------------------------------------------------------------------------
(* The operators of a position, and the mutants of an operator.            *)
LEMMA StepsAtTyped ==
  ASSUME policy \in Policies, NEW p \in -1 .. policy.rules
  PROVE  StepsAt(p) \in Seq(Applications)
<1>1. policy.rules \in Nat \ {0}
  BY PoliciesAssumption
<1>2. {"CRC", "PTT", "FPR", "FDR", "RER"} \subseteq Operators
  BY DEF Operators, PolicyOperators
<1>3. CASE p = -1
  <2>1. StepsAt(p) = <<Apply("CRC", 0)>>
    BY <1>1, <1>3 DEF StepsAt
  <2> QED
    BY <1>2, <2>1 DEF Apply, Applications
<1>4. CASE p = 0
  <2>1. StepsAt(p) = <<Apply("PTT", 0), Apply("PTT", 0), Apply("FPR", 0), Apply("FDR", 0)>>
    BY <1>1, <1>4 DEF StepsAt
  <2>2. Apply("PTT", 0) \in Applications /\ Apply("FPR", 0) \in Applications
        /\ Apply("FDR", 0) \in Applications
    BY <1>2 DEF Apply, Applications
  <2> QED
    BY <2>1, <2>2
<1>5. CASE p = policy.rules
  <2>1. StepsAt(p) = [r \in 1 .. policy.rules |-> Apply("RER", r)]
    BY <1>1, <1>5 DEF StepsAt
  <2>2. \A r \in 1 .. policy.rules : Apply("RER", r) \in Applications
    BY <1>1, <1>2 DEF Apply, Applications
  <2> QED
    BY <1>1, <2>1, <2>2
<1>6. CASE p \in 1 .. policy.rules - 1
  <2>1. StepsAt(p) = [k \in DOMAIN RuleOperators |-> Apply(RuleOperators[k], p)]
    BY <1>1, <1>6 DEF StepsAt
  <2>2. DOMAIN RuleOperators = 1 .. 10
    BY DEF RuleOperators
  <2>3. \A k \in DOMAIN RuleOperators : RuleOperators[k] \in Operators
    BY DEF Operators, Range
  <2>4. \A k \in DOMAIN RuleOperators : Apply(RuleOperators[k], p) \in Applications
    BY <1>6, <2>3 DEF Apply, Applications
  <2> QED
    BY <2>1, <2>2, <2>4
<1> QED
  BY <1>1, <1>3, <1>4, <1>5, <1>6

LEMMA MutantsOfTyped ==
  ASSUME policy \in Policies, NEW a \in Applications
  PROVE  /\ MutantsOf(a) \in Seq(Mutants)
         /\ \A k, l \in DOMAIN MutantsOf(a) : MutantsOf(a)[k] = MutantsOf(a)[l] => k = l
<1>1. a.op \in Operators /\ a.rule \in Nat
  BY DEF Applications
<1>2. policy.yields[a.op] \in Nat
  BY <1>1, PoliciesAssumption
<1> DEFINE m(k) == [op |-> a.op, rule |-> a.rule, nr |-> k]
<1>3. MutantsOf(a) = [k \in 1 .. policy.yields[a.op] |-> m(k)]
  BY DEF MutantsOf
<1>4. \A k \in 1 .. policy.yields[a.op] : m(k) \in Mutants
  BY <1>1, <1>2 DEF Mutants
<1>5. \A k, l : m(k) = m(l) => k = l
  <2> SUFFICES ASSUME NEW k, NEW l, m(k) = m(l) PROVE k = l
    OBVIOUS
  <2>1. m(k).nr = k /\ m(l).nr = l
    OBVIOUS
  <2> HIDE DEF m
  <2> QED
    BY <2>1
<1> HIDE DEF m
<1>6. MutantsOf(a) \in Seq(Mutants)
  BY <1>2, <1>3, <1>4
<1> QED
  BY <1>3, <1>5, <1>6

-----------------------------------------------------------------------------
(* Rankings.                                                               *)
LEMMA OneByOneTyped ==
  ASSUME policy \in Policies
  PROVE  OneByOneRank \in Seq(-1 .. policy.rules) /\ Len(OneByOneRank) = policy.rules + 3
<1>1. policy.rules \in Nat \ {0}
  BY PoliciesAssumption
<1>2. \A i \in 1 .. policy.rules + 3 :
        (IF i = policy.rules + 3 THEN policy.rules ELSE i - 2) \in -1 .. policy.rules
  BY <1>1
<1> QED
  BY <1>1, <1>2 DEF OneByOneRank

LEMMA RandomTyped ==
  ASSUME policy \in Policies, NEW s \in RandomRanks
  PROVE  s \in Seq(-1 .. policy.rules) /\ Len(s) = policy.rules + 3
<1>1. policy.rules \in Nat \ {0}
  BY PoliciesAssumption
<1>2. s \in [1 .. policy.rules + 3 -> -1 .. policy.rules]
  BY DEF RandomRanks
<1> QED
  BY <1>1, <1>2

LEMMA SuspicionTyped ==
  ASSUME policy \in Policies, NEW s \in SuspicionRanks
  PROVE  s \in Seq(-1 .. policy.rules) /\ Len(s) = policy.rules + 2
<1>1. policy.rules \in Nat \ {0}
  BY PoliciesAssumption
<1>2. Cardinality(0 .. policy.rules) = policy.rules + 1
  BY <1>1, FS_Interval
<1>3. PICK t \in [1 .. policy.rules + 1 -> 0 .. policy.rules] : s = <<-1>> \o t
  BY <1>2 DEF SuspicionRanks, SetToSeqs
<1>4. t \in Seq(-1 .. policy.rules) /\ Len(t) = policy.rules + 1
  BY <1>1
<1>5. <<-1>> \in Seq(-1 .. policy.rules) /\ Len(<<-1>>) = 1
  BY <1>1
<1> QED
  BY <1>1, <1>3, <1>4, <1>5

-----------------------------------------------------------------------------
(* What depends on the policy and on the ranking alone stays the same.     *)
LEMMA SamePolicy ==
  ASSUME policy' = policy
  PROVE  /\ \A p : StepsAt(p)' = StepsAt(p)
         /\ \A a : MutantsOf(a)' = MutantsOf(a)
<1>1. ASSUME NEW p PROVE StepsAt(p)' = StepsAt(p)
  BY Zenon DEF StepsAt
<1>2. ASSUME NEW a PROVE MutantsOf(a)' = MutantsOf(a)
  BY DEF MutantsOf
<1> QED
  BY <1>1, <1>2

LEMMA SameStep ==
  ASSUME UNCHANGED <<policy, rank, at, step>>
  PROVE  /\ (StepsAt(rank[at]))' = StepsAt(rank[at])
         /\ CurrentStep' = CurrentStep
         /\ (MutantsOf(CurrentStep))' = MutantsOf(CurrentStep)
         /\ CannotMutate(CurrentStep)' = CannotMutate(CurrentStep)
<1>1. (StepsAt(rank[at]))' = StepsAt(rank[at])
  BY SamePolicy
<1>2. CurrentStep' = CurrentStep
  BY <1>1 DEF CurrentStep
<1>3. (MutantsOf(CurrentStep))' = MutantsOf(CurrentStep)
  BY <1>2, SamePolicy
<1> QED
  BY <1>1, <1>2, <1>3 DEF CannotMutate

(* What failed stays failed.                                               *)
LEMMA StaysFailed ==
  ASSUME UNCHANGED <<policy, rank>>, failed \subseteq failed'
  PROVE  /\ \A i, t : StepFailed(i, t) => StepFailed(i, t)'
         /\ \A i : PositionFailed(i) => PositionFailed(i)'
<1>1. \A i : StepsAt(rank[i])' = StepsAt(rank[i])
  BY SamePolicy
<1>2. \A i, t : MutantsOf(StepsAt(rank[i])[t])' = MutantsOf(StepsAt(rank[i])[t])
  BY <1>1, SamePolicy
<1>3. \A i, t : StepFailed(i, t) => StepFailed(i, t)'
  BY <1>2 DEF StepFailed
<1> QED
  BY <1>1, <1>3 DEF PositionFailed

LEMMA InRank ==
  ASSUME NEW S, NEW s \in Seq(S), NEW i \in DOMAIN s
  PROVE  s[i] \in S
<1> QED
  OBVIOUS

(* Where the call is in its loops.                                         *)
LEMMA Placed ==
  ASSUME TypeInv, pc # "rank"
  PROVE  /\ policy \in Policies /\ policy.rules \in Nat \ {0}
         /\ Len(rank) \in Nat /\ DOMAIN rank = 1 .. Len(rank) /\ at \in 1 .. Len(rank)
         /\ rank[at] \in -1 .. policy.rules
         /\ StepsAt(rank[at]) \in Seq(Applications)
         /\ Len(StepsAt(rank[at])) \in Nat
         /\ DOMAIN StepsAt(rank[at]) = 1 .. Len(StepsAt(rank[at]))
         /\ step \in 1 .. Len(StepsAt(rank[at])) + 1
<1>1. policy \in Policies /\ policy.rules \in Nat \ {0}
  BY PoliciesAssumption DEF TypeInv
<1>2. /\ rank \in Seq(-1 .. policy.rules) /\ at \in DOMAIN rank
      /\ step \in 1 .. Len(StepsAt(rank[at])) + 1
  BY DEF TypeInv
<1>3. rank[at] \in -1 .. policy.rules
  BY <1>2, InRank
<1>4. StepsAt(rank[at]) \in Seq(Applications)
  BY <1>1, <1>3, StepsAtTyped
<1> HIDE DEF TypeInv
<1> QED
  BY <1>1, <1>2, <1>3, <1>4

(* The operator at hand, and what it makes.                                *)
LEMMA CurrentTyped ==
  ASSUME TypeInv, pc # "rank", step <= Len(StepsAt(rank[at]))
  PROVE  /\ step \in DOMAIN StepsAt(rank[at])
         /\ MutantsOf(CurrentStep) \in Seq(Mutants)
         /\ \A k, l \in DOMAIN MutantsOf(CurrentStep) :
              MutantsOf(CurrentStep)[k] = MutantsOf(CurrentStep)[l] => k = l
<1>1. step \in DOMAIN StepsAt(rank[at])
  BY Placed
<1>2. CurrentStep \in Applications
  BY <1>1, Placed DEF CurrentStep
<1> QED
  BY <1>1, <1>2, Placed, MutantsOfTyped

-----------------------------------------------------------------------------
LEMMA InitInv == Init => IInv
<1> SUFFICES ASSUME Init PROVE IInv
  OBVIOUS
<1>1. /\ method \in Methods /\ policy \in Policies /\ pc = "rank" /\ rank = <<>>
      /\ at = 1 /\ step = 1
      /\ mutantList = <<>> /\ next = 1 /\ correct = 0 /\ files = {} /\ tries = 0
  BY DEF Init
<1>2. outcome.kind = "nothing yet"
  BY DEF Init, Returned
<1>3. policy.rules \in Nat \ {0}
  BY <1>1, PoliciesAssumption
<1>4. rank \in Seq(-1 .. policy.rules) /\ Len(rank) = 0
  BY <1>1
<1>5. mutantList \in Seq(Mutants) /\ Len(mutantList) = 0
  BY <1>1
<1>6. TypeInv
  BY <1>1, <1>3, <1>4, <1>5 DEF TypeInv, Locations
<1> QED
  BY <1>1, <1>2, <1>6 DEF IInv, MutantsInv, AtHand, FilesInv, FailedInv, CorrectInv, DoneInv

LEMMA MakeRankInv == IInv /\ MakeRank => IInv'
<1> SUFFICES ASSUME IInv, MakeRank PROVE IInv'
  OBVIOUS
<1>1. /\ pc = "rank" /\ pc' = "mutate"
      /\ UNCHANGED <<method, policy, at, step, mutantList, next, correct, files, failed, tries, outcome>>
  BY DEF MakeRank
<1>2. rank' \in SuspicionRanks \/ rank' \in RandomRanks \/ rank' = OneByOneRank
  <2>1. method \in {"smartly", "random order", "one by one"}
    BY MethodsAssumption DEF IInv, TypeInv
  <2>2. rank' \in (CASE method = "smartly"      -> SuspicionRanks
                     [] method = "random order" -> RandomRanks
                     [] method = "one by one"   -> {OneByOneRank})
    BY DEF MakeRank
  <2> QED
    BY <2>1, <2>2
<1>3. policy \in Policies /\ policy.rules \in Nat \ {0}
  BY PoliciesAssumption DEF IInv, TypeInv
<1>4. /\ rank' \in Seq(-1 .. policy.rules)
      /\ Len(rank') <= policy.rules + 3 /\ Len(rank') \in Nat \ {0}
  BY <1>2, <1>3, SuspicionTyped, RandomTyped, OneByOneTyped
<1>5. at = 1 /\ step = 1
  BY <1>1 DEF IInv, TypeInv
<1>6. at' \in DOMAIN rank' /\ rank'[at'] \in -1 .. policy.rules
  <2>1. 1 \in DOMAIN rank'
    BY <1>4
  <2> QED
    BY <1>1, <1>4, <1>5, <2>1, InRank
<1>7. Len(StepsAt(rank[at])') \in Nat
  <2>1. StepsAt(rank'[at']) \in Seq(Applications)
    BY <1>3, <1>6, StepsAtTyped
  <2>2. StepsAt(rank[at])' = StepsAt(rank'[at'])
    BY <1>1, SamePolicy
  <2> QED
    BY <2>1, <2>2
<1>8. TypeInv'
  BY <1>1, <1>4, <1>5, <1>6, <1>7 DEF IInv, TypeInv, Locations
<1>9. MutantsInv' /\ CorrectInv' /\ FilesInv' /\ DoneInv'
  BY <1>1 DEF IInv, MutantsInv, AtHand, CorrectInv, FilesInv, DoneInv
<1>10. FailedInv'
  BY <1>1, <1>5 DEF FailedInv
<1> QED
  BY <1>8, <1>9, <1>10 DEF IInv

LEMMA MakeMutantsInv == IInv /\ MakeMutants => IInv'
<1> SUFFICES ASSUME IInv, MakeMutants PROVE IInv'
  OBVIOUS
<1>1. /\ pc = "mutate" /\ pc' = "find" /\ step <= Len(StepsAt(rank[at]))
      /\ ~ CannotMutate(CurrentStep)
      /\ mutantList' = MutantsOf(CurrentStep)
      /\ files' = files \cup Range(mutantList')
      /\ next' = 1 /\ correct' = 0
      /\ UNCHANGED <<method, policy, rank, at, step, failed, tries, outcome>>
  BY DEF MakeMutants
<1>2. TypeInv /\ step \in DOMAIN StepsAt(rank[at]) /\ mutantList' \in Seq(Mutants)
  BY <1>1, CurrentTyped DEF IInv
<1>3. TypeInv'
  <2>1. Len(mutantList') \in Nat
    BY <1>2
  <2> QED
    BY <1>1, <1>2, <2>1, SameStep DEF TypeInv, Locations
<1>4. MutantsInv'
  BY <1>1, <1>2, SameStep DEF MutantsInv
<1>5. FilesInv'
  <2>1. files' = Range(mutantList)'
    BY <1>1 DEF IInv, FilesInv, Range
  <2> QED
    BY <1>1, <2>1 DEF FilesInv
<1>6. CorrectInv'
  BY <1>1 DEF CorrectInv
<1>7. DoneInv'
  BY <1>1 DEF IInv, DoneInv
<1>8. FailedInv'
  BY <1>1, StaysFailed DEF IInv, FailedInv
<1> QED
  BY <1>3, <1>4, <1>5, <1>6, <1>7, <1>8 DEF IInv

LEMMA MakeNoneInv == IInv /\ MakeNone => IInv'
<1> SUFFICES ASSUME IInv, MakeNone PROVE IInv'
  OBVIOUS
<1>1. /\ pc = "mutate" /\ pc' = "done" /\ CannotMutate(CurrentStep)
      /\ UNCHANGED <<method, policy, rank, at, step, mutantList, next, correct, files, failed, tries>>
  BY DEF MakeNone, Throw
<1>2. outcome'.kind = "exception"
  BY DEF MakeNone, Throw, Returned
<1>3. TypeInv'
  BY <1>1, SameStep DEF IInv, TypeInv, Locations
<1>4. MutantsInv' /\ FilesInv' /\ CorrectInv' /\ FailedInv'
  BY <1>1 DEF MutantsInv, AtHand, FilesInv, CorrectInv, FailedInv
<1>5. OnlyRepairKept'
  BY <1>1, <1>2, SameStep DEF IInv, FilesInv, OnlyRepairKept
<1>6. DoneInv'
  BY <1>1, <1>2, <1>5 DEF DoneInv, FirstInRankOrder, NullExhaustsRank, TriesCountPositions
<1> QED
  BY <1>3, <1>4, <1>6 DEF IInv

LEMMA MutantFailsInv == IInv /\ MutantFails => IInv'
<1> SUFFICES ASSUME IInv, MutantFails PROVE IInv'
  OBVIOUS
<1>1. /\ pc = "find" /\ pc' = "find" /\ next <= Len(mutantList)
      /\ failed' = failed \cup {mutantList[next]}
      /\ next' = next + 1
      /\ UNCHANGED <<method, policy, rank, at, step, mutantList, correct, files, tries, outcome>>
  BY DEF MutantFails
<1>2. TypeInv /\ next \in Nat /\ Len(mutantList) \in Nat
  BY DEF IInv, TypeInv
<1>3. TypeInv'
  <2>1. next' \in 1 .. Len(mutantList) + 1
    BY <1>1, <1>2 DEF TypeInv
  <2> QED
    BY <1>1, <1>2, <2>1, SameStep DEF TypeInv, Locations
<1>4. MutantsInv'
  BY <1>1, SameStep DEF IInv, MutantsInv, AtHand
<1>5. FilesInv' /\ DoneInv'
  BY <1>1 DEF IInv, FilesInv, DoneInv
<1>6. FailedInv'
  BY <1>1, StaysFailed DEF IInv, FailedInv
<1>7. CorrectInv'
  <2>1. \A l \in 1 .. next' - 1 : l \in 1 .. next - 1 \/ l = next
    BY <1>1, <1>2
  <2> QED
    BY <1>1, <2>1 DEF IInv, CorrectInv
<1> QED
  BY <1>3, <1>4, <1>5, <1>6, <1>7 DEF IInv

LEMMA MutantPassesInv == IInv /\ MutantPasses => IInv'
<1> SUFFICES ASSUME IInv, MutantPasses PROVE IInv'
  OBVIOUS
<1>1. /\ pc = "find" /\ pc' = "delete" /\ next <= Len(mutantList)
      /\ mutantList[next] \notin failed /\ correct' = next
      /\ UNCHANGED <<method, policy, rank, at, step, mutantList, next, files, failed, tries, outcome>>
  BY DEF MutantPasses
<1>2. TypeInv /\ next \in Nat \ {0} /\ Len(mutantList) \in Nat
  BY DEF IInv, TypeInv
<1>3. TypeInv'
  <2>1. correct' \in 0 .. Len(mutantList)
    BY <1>1, <1>2
  <2> QED
    BY <1>1, <1>2, <2>1, SameStep DEF TypeInv, Locations
<1>4. MutantsInv'
  BY <1>1, SameStep DEF IInv, MutantsInv, AtHand
<1>5. FilesInv' /\ DoneInv'
  BY <1>1 DEF IInv, FilesInv, DoneInv
<1>6. FailedInv'
  BY <1>1, StaysFailed DEF IInv, FailedInv
<1>7. CorrectInv'
  BY <1>1, <1>2 DEF IInv, CorrectInv
<1> QED
  BY <1>3, <1>4, <1>5, <1>6, <1>7 DEF IInv

LEMMA MutantBreaksRunInv == IInv /\ MutantBreaksRun => IInv'
<1> SUFFICES ASSUME IInv, MutantBreaksRun PROVE IInv'
  OBVIOUS
<1>1. /\ pc = "find" /\ pc' = "done"
      /\ UNCHANGED <<method, policy, rank, at, step, mutantList, next, correct, files, failed, tries>>
  BY DEF MutantBreaksRun, Throw
<1>2. outcome'.kind = "exception"
  BY DEF MutantBreaksRun, Throw, Returned
<1>3. TypeInv'
  BY <1>1, SameStep DEF IInv, TypeInv, Locations
<1>4. MutantsInv' /\ FilesInv' /\ CorrectInv' /\ FailedInv'
  BY <1>1 DEF MutantsInv, AtHand, FilesInv, CorrectInv, FailedInv
<1>5. OnlyRepairKept'
  <2>1. files' = Range(mutantList') /\ ~ CannotMutate(CurrentStep)'
    BY <1>1, SameStep DEF IInv, FilesInv, MutantsInv, AtHand
  <2> QED
    BY <1>2, <2>1 DEF OnlyRepairKept
<1>6. DoneInv'
  BY <1>1, <1>2, <1>5 DEF DoneInv, FirstInRankOrder, NullExhaustsRank, TriesCountPositions
<1> QED
  BY <1>3, <1>4, <1>6 DEF IInv

LEMMA NoneCorrectInv == IInv /\ NoneCorrect => IInv'
<1> SUFFICES ASSUME IInv, NoneCorrect PROVE IInv'
  OBVIOUS
<1>1. /\ pc = "find" /\ pc' = "delete" /\ next > Len(mutantList)
      /\ UNCHANGED <<method, policy, rank, at, step, mutantList, next, correct, files, failed, tries, outcome>>
  BY DEF NoneCorrect
<1>2. /\ TypeInv /\ next \in Nat /\ Len(mutantList) \in Nat
      /\ DOMAIN mutantList = 1 .. Len(mutantList)
  BY DEF IInv, TypeInv
<1>3. TypeInv'
  BY <1>1, <1>2, SameStep DEF TypeInv, Locations
<1>4. MutantsInv'
  BY <1>1, SameStep DEF IInv, MutantsInv, AtHand
<1>5. FilesInv' /\ DoneInv'
  BY <1>1 DEF IInv, FilesInv, DoneInv
<1>6. FailedInv'
  BY <1>1, StaysFailed DEF IInv, FailedInv
<1>7. CorrectInv'
  <2>1. Range(mutantList) \subseteq failed
    BY <1>1, <1>2 DEF IInv, CorrectInv, Range
  <2>2. Range(mutantList)' = Range(mutantList)
    BY <1>1 DEF Range
  <2> QED
    BY <1>1, <2>1, <2>2 DEF IInv, CorrectInv
<1> QED
  BY <1>3, <1>4, <1>5, <1>6, <1>7 DEF IInv

LEMMA DeleteMutantsInv == IInv /\ DeleteMutants => IInv'
<1> SUFFICES ASSUME IInv, DeleteMutants PROVE IInv'
  OBVIOUS
<1>1. /\ pc = "delete" /\ files' = KeptFiles
      /\ pc' = IF correct # 0 THEN "found" ELSE "mutate"
      /\ step' = IF correct # 0 THEN step ELSE step + 1
      /\ UNCHANGED <<method, policy, rank, at, mutantList, next, correct, failed, tries, outcome>>
  BY DEF DeleteMutants
<1>2. /\ TypeInv /\ step \in DOMAIN StepsAt(rank[at]) /\ ~ CannotMutate(CurrentStep)
      /\ mutantList = MutantsOf(CurrentStep) /\ files = Range(mutantList)
  BY <1>1 DEF IInv, MutantsInv, AtHand, FilesInv
<1>3. /\ Len(StepsAt(rank[at])) \in Nat /\ step \in 1 .. Len(StepsAt(rank[at]))
      /\ correct \in 0 .. Len(mutantList) /\ DOMAIN mutantList = 1 .. Len(mutantList)
  BY <1>1, <1>2, Placed DEF TypeInv
<1>4. (StepsAt(rank[at]))' = StepsAt(rank[at])
  BY <1>1, SamePolicy
<1>5. TypeInv'
  <2>1. step' \in 1 .. Len(StepsAt(rank[at])) + 1
    BY <1>1, <1>3
  <2> QED
    BY <1>1, <1>2, <1>4, <2>1 DEF TypeInv, Locations
<1>6. MutantsInv'
  BY <1>1, <1>2, SameStep DEF MutantsInv, AtHand
<1>7. FilesInv'
  <2>1. KeptFiles = Range(mutantList) \ {mutantList[k] : k \in DOMAIN mutantList \ {correct}}
    BY <1>2 DEF KeptFiles
  <2>2. CASE correct = 0
    BY <1>1, <1>3, <2>1, <2>2 DEF FilesInv, Range
  <2>3. CASE correct # 0
    <3>1. \A k, l \in DOMAIN mutantList : mutantList[k] = mutantList[l] => k = l
      BY <1>1, <1>2, <1>3, CurrentTyped
    <3>2. correct \in DOMAIN mutantList
      BY <1>3, <2>3
    <3>3. KeptFiles = {mutantList[correct]}
      BY <2>1, <3>1, <3>2 DEF Range
    <3> QED
      BY <1>1, <2>3, <3>3 DEF FilesInv
  <2> QED
    BY <2>2, <2>3
<1>8. CorrectInv'
  BY <1>1 DEF IInv, CorrectInv
<1>9. FailedInv'
  <2>1. \A j \in 1 .. at - 1 : PositionFailed(j)'
    BY <1>1, StaysFailed DEF IInv, FailedInv
  <2>2. \A t \in 1 .. step - 1 : StepFailed(at, t)'
    BY <1>1, StaysFailed DEF IInv, FailedInv
  <2>3. \A t \in 1 .. step : correct = 0 => StepFailed(at, t)'
    <3>1. correct = 0 => StepFailed(at, step)
      BY <1>1, <1>2 DEF IInv, CorrectInv, StepFailed, CurrentStep
    <3>2. \A t \in 1 .. step : correct = 0 => StepFailed(at, t)
      <4>1. \A t \in 1 .. step : t \in 1 .. step - 1 \/ t = step
        BY <1>3
      <4> QED
        BY <1>1, <3>1, <4>1 DEF IInv, FailedInv
    <3> QED
      BY <1>1, <3>2, StaysFailed
  <2>4. CASE correct = 0
    <3>1. step' - 1 = step
      BY <1>1, <1>3, <2>4
    <3> QED
      BY <1>1, <2>1, <2>3, <2>4, <3>1 DEF FailedInv
  <2>5. CASE correct # 0
    BY <1>1, <2>1, <2>2, <2>5 DEF FailedInv
  <2> QED
    BY <2>4, <2>5
<1>10. DoneInv'
  BY <1>1 DEF IInv, DoneInv
<1> QED
  BY <1>5, <1>6, <1>7, <1>8, <1>9, <1>10 DEF IInv

LEMMA PositionDone ==
  ASSUME IInv, pc = "mutate", step > Len(StepsAt(rank[at]))
  PROVE  \A j \in 1 .. at : PositionFailed(j)
<1>1. /\ at \in Nat \ {0} /\ step \in Nat /\ Len(StepsAt(rank[at])) \in Nat
      /\ DOMAIN StepsAt(rank[at]) = 1 .. Len(StepsAt(rank[at]))
  BY Placed DEF IInv
<1>2. PositionFailed(at)
  <2>1. \A t \in DOMAIN StepsAt(rank[at]) : t \in 1 .. step - 1
    BY <1>1
  <2> QED
    BY <2>1 DEF IInv, FailedInv, PositionFailed
<1>3. \A j \in 1 .. at : j \in 1 .. at - 1 \/ j = at
  BY <1>1
<1> QED
  BY <1>2, <1>3 DEF IInv, FailedInv

LEMMA NextPositionInv == IInv /\ NextPosition => IInv'
<1> SUFFICES ASSUME IInv, NextPosition PROVE IInv'
  OBVIOUS
<1>1. /\ pc = "mutate" /\ pc' = "mutate" /\ step > Len(StepsAt(rank[at])) /\ at < Len(rank)
      /\ at' = at + 1 /\ step' = 1
      /\ UNCHANGED <<method, policy, rank, mutantList, next, correct, files, failed, tries, outcome>>
  BY DEF NextPosition
<1>2. /\ TypeInv /\ policy \in Policies /\ at \in Nat \ {0} /\ Len(rank) \in Nat
      /\ DOMAIN rank = 1 .. Len(rank)
  BY <1>1, Placed DEF IInv
<1>3. TypeInv'
  <2>1. at' \in DOMAIN rank
    BY <1>1, <1>2
  <2>2. rank[at'] \in -1 .. policy.rules
    BY <1>2, <2>1, InRank DEF TypeInv
  <2>3. Len(StepsAt(rank[at'])) \in Nat
    BY <1>2, <2>2, StepsAtTyped
  <2>4. StepsAt(rank[at])' = StepsAt(rank[at'])
    BY <1>1, SamePolicy
  <2>5. step' \in 1 .. Len(StepsAt(rank[at]))' + 1
    BY <1>1, <2>3, <2>4
  <2> QED
    BY <1>1, <1>2, <2>1, <2>5 DEF TypeInv, Locations
<1>4. MutantsInv' /\ FilesInv' /\ CorrectInv' /\ DoneInv'
  BY <1>1 DEF IInv, MutantsInv, AtHand, FilesInv, CorrectInv, DoneInv
<1>5. FailedInv'
  <2>1. \A j \in 1 .. at : PositionFailed(j)'
    BY <1>1, PositionDone, StaysFailed
  <2>2. at' - 1 = at
    BY <1>1, <1>2
  <2> QED
    BY <1>1, <2>1, <2>2 DEF FailedInv
<1> QED
  BY <1>3, <1>4, <1>5 DEF IInv

LEMMA RankExhaustedInv == IInv /\ RankExhausted => IInv'
<1> SUFFICES ASSUME IInv, RankExhausted PROVE IInv'
  OBVIOUS
<1>1. /\ pc = "mutate" /\ pc' = "exhausted" /\ step > Len(StepsAt(rank[at])) /\ at = Len(rank)
      /\ UNCHANGED <<method, policy, rank, at, step, mutantList, next, correct, files, failed, tries, outcome>>
  BY DEF RankExhausted
<1>2. TypeInv'
  BY <1>1, SameStep DEF IInv, TypeInv, Locations
<1>3. MutantsInv' /\ FilesInv' /\ CorrectInv' /\ DoneInv'
  BY <1>1 DEF IInv, MutantsInv, AtHand, FilesInv, CorrectInv, DoneInv
<1>4. FailedInv'
  <2>1. \A j \in DOMAIN rank : j \in 1 .. at
    BY <1>1, Placed DEF IInv
  <2>2. \A j \in DOMAIN rank : PositionFailed(j)'
    BY <1>1, <2>1, PositionDone, StaysFailed
  <2> QED
    BY <1>1, <2>2, StaysFailed DEF IInv, FailedInv
<1> QED
  BY <1>2, <1>3, <1>4 DEF IInv

(* indexOf answers the first index of a position that is ranked.           *)
LEMMA IndexOfFirst ==
  ASSUME NEW i \in DOMAIN rank, rank \in Seq(-1 .. policy.rules)
  PROVE  /\ IndexOf(rank[i]) \in 0 .. Len(rank) - 1
         /\ rank[IndexOf(rank[i]) + 1] = rank[i]
         /\ \A j \in 1 .. IndexOf(rank[i]) : rank[j] # rank[i]
<1> DEFINE I == {j \in 1 .. Len(rank) : rank[j] = rank[i]}
<1>1. Len(rank) \in Nat /\ i \in I
  OBVIOUS
<1>2. \E m \in I : \A k \in I : m <= k
  <2>1. I \subseteq Nat /\ I # {}
    BY <1>1
  <2> DEFINE R == OpToRel(<, Nat)
  <2>2. IsWellFoundedOn(R, Nat)
    BY NatLessThanWellFounded
  <2>3. \A x, y \in Nat : x < y => <<x, y>> \in R
    BY DEF OpToRel
  <2> HIDE DEF R, I
  <2>4. PICK m \in I : \A k \in I : <<k, m>> \notin R
    BY <2>1, <2>2, WFMin
  <2>5. ASSUME NEW k \in I PROVE m <= k
    <3>1. m \in Nat /\ k \in Nat
      BY <2>1
    <3>2. ~ (k < m)
      BY <2>3, <2>4, <3>1
    <3> QED
      BY <3>1, <3>2
  <2> QED
    BY <2>5
<1>3. IndexOf(rank[i]) = Min(I) - 1
  BY <1>1 DEF IndexOf, SelectInSeq
<1>4. Min(I) \in I /\ \A k \in I : Min(I) <= k
  <2> HIDE DEF I
  <2> QED
    BY <1>2 DEF Min
<1> DEFINE m == Min(I)
<1>5. m \in 1 .. Len(rank) /\ rank[m] = rank[i]
  BY <1>4
<1>6. \A j \in 1 .. Len(rank) : rank[j] = rank[i] => m <= j
  BY <1>4
<1> HIDE DEF m, I
<1> QED
  BY <1>1, <1>3, <1>5, <1>6 DEF m

LEMMA ReturnInv == IInv /\ Return => IInv'
<1> SUFFICES ASSUME IInv, Return PROVE IInv'
  OBVIOUS
<1>1. /\ pc \in {"found", "exhausted"} /\ pc' = "done"
      /\ tries' = IndexOf(rank[at])
      /\ outcome' = IF pc = "found" THEN Returned("repair", mutantList[correct])
                                    ELSE Returned("null", NoMutant)
      /\ UNCHANGED <<method, policy, rank, at, step, mutantList, next, correct, files, failed>>
  BY DEF Return
<1>2. /\ TypeInv /\ policy.rules \in Nat /\ at \in 1 .. Len(rank) /\ at \in DOMAIN rank
      /\ Len(rank) \in Nat /\ Len(rank) <= policy.rules + 3
      /\ rank \in Seq(-1 .. policy.rules)
  BY <1>1, Placed DEF IInv, TypeInv
<1>3. /\ tries' \in 0 .. Len(rank) - 1 /\ rank[tries' + 1] = rank[at]
      /\ \A j \in 1 .. tries' : rank[j] # rank[at]
  BY <1>1, <1>2, IndexOfFirst
<1>4. TypeInv'
  <2>1. tries' \in 0 .. policy.rules + 2
    BY <1>2, <1>3
  <2> QED
    BY <1>1, <1>2, <2>1, SameStep DEF TypeInv, Locations
<1>5. MutantsInv' /\ FilesInv' /\ CorrectInv' /\ FailedInv'
  BY <1>1 DEF MutantsInv, AtHand, FilesInv, CorrectInv, FailedInv
<1>6. CASE pc = "exhausted"
  <2>1. outcome'.kind = "null"
    BY <1>1, <1>6 DEF Returned
  <2>2. files' = {}
    BY <1>1, <1>6 DEF IInv, FilesInv
  <2>3. OnlyRepairKept'
    BY <2>1, <2>2 DEF OnlyRepairKept
  <2>4. NullExhaustsRank'
    BY <1>1, <1>6, StaysFailed DEF IInv, FailedInv, NullExhaustsRank
  <2>5. DoneInv'
    BY <1>1, <2>1, <2>3, <2>4 DEF DoneInv, FirstInRankOrder, TriesCountPositions
  <2> QED
    BY <1>4, <1>5, <2>5 DEF IInv
<1>7. CASE pc = "found"
  <2>1. outcome'.kind = "repair" /\ outcome'.mutant = mutantList[correct]
    BY <1>1, <1>7 DEF Returned
  <2>2. /\ correct \in DOMAIN mutantList /\ mutantList[correct] \notin failed
        /\ \A l \in 1 .. correct - 1 : mutantList[l] \in failed
        /\ step \in DOMAIN StepsAt(rank[at]) /\ mutantList = MutantsOf(CurrentStep)
        /\ files = {mutantList[correct]}
    BY <1>2, <1>7 DEF IInv, TypeInv, CorrectInv, MutantsInv, AtHand, FilesInv
  <2>3. OnlyRepairKept'
    BY <1>1, <2>1, <2>2 DEF OnlyRepairKept
  <2>4. FirstInRankOrder'
    <3>1. /\ (StepsAt(rank[at]))' = StepsAt(rank[at])
          /\ (MutantsOf(StepsAt(rank[at])[step]))' = mutantList
      BY <1>1, <2>2, SameStep DEF CurrentStep
    <3>2. /\ \A t \in 1 .. step - 1 : StepFailed(at, t)'
          /\ \A j \in 1 .. at - 1 : PositionFailed(j)'
      BY <1>1, <1>7, StaysFailed DEF IInv, FailedInv
    <3> QED
      BY <1>1, <1>2, <2>1, <2>2, <3>1, <3>2 DEF FirstInRankOrder
  <2>5. tries' = at - 1
    <3>1. tries' \in Nat /\ at \in Nat /\ ~ (tries' >= at)
      BY <1>2, <1>3
    <3>2. \A j \in 1 .. at - 1 : rank[j] # rank[at]
      <4>1. \A j \in 1 .. at - 1 : PositionFailed(j)
        BY <1>7 DEF IInv, FailedInv
      <4>2. ~ StepFailed(at, step)
        BY <2>2 DEF StepFailed, CurrentStep, Range
      <4>3. ~ PositionFailed(at)
        BY <2>2, <4>2 DEF PositionFailed
      <4>4. ASSUME NEW j, rank[j] = rank[at], PositionFailed(j) PROVE PositionFailed(at)
        BY <4>4 DEF PositionFailed, StepFailed
      <4> QED
        BY <4>1, <4>3, <4>4
    <3>3. tries' + 1 \notin 1 .. at - 1
      BY <1>3, <3>2
    <3>4. \A m, n \in Nat : ~ (m >= n) /\ m + 1 \notin 1 .. n - 1 => m = n - 1
      OBVIOUS
    <3> QED
      BY <3>1, <3>3, <3>4
  <2>6. DoneInv'
    BY <1>1, <2>1, <2>3, <2>4, <2>5 DEF DoneInv, NullExhaustsRank, TriesCountPositions
  <2> QED
    BY <1>4, <1>5, <2>6 DEF IInv
<1> QED
  BY <1>1, <1>6, <1>7

LEMMA StutterInv == IInv /\ UNCHANGED vars => IInv'
<1> SUFFICES ASSUME IInv, UNCHANGED vars PROVE IInv'
  OBVIOUS
<1>1. UNCHANGED <<method, policy, pc, rank, at, step, mutantList, next, correct,
                  files, failed, tries, outcome>>
  BY DEF vars
<1>2. TypeInv'
  BY <1>1, SameStep DEF IInv, TypeInv
<1>3. MutantsInv' /\ CorrectInv'
  BY <1>1, SameStep DEF IInv, MutantsInv, AtHand, CorrectInv, Range
<1>4. FilesInv'
  BY <1>1 DEF IInv, FilesInv, Range
<1>5. FailedInv'
  BY <1>1, StaysFailed DEF IInv, FailedInv
<1>6. DoneInv'
  <2>1. \A i : StepsAt(rank[i])' = StepsAt(rank[i])
    BY <1>1, SamePolicy
  <2>2. \A i, t : (MutantsOf(StepsAt(rank[i])[t]))' = MutantsOf(StepsAt(rank[i])[t])
    BY <2>1, <1>1, SamePolicy
  <2>3. FirstInRankOrder => FirstInRankOrder'
    BY <1>1, <2>1, <2>2, StaysFailed DEF FirstInRankOrder
  <2>4. NullExhaustsRank => NullExhaustsRank'
    BY <1>1, StaysFailed DEF NullExhaustsRank
  <2>5. OnlyRepairKept => OnlyRepairKept'
    BY <1>1, SameStep DEF OnlyRepairKept, Range
  <2> QED
    BY <1>1, <2>3, <2>4, <2>5 DEF IInv, DoneInv, TriesCountPositions
<1> QED
  BY <1>2, <1>3, <1>4, <1>5, <1>6 DEF IInv

-----------------------------------------------------------------------------
(* The inductive invariant holds throughout.                               *)
THEOREM Invariance == Spec => []IInv
<1>1. IInv /\ [Next]_vars => IInv'
  BY MakeRankInv, MakeMutantsInv, MakeNoneInv, MutantFailsInv, MutantPassesInv,
     MutantBreaksRunInv, NoneCorrectInv, DeleteMutantsInv, NextPositionInv,
     RankExhaustedInv, ReturnInv, StutterInv DEF Next
<1> QED
  BY <1>1, InitInv, PTL DEF Spec

(* Every variable keeps its type, and every index stays within the list it *)
(* runs through (PolicyRepairer.repairBySuspicionRank).                    *)
THEOREM TypeCorrect == Spec => []TypeOK
<1>1. IInv => TypeOK
  <2> SUFFICES ASSUME IInv PROVE TypeOK
    OBVIOUS
  <2>1. outcome.kind \in {"nothing yet", "repair", "null", "exception"}
    BY DEF IInv, DoneInv
  <2>2. Range(rank) \subseteq -1 .. policy.rules
    <3>1. rank \in Seq(-1 .. policy.rules)
      BY DEF IInv, TypeInv
    <3> QED
      BY <3>1, InRank DEF Range
  <2> QED
    BY <2>1, <2>2 DEF IInv, TypeInv, TypeOK
<1> QED
  BY <1>1, Invariance, PTL

(* A repair is the first correct mutant in the order of the ranking, for   *)
(* every policy and every ranking (find1stCorrectMutant).                  *)
THEOREM FirstIsReturned == Spec => []FirstInRankOrder
<1>1. IInv => FirstInRankOrder
  BY DEF IInv, DoneInv, FirstInRankOrder
<1> QED
  BY <1>1, Invariance, PTL

(* null means that every mutant the ranking asks for failed                *)
(* (repairBySuspicionRank).                                                *)
THEOREM NullIsHonest == Spec => []NullExhaustsRank
<1>1. IInv => NullExhaustsRank
  BY DEF IInv, DoneInv, NullExhaustsRank
<1> QED
  BY <1>1, Invariance, PTL

(* A call leaves the repair on disk and nothing else (deleteMutantFile).   *)
THEOREM OnlyTheRepairStays == Spec => []OnlyRepairKept
<1>1. IInv => OnlyRepairKept
  BY DEF IInv, DoneInv, OnlyRepairKept
<1> QED
  BY <1>1, Invariance, PTL

(* After a repair indexOf finds the position at which it was found, though *)
(* a position may be ranked twice (getNumTriesBeforSucceed).               *)
THEOREM TriesAreExact == Spec => []TriesCountPositions
<1>1. IInv => TriesCountPositions
  BY DEF IInv, DoneInv, TriesCountPositions
<1> QED
  BY <1>1, Invariance, PTL

-----------------------------------------------------------------------------
(* What is left of the three nested loops: positions of the ranking,       *)
(* operators of the position (two stages each), mutants of the operator.   *)
PositionsLeft ==
  CASE pc = "rank" -> policy.rules + 6
    [] pc \in {"mutate", "find", "delete"} -> Len(rank) - at + 2
    [] pc \in {"found", "exhausted"} -> 1
    [] pc = "done" -> 0

OperatorsLeft ==
  IF pc = "rank" THEN 0
  ELSE 2 * (Len(StepsAt(rank[at])) + 1 - step) + (IF pc = "mutate" THEN 1 ELSE 0)

MutantsLeft == IF pc = "find" THEN Len(mutantList) + 2 - next ELSE 0

Left == <<PositionsLeft, <<OperatorsLeft, MutantsLeft>>>>

(* The order of what is left, outer loops first.                           *)
NatLess == OpToRel(<, Nat)
Nearer == LexPairOrdering(NatLess, LexPairOrdering(NatLess, NatLess, Nat, Nat), Nat, Nat \X Nat)

ComesNearer == <<Left', Left>> \in Nearer

(* No sequence of steps can come nearer for ever.                          *)
LEMMA NearerWellFounded == IsWellFoundedOn(Nearer, Nat \X (Nat \X Nat))
<1>1. IsWellFoundedOn(NatLess, Nat)
  BY NatLessThanWellFounded DEF NatLess
<1>2. IsWellFoundedOn(LexPairOrdering(NatLess, NatLess, Nat, Nat), Nat \X Nat)
  BY <1>1, WFLexPairOrdering
<1> QED
  BY <1>1, <1>2, WFLexPairOrdering DEF Nearer

LEMMA NearerIs ==
  ASSUME NEW a \in Nat, NEW b \in Nat, NEW c \in Nat, NEW x \in Nat, NEW y \in Nat, NEW z \in Nat,
         a < x \/ (a = x /\ b < y) \/ (a = x /\ b = y /\ c < z)
  PROVE  <<<<a, <<b, c>>>>, <<x, <<y, z>>>>>> \in Nearer
<1> DEFINE Inner == LexPairOrdering(NatLess, NatLess, Nat, Nat)
<1>1. \A m, n \in Nat : m < n => <<m, n>> \in NatLess
  BY DEF NatLess, OpToRel
<1>2. b < y \/ (b = y /\ c < z) => <<<<b, c>>, <<y, z>>>> \in Inner
  BY <1>1 DEF LexPairOrdering
<1>3. <<<<a, <<b, c>>>>, <<x, <<y, z>>>>>> \in (Nat \X (Nat \X Nat)) \X (Nat \X (Nat \X Nat))
  OBVIOUS
<1>4. <<a, x>> \in NatLess \/ (a = x /\ <<<<b, c>>, <<y, z>>>> \in Inner)
  BY <1>1, <1>2
<1> HIDE DEF Inner
<1>5. <<<<a, <<b, c>>>>, <<x, <<y, z>>>>>> \in LexPairOrdering(NatLess, Inner, Nat, Nat \X Nat)
  BY <1>3, <1>4 DEF LexPairOrdering
<1> QED
  BY <1>5 DEF Nearer, Inner

LEMMA LeftTyped ==
  ASSUME TypeInv
  PROVE  PositionsLeft \in Nat /\ OperatorsLeft \in Nat /\ MutantsLeft \in Nat
<1>1. policy.rules \in Nat /\ pc \in Locations /\ Len(mutantList) \in Nat
      /\ next \in 1 .. Len(mutantList) + 1
  BY PoliciesAssumption DEF TypeInv
<1>2. MutantsLeft \in Nat
  BY <1>1 DEF MutantsLeft
<1>3. pc # "rank" => /\ Len(rank) \in Nat /\ at \in 1 .. Len(rank)
                     /\ Len(StepsAt(rank[at])) \in Nat /\ step \in 1 .. Len(StepsAt(rank[at])) + 1
  BY Placed
<1>4. PositionsLeft \in Nat
  BY <1>1, <1>3 DEF PositionsLeft, Locations
<1>5. OperatorsLeft \in Nat
  BY <1>1, <1>3 DEF OperatorsLeft
<1> QED
  BY <1>2, <1>4, <1>5

(* Every step leaves the outer loops alone and shortens one of them.       *)
LEMMA StepNearer ==
  ASSUME IInv, IInv', Next
  PROVE  \/ PositionsLeft' < PositionsLeft
         \/ PositionsLeft' = PositionsLeft /\ OperatorsLeft' < OperatorsLeft
         \/ PositionsLeft' = PositionsLeft /\ OperatorsLeft' = OperatorsLeft /\ MutantsLeft' < MutantsLeft
<1> DEFINE Goal == \/ PositionsLeft' < PositionsLeft
                   \/ PositionsLeft' = PositionsLeft /\ OperatorsLeft' < OperatorsLeft
                   \/ /\ PositionsLeft' = PositionsLeft /\ OperatorsLeft' = OperatorsLeft
                      /\ MutantsLeft' < MutantsLeft
           n == Len(StepsAt(rank[at]))
<1>1. pc # "rank" => /\ Len(rank) \in Nat /\ at \in 1 .. Len(rank)
                     /\ n \in Nat /\ step \in 1 .. n + 1
  BY Placed DEF IInv
<1>2. Len(mutantList) \in Nat /\ next \in 1 .. Len(mutantList) + 1 /\ policy.rules \in Nat
  BY PoliciesAssumption DEF IInv, TypeInv
<1>3. ASSUME UNCHANGED <<policy, rank, at>> PROVE n' = n
  BY <1>3, SamePolicy
<1> HIDE DEF n
<1>4. CASE MakeRank
  <2>1. pc = "rank" /\ pc' = "mutate" /\ policy' = policy
    BY <1>4 DEF MakeRank
  <2>2. rank' \in Seq(-1 .. policy.rules) /\ Len(rank') <= policy.rules + 3 /\ at' \in DOMAIN rank'
    <3>1. TypeInv'
      BY DEF IInv
    <3> QED
      BY ONLY <2>1, <3>1 DEF TypeInv
  <2>3. PositionsLeft = policy.rules + 6 /\ PositionsLeft' = Len(rank') - at' + 2
    BY <2>1 DEF PositionsLeft
  <2>4. Len(rank') \in Nat /\ at' \in 1 .. Len(rank')
    BY <2>2
  <2> QED
    BY <1>2, <2>2, <2>3, <2>4
<1>5. CASE MakeMutants
  <2>1. pc = "mutate" /\ pc' = "find" /\ UNCHANGED <<policy, rank, at, step>>
    BY <1>5 DEF MakeMutants
  <2>2. n' = n
    BY <1>3, <2>1
  <2>3. PositionsLeft' = PositionsLeft
    BY <2>1 DEF PositionsLeft
  <2>4. OperatorsLeft = 2 * (n + 1 - step) + 1 /\ OperatorsLeft' = 2 * (n' + 1 - step') + 0
    BY <2>1 DEF OperatorsLeft, n
  <2>5. step' = step
    BY <2>1
  <2> QED
    BY <1>1, <2>1, <2>2, <2>3, <2>4, <2>5
<1>6. CASE MakeNone \/ MutantBreaksRun
  <2>1. pc \in {"mutate", "find"} /\ pc' = "done"
    BY <1>6 DEF MakeNone, MutantBreaksRun, Throw
  <2>2. PositionsLeft = Len(rank) - at + 2 /\ PositionsLeft' = 0
    BY <2>1 DEF PositionsLeft
  <2> QED
    BY <1>1, <2>1, <2>2
<1>7. CASE MutantFails
  <2>1. pc = "find" /\ pc' = "find" /\ UNCHANGED <<policy, rank, at, step, mutantList>> /\ next' = next + 1
    BY <1>7 DEF MutantFails
  <2>2. n' = n
    BY <1>3, <2>1
  <2>3. PositionsLeft' = PositionsLeft
    BY <2>1 DEF PositionsLeft
  <2>4. OperatorsLeft' = OperatorsLeft
    BY <2>1, <2>2 DEF OperatorsLeft, n
  <2>5. MutantsLeft = Len(mutantList) + 2 - next /\ MutantsLeft' = Len(mutantList) + 2 - (next + 1)
    BY <2>1 DEF MutantsLeft
  <2> QED
    BY <1>2, <2>3, <2>4, <2>5
<1>8. CASE MutantPasses \/ NoneCorrect
  <2>1. pc = "find" /\ pc' = "delete" /\ UNCHANGED <<policy, rank, at, step, mutantList, next>>
    BY <1>8 DEF MutantPasses, NoneCorrect
  <2>2. n' = n
    BY <1>3, <2>1
  <2>3. PositionsLeft' = PositionsLeft
    BY <2>1 DEF PositionsLeft
  <2>4. OperatorsLeft' = OperatorsLeft
    BY <2>1, <2>2 DEF OperatorsLeft, n
  <2>5. MutantsLeft = Len(mutantList) + 2 - next /\ MutantsLeft' = 0
    BY <2>1 DEF MutantsLeft
  <2> QED
    BY <1>2, <2>3, <2>4, <2>5
<1>9. CASE DeleteMutants
  <2>1. pc = "delete" /\ UNCHANGED <<policy, rank, at>>
        /\ pc' = (IF correct # 0 THEN "found" ELSE "mutate")
        /\ step' = (IF correct # 0 THEN step ELSE step + 1)
    BY <1>9 DEF DeleteMutants
  <2>2. n' = n
    BY <1>3, <2>1
  <2>3. CASE correct # 0
    <3>1. PositionsLeft = Len(rank) - at + 2 /\ PositionsLeft' = 1
      BY <2>1, <2>3 DEF PositionsLeft
    <3> QED
      BY <1>1, <2>1, <3>1
  <2>4. CASE correct = 0
    <3>1. PositionsLeft' = PositionsLeft
      BY <2>1, <2>4 DEF PositionsLeft
    <3>2. OperatorsLeft = 2 * (n + 1 - step) + 0 /\ OperatorsLeft' = 2 * (n' + 1 - step') + 1
      BY <2>1, <2>4 DEF OperatorsLeft, n
    <3>3. step' = step + 1
      BY <2>1, <2>4
    <3> QED
      BY <1>1, <2>1, <2>2, <3>1, <3>2, <3>3
  <2> QED
    BY <2>3, <2>4
<1>10. CASE NextPosition
  <2>1. pc = "mutate" /\ pc' = "mutate" /\ UNCHANGED <<policy, rank>> /\ at' = at + 1 /\ at < Len(rank)
    BY <1>10 DEF NextPosition
  <2>2. PositionsLeft = Len(rank) - at + 2 /\ PositionsLeft' = Len(rank) - (at + 1) + 2
    BY <2>1 DEF PositionsLeft
  <2> QED
    BY <1>1, <2>1, <2>2
<1>11. CASE RankExhausted
  <2>1. pc = "mutate" /\ pc' = "exhausted"
    BY <1>11 DEF RankExhausted
  <2>2. PositionsLeft = Len(rank) - at + 2 /\ PositionsLeft' = 1
    BY <2>1 DEF PositionsLeft
  <2> QED
    BY <1>1, <2>1, <2>2
<1>12. CASE Return
  <2>1. pc \in {"found", "exhausted"} /\ pc' = "done"
    BY <1>12 DEF Return
  <2>2. PositionsLeft = 1 /\ PositionsLeft' = 0
    BY <2>1 DEF PositionsLeft
  <2> QED
    BY <2>2
<1> QED
  BY <1>4, <1>5, <1>6, <1>7, <1>8, <1>9, <1>10, <1>11, <1>12 DEF Next

(* Every step of a call brings it nearer to its end, in an order in which  *)
(* nothing comes nearer for ever: repairBySuspicionRank takes finitely many*)
(* steps, however long the ranking, the lists of operators and of mutants. *)
THEOREM EveryStepNearer ==
  /\ IsWellFoundedOn(Nearer, Nat \X (Nat \X Nat))
  /\ Spec => [](Left \in Nat \X (Nat \X Nat)) /\ [][ComesNearer]_vars
<1> DEFINE Typed == PositionsLeft \in Nat /\ OperatorsLeft \in Nat /\ MutantsLeft \in Nat
<1>1. IInv => Typed
  BY LeftTyped DEF IInv
<1>2. Typed => Left \in Nat \X (Nat \X Nat)
  BY DEF Left
<1>3. IInv /\ IInv' /\ Typed /\ Typed' /\ [Next]_vars => [ComesNearer]_vars
  <2> SUFFICES ASSUME IInv, IInv', Typed, Typed', Next PROVE ComesNearer
    OBVIOUS
  <2>1. <<<<PositionsLeft', <<OperatorsLeft', MutantsLeft'>>>>,
          <<PositionsLeft, <<OperatorsLeft, MutantsLeft>>>>>> \in Nearer
    BY StepNearer, NearerIs
  <2> QED
    BY <2>1 DEF Left, ComesNearer
<1> HIDE DEF Typed
<1> QED
  BY <1>1, <1>2, <1>3, Invariance, NearerWellFounded, PTL DEF Spec
=============================================================================

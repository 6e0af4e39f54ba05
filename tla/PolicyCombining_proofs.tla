----------------------- MODULE PolicyCombining_proofs -----------------------
(***************************************************************************)
(* Proofs about PolicyCombining, for policy sets of every length: which    *)
(* policies are evaluated, whose obligations are returned, whose status an *)
(* indeterminate answer carries, and that the decision is a promised one.  *)
(***************************************************************************)
EXTENDS PolicyCombining, CombiningPromise_proofs, FiniteSetTheorems

(* What the loops keep while there is no result.                           *)
LoopInv ==
  result = NoResult =>
    /\ carried = {i \in evaluated : Evaluate(policies[i]) = Y}
    /\ alg # "OnlyOneApplicable" => selected = 0
    /\ alg = "OnlyOneApplicable" =>
         /\ evaluated = {}
         /\ matched = {i \in 1 .. pos : Applies(policies[i])}
         /\ matched = IF selected = 0 THEN {} ELSE {selected}

(* A recorded failure is that of a policy in trouble.                      *)
ErrorInv ==
  \A k \in {firstD, firstP, firstDP, firstError} : k # 0 => Troubled(policies[k])

ResultInv ==
  result # NoResult => ObligationsOfDecision /\ StatusExplains /\ OnlyOneEvaluated

IInv == TypeOK /\ LoopInv /\ ErrorInv /\ ResultInv

-----------------------------------------------------------------------------
(* The answers of the loops.                                               *)
LEMMA DefiniteIs ==
  ASSUME NEW d, NEW from
  PROVE  /\ Definite(d, from).decision = d /\ Definite(d, from).status = 0
         /\ Definite(d, from).obligations = from
         /\ d # Pending => Definite(d, from) # NoResult
<1>1. /\ Definite(d, from).decision = d /\ Definite(d, from).status = 0
      /\ Definite(d, from).obligations = from
  BY DEF Definite
<1>2. NoResult.decision = Pending
  BY DEF NoResult
<1> HIDE DEF NoResult
<1> QED
  BY <1>1, <1>2

LEMMA ErrorIs ==
  ASSUME NEW d, NEW at
  PROVE  /\ Error(d, at).decision = d /\ Error(d, at).status = at
         /\ Error(d, at).obligations = {}
         /\ d # Pending => Error(d, at) # NoResult
<1>1. /\ Error(d, at).decision = d /\ Error(d, at).status = at
      /\ Error(d, at).obligations = {}
  BY DEF Error
<1>2. NoResult.decision = Pending
  BY DEF NoResult
<1> HIDE DEF NoResult
<1> QED
  BY <1>1, <1>2

Results(n) == [decision    : Decisions \cup {Throws},
               status      : 0 .. n,
               obligations : SUBSET (1 .. n)]

LEMMA ResultsTyped ==
  ASSUME NEW n \in Nat, NEW d \in Decisions \cup {Throws}
  PROVE  /\ \A from \in SUBSET (1 .. n) : Definite(d, from) \in Results(n)
         /\ \A at \in 0 .. n : Error(d, at) \in Results(n)
<1> QED
  BY DEF Definite, Error, Results

(* The policies of a set, and the two effects of an algorithm.             *)
LEMMA PoliciesTyped ==
  ASSUME TypeOK
  PROVE  /\ policies \in Seq(PolicyInstances) /\ Len(policies) \in Nat
         /\ DOMAIN policies = 1 .. Len(policies)
         /\ \A i \in 1 .. Len(policies) :
              /\ policies[i].target \in MatchResults \cup {Absent}
              /\ Evaluate(policies[i]) \in Decisions
<1>1. policies \in Seq(PolicyInstances)
  BY PolicyListsAssumption DEF TypeOK
<1>2. \A p \in PolicyInstances : /\ p.target \in MatchResults \cup {Absent}
                                 /\ Evaluate(p) \in Decisions
  BY DEF PolicyInstances, Evaluate, Decisions
<1>3. Len(policies) \in Nat /\ DOMAIN policies = 1 .. Len(policies)
  BY <1>1
<1>4. \A i \in 1 .. Len(policies) : policies[i] \in PolicyInstances
  BY <1>1, <1>3
<1> QED
  BY <1>1, <1>2, <1>3, <1>4

LEMMA ResultOfIs ==
  ASSUME TypeOK, NEW i \in 1 .. Len(policies)
  PROVE  /\ ResultOf(i).decision = Evaluate(policies[i])
         /\ ResultOf(i).obligations =
              IF Evaluate(policies[i]) \in Effects THEN {i} ELSE {}
         /\ Evaluate(policies[i]) \in Indeterminates => ResultOf(i).status = i
         /\ ResultOf(i) # NoResult
         /\ \A n \in Nat : i <= n => ResultOf(i) \in Results(n)
<1> DEFINE d == Evaluate(policies[i])
<1>1. d \in Decisions /\ i \in Nat \ {0}
  BY PoliciesTyped
<1>2. d # Pending /\ (d \in Indeterminates => d \notin Effects)
  BY <1>1 DEF Decisions, Effects, Pending, Indeterminates
<1>3. ResultOf(i) = IF d \in Indeterminates THEN Error(d, i)
                    ELSE Definite(d, IF d \in Effects THEN {i} ELSE {})
  BY DEF ResultOf
<1>4. ASSUME NEW n \in Nat, i <= n PROVE ResultOf(i) \in Results(n)
  <2>1. i \in 0 .. n /\ {i} \in SUBSET (1 .. n) /\ {} \in SUBSET (1 .. n)
    BY <1>1, <1>4
  <2> HIDE DEF d
  <2> QED
    BY <1>1, <1>3, <2>1, ResultsTyped
<1>5. CASE d \in Indeterminates
  <2>1. ResultOf(i) = Error(d, i) /\ d \notin Effects
    BY <1>2, <1>3, <1>5
  <2> QED
    BY <1>2, <1>4, <1>5, <2>1, ErrorIs
<1>6. CASE d \notin Indeterminates
  <2>1. ResultOf(i) = Definite(d, IF d \in Effects THEN {i} ELSE {})
    BY <1>3, <1>6
  <2>2. /\ ResultOf(i).decision = d /\ ResultOf(i) # NoResult
        /\ ResultOf(i).obligations = IF d \in Effects THEN {i} ELSE {}
    <3> DEFINE from == IF d \in Effects THEN {i} ELSE {}
    <3> HIDE DEF d, from
    <3>1. ResultOf(i) = Definite(d, from)
      BY <2>1 DEF from
    <3>2. ResultOf(i).decision = d /\ ResultOf(i) # NoResult /\ ResultOf(i).obligations = from
      BY <1>2, <3>1, DefiniteIs
    <3> QED
      BY <3>2 DEF from
  <2> QED
    BY <1>4, <1>6, <2>2
<1> QED
  BY <1>5, <1>6

LEMMA TwoEffects == Y \in Effects /\ X \in Effects /\ X # Y
<1> QED
  BY DEF X, Y, Opposite, Overriding, Effects

-----------------------------------------------------------------------------
LEMMA InitInv == Init => IInv
<1> SUFFICES ASSUME Init PROVE IInv
  OBVIOUS
<1>1. policies \in Seq(PolicyInstances)
  BY PolicyListsAssumption DEF Init
<1>2. Len(policies) \in Nat
  BY <1>1
<1>3. /\ alg \in PolicyAlgorithms /\ policies \in PolicyLists /\ pos = 0
      /\ matched = {} /\ evaluated = {} /\ selected = 0 /\ atLeastOne = FALSE /\ carried = {}
      /\ firstD = 0 /\ firstP = 0 /\ firstDP = 0 /\ firstError = 0 /\ result = NoResult
  BY DEF Init
<1>4. pos \in 0 .. Len(policies) /\ {0} \subseteq 0 .. pos
  BY <1>2, <1>3
<1>5. TypeOK
  BY <1>3, <1>4 DEF TypeOK
<1> QED
  BY <1>3, <1>5 DEF IInv, LoopInv, ErrorInv, ResultInv

(* One iteration that goes on to the next policy.                          *)
Going == /\ result = NoResult /\ result' = result
         /\ pos < Len(policies) /\ pos' = pos + 1
         /\ UNCHANGED <<alg, policies>>

LEMMA GoingTyped ==
  ASSUME IInv, Going,
         matched' \subseteq matched \cup {pos + 1}, evaluated' \subseteq evaluated \cup {pos + 1},
         carried' \subseteq carried \cup {pos + 1}, atLeastOne' \in BOOLEAN,
         {selected', firstD', firstP', firstDP', firstError'}
           \subseteq {selected, firstD, firstP, firstDP, firstError, pos + 1}
  PROVE  TypeOK'
<1>1. pos \in Nat /\ Len(policies) \in Nat
  BY PoliciesTyped DEF IInv, TypeOK
<1>2. 0 .. pos \subseteq 0 .. pos + 1 /\ 1 .. pos \subseteq 1 .. pos + 1 /\ pos + 1 \in 1 .. pos + 1
  BY <1>1
<1>3. pos' \in 0 .. Len(policies)
  BY <1>1 DEF Going
<1> QED
  BY <1>1, <1>2, <1>3 DEF IInv, TypeOK, Going
(* What an iteration without a result has to show for the invariant.       *)
LEMMA GoingInv ==
  ASSUME IInv, Going, LoopInv',
         matched' \subseteq matched \cup {pos + 1}, evaluated' \subseteq evaluated \cup {pos + 1},
         carried' \subseteq carried \cup {pos + 1}, atLeastOne' \in BOOLEAN,
         selected' \in {selected, pos + 1},
         {firstD', firstP', firstDP', firstError'} \subseteq
           {firstD, firstP, firstDP, firstError} \cup {k \in {pos + 1} : Troubled(policies[k])}
  PROVE  IInv'
<1>1. TypeOK'
  BY GoingTyped
<1>2. ErrorInv'
  BY DEF IInv, ErrorInv, Going
<1>3. ResultInv'
  BY DEF ResultInv, Going, NoResult
<1> QED
  BY <1>1, <1>2, <1>3 DEF IInv

(* The target failed or did not match: no policy is evaluated.             *)
LEMMA UnmatchedInv ==
  ASSUME IInv, Going, UNCHANGED <<seen, selected, atLeastOne, carried>>,
         ~ Applies(policies[pos + 1]),
         {firstD', firstP', firstDP', firstError'} \subseteq
           {firstD, firstP, firstDP, firstError} \cup {k \in {pos + 1} : Troubled(policies[k])}
  PROVE  IInv'
<1>1. UNCHANGED <<matched, evaluated, selected, atLeastOne, carried>>
  BY DEF seen
<1>2. Y' = Y /\ pos \in Nat
  BY DEF Y, X, Going, IInv, TypeOK
<1>3. {i \in 1 .. pos' : Applies(policies[i])} = {i \in 1 .. pos : Applies(policies[i])}
  <2>1. \A i : i \in 1 .. pos' <=> i \in 1 .. pos \/ i = pos + 1
    BY <1>2 DEF Going
  <2> QED
    BY <2>1
<1>4. LoopInv'
  BY <1>1, <1>2, <1>3 DEF IInv, LoopInv, Going
<1>5. atLeastOne' \in BOOLEAN
  BY <1>1 DEF IInv, TypeOK
<1> QED
  BY <1>1, <1>4, <1>5, GoingInv

(* The policy was evaluated and the loop goes on.                          *)
LEMMA EvaluatedInv ==
  ASSUME IInv, NEW d, EvaluateNext(d), result' = result,
         selected' = selected, atLeastOne' \in BOOLEAN,
         carried' = IF d = Y THEN carried \cup {pos + 1} ELSE carried,
         {firstD', firstP', firstDP', firstError'} \subseteq
           {firstD, firstP, firstDP, firstError} \cup {k \in {pos + 1} : d \in Indeterminates}
  PROVE  IInv'
<1>1. /\ Going /\ alg # "OnlyOneApplicable" /\ d = Evaluate(policies[pos + 1])
      /\ matched' \subseteq matched \cup {pos + 1} /\ evaluated' = evaluated \cup {pos + 1}
  BY DEF EvaluateNext, Iterate, Going
<1>2. Y' = Y
  BY <1>1 DEF Y, X, Going
<1>3. LoopInv'
  BY <1>1, <1>2 DEF IInv, LoopInv, Going
<1>4. d \in Indeterminates => Troubled(policies[pos + 1])
  BY <1>1 DEF Troubled
<1> QED
  BY <1>1, <1>3, <1>4, GoingInv

(* An iteration that answers.                                              *)
LEMMA AnswerInv ==
  ASSUME IInv, NEW t, Iterate(t), UNCHANGED kept,
         matched' \subseteq matched \cup {pos + 1}, evaluated' \subseteq evaluated \cup {pos + 1},
         result' \in Results(pos + 1), ResultInv'
  PROVE  IInv'
<1>1. /\ pos \in Nat /\ pos' = pos + 1 /\ pos' \in 0 .. Len(policies) /\ UNCHANGED <<alg, policies>>
  BY PoliciesTyped DEF Iterate, IInv, TypeOK
<1>2. UNCHANGED <<selected, firstD, firstP, firstDP, firstError, atLeastOne, carried>>
  BY DEF kept, errors
<1>3. 0 .. pos \subseteq 0 .. pos + 1 /\ 1 .. pos \subseteq 1 .. pos + 1 /\ pos + 1 \in 1 .. pos + 1
  BY <1>1
<1>4. result' \in [decision    : Decisions \cup {Throws},
                   status      : 0 .. pos',
                   obligations : SUBSET (1 .. pos')]
  BY <1>1 DEF Results
<1>9. Verdicts = Decisions \cup {Throws}
  BY DEF Verdicts
<1>5. result'.decision \in Decisions \cup {Throws}
  BY <1>4
<1>6. result' # NoResult
  BY <1>5 DEF NoResult, Pending, Decisions, Effects, Throws
<1>7. TypeOK'
  BY <1>1, <1>2, <1>3, <1>4, <1>9 DEF IInv, TypeOK
<1>8. LoopInv' /\ ErrorInv'
  BY <1>1, <1>2, <1>6 DEF IInv, LoopInv, ErrorInv, NoResult
<1> QED
  BY <1>7, <1>8 DEF IInv

-----------------------------------------------------------------------------
(* The iterations that go on.                                              *)
LEMMA SkipUnmatchedInv == IInv /\ SkipUnmatched => IInv'
<1> SUFFICES ASSUME IInv, SkipUnmatched PROVE IInv'
  OBVIOUS
<1>1. Going /\ ~ Applies(policies[pos + 1]) /\ UNCHANGED <<seen, kept>>
  BY DEF SkipUnmatched, Iterate, Going, Applies, Absent
<1> QED
  BY <1>1, UnmatchedInv DEF kept, errors

LEMMA IgnoreFailedMatchInv == IInv /\ IgnoreFailedMatch => IInv'
<1> SUFFICES ASSUME IInv, IgnoreFailedMatch PROVE IInv'
  OBVIOUS
<1>1. Going /\ ~ Applies(policies[pos + 1]) /\ UNCHANGED <<seen, kept>>
  BY DEF IgnoreFailedMatch, Iterate, Going, Applies, Absent
<1> QED
  BY <1>1, UnmatchedInv DEF kept, errors

LEMMA RecordFailedMatchInv == IInv /\ RecordFailedMatch => IInv'
<1> SUFFICES ASSUME IInv, RecordFailedMatch PROVE IInv'
  OBVIOUS
<1>1. /\ Going /\ policies[pos + 1].target = "INDETERMINATE"
      /\ UNCHANGED <<seen, selected, firstD, firstP, firstDP, atLeastOne, carried>>
      /\ firstError' \in {firstError, pos + 1}
  BY DEF RecordFailedMatch, Iterate, Going, First
<1>2. Troubled(policies[pos + 1]) /\ ~ Applies(policies[pos + 1])
  BY <1>1 DEF Troubled, MissesTarget, Applies, Absent
<1> QED
  BY <1>1, <1>2, UnmatchedInv

LEMMA SelectPolicyInv == IInv /\ SelectPolicy => IInv'
<1> SUFFICES ASSUME IInv, SelectPolicy PROVE IInv'
  OBVIOUS
<1>1. /\ Going /\ Applies(policies[pos + 1])
      /\ alg = "OnlyOneApplicable" /\ selected = 0
      /\ selected' = pos + 1 /\ matched' = matched \cup {pos + 1}
      /\ UNCHANGED <<evaluated, firstD, firstP, firstDP, firstError, atLeastOne, carried>>
  BY DEF SelectPolicy, Iterate, Going, errors, Applies
<1>2. Y' = Y /\ pos \in Nat
  BY <1>1 DEF Y, X, Going, IInv, TypeOK
<1>3. \A i : i \in 1 .. pos' <=> i \in 1 .. pos \/ i = pos + 1
  BY <1>1, <1>2 DEF Going
<1>4. /\ carried = {i \in evaluated : Evaluate(policies[i]) = Y} /\ evaluated = {}
      /\ matched = {} /\ matched = {i \in 1 .. pos : Applies(policies[i])}
  BY <1>1 DEF IInv, LoopInv, Going
<1>5. matched' = {i \in 1 .. pos' : Applies(policies[i])} /\ matched' = {selected'}
  BY <1>1, <1>3, <1>4
<1>6. carried' = {i \in evaluated' : Evaluate(policies[i]) = Y}
  BY <1>1, <1>4
<1>7. selected' # 0
  BY <1>1, <1>2
<1>8. LoopInv'
  BY <1>1, <1>2, <1>4, <1>5, <1>6, <1>7 DEF LoopInv, Going
<1>9. atLeastOne' \in BOOLEAN
  BY <1>1 DEF IInv, TypeOK
<1> QED
  BY <1>1, <1>8, <1>9, GoingInv

LEMMA SkipNotApplicableInv ==
  ASSUME IInv, NEW d \in Decisions, SkipNotApplicable(d) PROVE IInv'
<1>1. /\ EvaluateNext(d) /\ d = "NotApplicable" /\ result' = result
      /\ UNCHANGED <<selected, firstD, firstP, firstDP, firstError, atLeastOne, carried>>
  BY DEF SkipNotApplicable, kept, errors
<1>2. d # Y
  BY <1>1, TwoEffects DEF Effects
<1>3. atLeastOne' \in BOOLEAN
  BY <1>1 DEF IInv, TypeOK
<1> QED
  BY <1>1, <1>2, <1>3, EvaluatedInv

LEMMA IgnoreErrorInv ==
  ASSUME IInv, NEW d \in Decisions, IgnoreError(d) PROVE IInv'
<1>1. /\ EvaluateNext(d) /\ d \in Indeterminates /\ result' = result
      /\ UNCHANGED <<selected, firstD, firstP, firstDP, firstError, atLeastOne, carried>>
  BY DEF IgnoreError, kept, errors
<1>2. d # Y
  BY <1>1, TwoEffects DEF Effects, Indeterminates
<1>3. atLeastOne' \in BOOLEAN
  BY <1>1 DEF IInv, TypeOK
<1> QED
  BY <1>1, <1>2, <1>3, EvaluatedInv

LEMMA RecordErrorInv ==
  ASSUME IInv, NEW d \in Decisions, RecordError3(d) \/ RecordError2(d) PROVE IInv'
<1>1. /\ EvaluateNext(d) /\ d \in Indeterminates /\ result' = result
      /\ UNCHANGED <<selected, atLeastOne, carried>>
      /\ {firstD', firstP', firstDP', firstError'}
           \subseteq {firstD, firstP, firstDP, firstError, pos + 1}
  BY DEF RecordError3, RecordError2, First
<1>2. d # Y
  BY <1>1, TwoEffects DEF Effects, Indeterminates
<1>3. atLeastOne' \in BOOLEAN
  BY <1>1 DEF IInv, TypeOK
<1> QED
  BY <1>1, <1>2, <1>3, EvaluatedInv

LEMMA CollectEffectInv ==
  ASSUME IInv, NEW d \in Decisions, CollectEffect(d) PROVE IInv'
<1>1. /\ EvaluateNext(d) /\ d = Y /\ result' = result /\ atLeastOne' = TRUE
      /\ carried' = carried \cup ResultOf(pos + 1).obligations
      /\ UNCHANGED <<selected, firstD, firstP, firstDP, firstError>>
  BY DEF CollectEffect, errors
<1>2. pos + 1 \in 1 .. Len(policies) /\ d = Evaluate(policies[pos + 1])
  BY <1>1, PoliciesTyped DEF EvaluateNext, Iterate, IInv, TypeOK
<1>3. ResultOf(pos + 1).obligations = {pos + 1}
  <2>1. \A i \in 1 .. Len(policies) :
          Evaluate(policies[i]) \in Effects => ResultOf(i).obligations = {i}
    BY ResultOfIs DEF IInv
  <2> QED
    BY <1>1, <1>2, <2>1, TwoEffects
<1> QED
  BY <1>1, <1>3, EvaluatedInv

-----------------------------------------------------------------------------
(* The iterations that answer.                                             *)

(* An answer that names no policy, when nothing was ever evaluated by      *)
(* only-one-applicable.                                                    *)
LEMMA BareAnswer ==
  ASSUME IInv, result = NoResult, alg' = alg,
         result'.obligations = {}, result'.decision \in {X, Throws},
         alg = "OnlyOneApplicable" => evaluated' = evaluated
  PROVE  ResultInv'
<1>1. X' = X /\ Y' = Y
  BY DEF X, Y
<1>2. result'.decision # Y /\ result'.decision \notin Indeterminates
  BY TwoEffects DEF Throws, Effects, Indeterminates, Decisions
<1>3. ObligationsOfDecision'
  BY <1>1, <1>2 DEF ObligationsOfDecision
<1>4. StatusExplains'
  BY <1>2 DEF StatusExplains
<1>5. OnlyOneEvaluated'
  BY DEF OnlyOneEvaluated, IInv, LoopInv
<1> QED
  BY <1>3, <1>4, <1>5 DEF ResultInv

LEMMA ThrowsInv == IInv /\ (MatchThrows \/ CastElement) => IInv'
<1> SUFFICES ASSUME IInv, MatchThrows \/ CastElement PROVE IInv'
  OBVIOUS
<1>1. PICK t : Iterate(t) /\ result' = Definite(Throws, {}) /\ UNCHANGED <<seen, kept>>
  BY DEF MatchThrows, CastElement
<1>2. result = NoResult /\ alg' = alg /\ pos \in Nat
  BY <1>1 DEF Iterate, IInv, TypeOK
<1>3. /\ result'.decision = Throws /\ result'.obligations = {}
      /\ result' \in Results(pos + 1)
  BY <1>1, <1>2, DefiniteIs, ResultsTyped
<1>4. matched' = matched /\ evaluated' = evaluated
  BY <1>1 DEF seen
<1>5. ResultInv'
  BY <1>2, <1>3, <1>4, BareAnswer
<1> QED
  BY <1>1, <1>3, <1>4, <1>5, AnswerInv

LEMMA DenyFailedMatchInv == IInv /\ DenyFailedMatch => IInv'
<1> SUFFICES ASSUME IInv, DenyFailedMatch PROVE IInv'
  OBVIOUS
<1>1. /\ Iterate("INDETERMINATE") /\ result' = Definite("Deny", {}) /\ UNCHANGED <<seen, kept>>
      /\ alg \in {"DenyOverrides3", "DenyOverrides2"}
  BY DEF DenyFailedMatch
<1>2. result = NoResult /\ alg' = alg /\ pos \in Nat /\ X = "Deny"
  BY <1>1 DEF Iterate, IInv, TypeOK, X, Overriding
<1>3. /\ result'.decision = "Deny" /\ result'.obligations = {}
      /\ result' \in Results(pos + 1)
  BY <1>1, <1>2, DefiniteIs, ResultsTyped DEF Decisions, Effects
<1>4. matched' = matched /\ evaluated' = evaluated
  BY <1>1 DEF seen
<1>5. ResultInv'
  BY <1>2, <1>3, <1>4, BareAnswer
<1> QED
  BY <1>1, <1>3, <1>4, <1>5, AnswerInv

LEMMA DenyError2Inv ==
  ASSUME IInv, NEW d \in Decisions, DenyError2(d) PROVE IInv'
<1>1. /\ EvaluateNext(d) /\ result' = Definite("Deny", {}) /\ UNCHANGED kept
      /\ alg = "DenyOverrides2"
  BY DEF DenyError2
<1>2. PICK t : Iterate(t)
  BY <1>1 DEF EvaluateNext
<1>3. result = NoResult /\ alg' = alg /\ pos \in Nat /\ X = "Deny"
  BY <1>1, <1>2 DEF Iterate, IInv, TypeOK, X, Overriding
<1>4. /\ result'.decision = "Deny" /\ result'.obligations = {}
      /\ result' \in Results(pos + 1)
  BY <1>1, <1>3, DefiniteIs, ResultsTyped DEF Decisions, Effects
<1>5. matched' \subseteq matched \cup {pos + 1} /\ evaluated' \subseteq evaluated \cup {pos + 1}
  BY <1>1 DEF EvaluateNext
<1>6. ResultInv'
  BY <1>1, <1>3, <1>4, BareAnswer
<1> QED
  BY <1>1, <1>2, <1>4, <1>5, <1>6, AnswerInv

LEMMA ReturnFailedMatchInv == IInv /\ ReturnFailedMatch => IInv'
<1> SUFFICES ASSUME IInv, ReturnFailedMatch PROVE IInv'
  OBVIOUS
<1>1. /\ Iterate("INDETERMINATE") /\ result' = Error("Indeterminate", pos + 1)
      /\ UNCHANGED <<seen, kept>>
  BY DEF ReturnFailedMatch
<1>2. /\ result = NoResult /\ alg' = alg /\ policies' = policies /\ pos \in Nat /\ pos' = pos + 1
      /\ policies[pos + 1].target = "INDETERMINATE"
  BY <1>1 DEF Iterate, IInv, TypeOK
<1>3. /\ result'.decision = "Indeterminate" /\ result'.status = pos + 1
      /\ result'.obligations = {} /\ pos + 1 \in 0 .. pos + 1
  BY <1>1, <1>2, ErrorIs
<1>4. result' \in Results(pos + 1)
  BY <1>1, <1>2, <1>3, ResultsTyped DEF Decisions
<1>5. matched' = matched /\ evaluated' = evaluated
  BY <1>1 DEF seen
<1>6. ObligationsOfDecision'
  <2>1. Y' \in Effects
    BY <1>2, TwoEffects DEF X, Y
  <2> QED
    BY <1>3, <2>1 DEF ObligationsOfDecision, Effects
<1>7. StatusExplains'
  <2>1. Troubled(policies[pos + 1])
    BY <1>2 DEF Troubled, MissesTarget
  <2> QED
    BY <1>2, <1>3, <2>1 DEF StatusExplains
<1>8. OnlyOneEvaluated'
  BY <1>2, <1>5 DEF OnlyOneEvaluated, IInv, LoopInv
<1> QED
  BY <1>1, <1>4, <1>5, <1>6, <1>7, <1>8, AnswerInv DEF ResultInv

LEMMA RejectSecondMatchInv == IInv /\ RejectSecondMatch => IInv'
<1> SUFFICES ASSUME IInv, RejectSecondMatch PROVE IInv'
  OBVIOUS
<1>1. /\ Iterate("MATCH") /\ result' = Error("Indeterminate", pos + 1) /\ selected # 0
      /\ alg = "OnlyOneApplicable" /\ matched' = matched \cup {pos + 1}
      /\ evaluated' = evaluated /\ UNCHANGED kept
  BY DEF RejectSecondMatch
<1>2. /\ result = NoResult /\ alg' = alg /\ policies' = policies /\ pos \in Nat /\ pos' = pos + 1
      /\ selected' = selected
  BY <1>1 DEF Iterate, IInv, TypeOK, kept
<1>3. /\ result'.decision = "Indeterminate" /\ result'.status = pos + 1
      /\ result'.obligations = {} /\ pos + 1 \in 0 .. pos + 1
  BY <1>1, <1>2, ErrorIs
<1>4. result' \in Results(pos + 1)
  BY <1>1, <1>2, <1>3, ResultsTyped DEF Decisions
<1>5. ObligationsOfDecision'
  <2>1. Y' \in Effects
    BY <1>2, TwoEffects DEF X, Y
  <2> QED
    BY <1>3, <2>1 DEF ObligationsOfDecision, Effects
<1>6. StatusExplains'
  <2>1. selected \in matched /\ selected < pos + 1
    BY <1>1, <1>2 DEF IInv, LoopInv, TypeOK
  <2> QED
    BY <1>1, <1>2, <1>3, <2>1 DEF StatusExplains
<1>7. OnlyOneEvaluated'
  BY <1>1, <1>2 DEF OnlyOneEvaluated, IInv, LoopInv
<1> QED
  BY <1>1, <1>4, <1>5, <1>6, <1>7, AnswerInv DEF ResultInv

LEMMA ReturnPolicyResultInv ==
  ASSUME IInv, NEW d \in Decisions, ReturnPolicyResult(d) PROVE IInv'
<1>1. /\ EvaluateNext(d) /\ Stops(d) /\ result' = ResultOf(pos + 1) /\ UNCHANGED kept
  BY DEF ReturnPolicyResult
<1>2. PICK t : Iterate(t)
  BY <1>1 DEF EvaluateNext
<1>3. /\ result = NoResult /\ alg' = alg /\ policies' = policies /\ pos \in Nat /\ pos' = pos + 1
      /\ pos + 1 \in 1 .. Len(policies) /\ d = Evaluate(policies[pos + 1])
      /\ alg # "OnlyOneApplicable" /\ evaluated' = evaluated \cup {pos + 1}
      /\ matched' \subseteq matched \cup {pos + 1}
  BY <1>1, <1>2, PoliciesTyped DEF EvaluateNext, Iterate, IInv, TypeOK
<1>4. /\ result'.decision = d /\ (d \in Indeterminates => result'.status = pos + 1)
      /\ result'.obligations = IF d \in Effects THEN {pos + 1} ELSE {}
      /\ result' \in Results(pos + 1)
  <2> DEFINE i == pos + 1
  <2>1. i \in 1 .. Len(policies) /\ i \in Nat /\ i <= i /\ d = Evaluate(policies[i])
        /\ result' = ResultOf(i)
    BY <1>1, <1>3
  <2> HIDE DEF i
  <2>2. /\ result'.decision = d /\ (d \in Indeterminates => result'.status = i)
        /\ result'.obligations = IF d \in Effects THEN {i} ELSE {}
    BY <2>1, ResultOfIs DEF IInv
  <2>3. result' \in Results(i)
    BY <2>1, ResultOfIs DEF IInv
  <2> QED
    BY <2>2, <2>3 DEF i
<1>5. ObligationsOfDecision'
  <2>1. X' = X /\ Y' = Y /\ X # Y
    BY <1>3, TwoEffects DEF X, Y
  <2>2. alg = "FirstApplicable" \/ d = X
    BY <1>1 DEF Stops
  <2> QED
    BY <1>3, <1>4, <2>1, <2>2 DEF ObligationsOfDecision
<1>6. StatusExplains'
  <2>1. d \in Indeterminates => Troubled(policies[pos + 1])
    BY <1>3 DEF Troubled
  <2> QED
    BY <1>3, <1>4, <2>1 DEF StatusExplains
<1>7. OnlyOneEvaluated'
  BY <1>3 DEF OnlyOneEvaluated
<1> QED
  BY <1>1, <1>2, <1>3, <1>4, <1>5, <1>6, <1>7, AnswerInv DEF ResultInv

-----------------------------------------------------------------------------
(* The end of the loops: the five ways an algorithm answers there.         *)
LEMMA EndAnswers ==
  ASSUME IInv, EndOfPolicies
  PROVE  \/ result' = NoneApplied
         \/ result' = Definite(Y, carried)
         \/ \E d \in Indeterminates : \E k \in {firstD, firstP, firstDP, firstError} :
              k # 0 /\ result' = Error(d, k)
         \/ alg = "OnlyOneApplicable" /\ selected # 0 /\ result' = ResultOf(selected)
<1>1. alg \in {"DenyOverrides3", "PermitOverrides3", "DenyOverrides2", "PermitOverrides2",
               "FirstApplicable", "OnlyOneApplicable", "DenyUnlessPermit", "PermitUnlessDeny"}
  BY DEF IInv, TypeOK, PolicyAlgorithms, Matching, Overrides3, Overrides2, Unless
<1>2. result' = CASE alg = "DenyOverrides3"    -> DenyOverrides3End
                  [] alg = "PermitOverrides3"  -> PermitOverrides3End
                  [] alg = "DenyOverrides2"    -> DenyOverrides2End
                  [] alg = "PermitOverrides2"  -> PermitOverrides2End
                  [] alg = "FirstApplicable"   -> FirstApplicableEnd
                  [] alg = "OnlyOneApplicable" -> OnlyOneApplicableEnd
                  [] alg = "DenyUnlessPermit"  -> DenyUnlessPermitEnd
                  [] alg = "PermitUnlessDeny"  -> PermitUnlessDenyEnd
  BY DEF EndOfPolicies
<1>3. {"Indeterminate", "IndeterminateD", "IndeterminateP", "IndeterminateDP"} \subseteq Indeterminates
  BY DEF Indeterminates, Decisions, Effects
<1>4. Y = IF alg \in {"DenyOverrides3", "DenyOverrides2", "PermitUnlessDeny"} THEN "Permit" ELSE "Deny"
  BY DEF Y, X, Overriding, Opposite
<1>5. CASE alg = "DenyOverrides3"
  <2>1. result' = DenyOverrides3End /\ Y = "Permit"
    BY <1>2, <1>4, <1>5
  <2> QED
    BY <1>3, <2>1 DEF DenyOverrides3End
<1>6. CASE alg = "PermitOverrides3"
  <2>1. result' = PermitOverrides3End /\ Y = "Deny"
    BY <1>2, <1>4, <1>6
  <2> QED
    BY <1>3, <2>1 DEF PermitOverrides3End
<1>7. CASE alg = "DenyOverrides2"
  <2>1. result' = DenyOverrides2End /\ Y = "Permit"
    BY <1>2, <1>4, <1>7
  <2> QED
    BY <2>1 DEF DenyOverrides2End
<1>8. CASE alg = "PermitOverrides2"
  <2>1. result' = PermitOverrides2End /\ Y = "Deny"
    BY <1>2, <1>4, <1>8
  <2> QED
    BY <1>3, <2>1 DEF PermitOverrides2End
<1>9. CASE alg = "FirstApplicable"
  <2>1. result' = FirstApplicableEnd
    BY <1>2, <1>9
  <2> QED
    BY <2>1 DEF FirstApplicableEnd
<1>10. CASE alg = "OnlyOneApplicable"
  <2>1. result' = OnlyOneApplicableEnd
    BY <1>2, <1>10
  <2> QED
    BY <1>10, <2>1 DEF OnlyOneApplicableEnd
<1>11. CASE alg = "DenyUnlessPermit"
  <2>1. result' = DenyUnlessPermitEnd /\ Y = "Deny"
    BY <1>2, <1>4, <1>11
  <2> QED
    BY <2>1 DEF DenyUnlessPermitEnd
<1>12. CASE alg = "PermitUnlessDeny"
  <2>1. result' = PermitUnlessDenyEnd /\ Y = "Permit"
    BY <1>2, <1>4, <1>12
  <2> QED
    BY <2>1 DEF PermitUnlessDenyEnd
<1> QED
  BY <1>1, <1>5, <1>6, <1>7, <1>8, <1>9, <1>10, <1>11, <1>12

LEMMA EndOfPoliciesInv == IInv /\ EndOfPolicies => IInv'
<1> SUFFICES ASSUME IInv, EndOfPolicies PROVE IInv'
  OBVIOUS
<1>1. /\ result = NoResult /\ pos = Len(policies)
      /\ evaluated' = IF selected # 0 THEN evaluated \cup {selected} ELSE evaluated
      /\ UNCHANGED <<alg, policies, pos, matched, selected, firstD, firstP, firstDP, firstError,
                     atLeastOne, carried>>
  BY DEF EndOfPolicies, kept, errors
<1>2. /\ TypeOK /\ pos \in Nat /\ selected \in 0 .. pos /\ carried \subseteq 1 .. pos
      /\ {firstD, firstP, firstDP, firstError} \subseteq 0 .. pos
      /\ alg # "OnlyOneApplicable" => selected = 0
      /\ carried = {i \in evaluated : Evaluate(policies[i]) = Y}
  BY <1>1 DEF IInv, TypeOK, LoopInv
<1>3. X' = X /\ Y' = Y /\ X # Y /\ Y \in Effects /\ Y \notin Indeterminates
      /\ Indeterminates \subseteq Decisions /\ Effects \subseteq Decisions
      /\ "NotApplicable" \in Decisions \ (Indeterminates \cup Effects)
  BY <1>1, TwoEffects DEF X, Y, Effects, Indeterminates, Decisions
<1>4. /\ ObligationsOfDecision' /\ StatusExplains' /\ result' \in Results(pos)
  <2>1. CASE result' = NoneApplied
    <3>1. result' = Definite("NotApplicable", {}) /\ {} \in SUBSET (1 .. pos)
      BY <2>1 DEF NoneApplied
    <3>2. result'.decision = "NotApplicable" /\ result'.obligations = {} /\ result' \in Results(pos)
      BY <1>2, <1>3, <3>1, DefiniteIs, ResultsTyped
    <3> QED
      BY <1>3, <3>2 DEF ObligationsOfDecision, StatusExplains
  <2>2. CASE result' = Definite(Y, carried)
    <3>1. result'.decision = Y /\ result'.obligations = carried /\ result' \in Results(pos)
      BY <1>2, <1>3, <2>2, DefiniteIs, ResultsTyped
    <3>2. StatusExplains'
      BY <1>3, <3>1 DEF StatusExplains
    <3>3. ObligationsOfDecision'
      BY <1>1, <1>2, <1>3, <3>1 DEF ObligationsOfDecision
    <3> QED
      BY <3>1, <3>2, <3>3
  <2>3. ASSUME NEW d \in Indeterminates, NEW k \in {firstD, firstP, firstDP, firstError},
               k # 0, result' = Error(d, k)
        PROVE  ObligationsOfDecision' /\ StatusExplains' /\ result' \in Results(pos)
    <3>1. d \notin Effects /\ k \in 0 .. pos /\ k \in 1 .. pos /\ Troubled(policies[k])
      BY <1>2, <2>3 DEF Indeterminates, Effects, IInv, ErrorInv
    <3>2. /\ result'.decision = d /\ result'.status = k /\ result'.obligations = {}
          /\ result' \in Results(pos)
      BY <1>2, <1>3, <2>3, <3>1, ErrorIs, ResultsTyped
    <3>3. ObligationsOfDecision'
      BY <1>3, <3>1, <3>2 DEF ObligationsOfDecision
    <3>4. StatusExplains'
      BY <1>1, <3>1, <3>2 DEF StatusExplains
    <3> QED
      BY <3>2, <3>3, <3>4
  <2>4. CASE alg = "OnlyOneApplicable" /\ selected # 0 /\ result' = ResultOf(selected)
    <3>1. selected \in 1 .. Len(policies) /\ selected \in 1 .. pos /\ selected <= pos
      BY <1>1, <1>2, <2>4
    <3> DEFINE e == Evaluate(policies[selected])
    <3>2. /\ result'.decision = e /\ (e \in Indeterminates => result'.status = selected)
          /\ result'.obligations = IF e \in Effects THEN {selected} ELSE {}
          /\ result' \in Results(pos)
      BY <1>2, <2>4, <3>1, ResultOfIs
    <3>3. selected \in evaluated'
      BY <1>1, <2>4
    <3>4. ObligationsOfDecision'
      BY <1>1, <2>4, <3>2, <3>3 DEF ObligationsOfDecision
    <3>5. e \in Indeterminates => Troubled(policies[selected])
      BY DEF Troubled
    <3>6. StatusExplains'
      BY <1>1, <3>1, <3>2, <3>5 DEF StatusExplains
    <3> QED
      BY <3>2, <3>4, <3>6
  <2> QED
    BY <2>1, <2>2, <2>3, <2>4, EndAnswers
<1>5. OnlyOneEvaluated'
  <2> SUFFICES ASSUME alg = "OnlyOneApplicable", evaluated' # {}
               PROVE  evaluated' = Applicable(policies) /\ evaluated' = matched
    BY <1>1 DEF OnlyOneEvaluated, Applicable
  <2>1. /\ evaluated = {} /\ matched = {i \in 1 .. pos : Applies(policies[i])}
        /\ matched = IF selected = 0 THEN {} ELSE {selected}
    BY <1>1 DEF IInv, LoopInv
  <2>2. DOMAIN policies = 1 .. pos
    BY <1>1, <1>2, PoliciesTyped
  <2> QED
    BY <1>1, <2>1, <2>2 DEF Applicable
<1>6. result' # NoResult
  BY <1>4 DEF Results, NoResult, Pending, Decisions, Effects, Throws
<1>7. TypeOK'
  <2>1. evaluated' \subseteq 1 .. pos
    BY <1>1, <1>2 DEF TypeOK
  <2> QED
    BY <1>1, <1>2, <1>4, <2>1 DEF TypeOK, Results, Verdicts
<1>8. LoopInv' /\ ErrorInv' /\ ResultInv'
  BY <1>1, <1>4, <1>5, <1>6 DEF IInv, LoopInv, ErrorInv, ResultInv, NoResult
<1> QED
  BY <1>7, <1>8 DEF IInv

LEMMA StutterInv == IInv /\ UNCHANGED vars => IInv'
<1> SUFFICES ASSUME IInv, UNCHANGED vars PROVE IInv'
  OBVIOUS
<1>1. UNCHANGED <<alg, policies, pos, matched, evaluated, selected, firstD, firstP, firstDP,
                  firstError, atLeastOne, carried, result>>
  BY DEF vars, seen, kept, errors
<1>2. X' = X /\ Y' = Y
  BY <1>1 DEF X, Y
<1>3. TypeOK' /\ LoopInv' /\ ErrorInv'
  BY <1>1, <1>2 DEF IInv, TypeOK, LoopInv, ErrorInv, NoResult
<1>4. ResultInv'
  BY <1>1, <1>2 DEF IInv, ResultInv, NoResult, ObligationsOfDecision, StatusExplains, OnlyOneEvaluated
<1> QED
  BY <1>3, <1>4 DEF IInv

-----------------------------------------------------------------------------
LEMMA StepInv == IInv /\ [Next]_vars => IInv'
  BY SkipUnmatchedInv, IgnoreFailedMatchInv, RecordFailedMatchInv, SelectPolicyInv,
     SkipNotApplicableInv, IgnoreErrorInv, RecordErrorInv, CollectEffectInv, ThrowsInv,
     DenyFailedMatchInv, DenyError2Inv, ReturnFailedMatchInv, RejectSecondMatchInv,
     ReturnPolicyResultInv, EndOfPoliciesInv, StutterInv DEF Next

(* The inductive invariant holds throughout.                               *)
THEOREM Invariance == Spec => []IInv
<1> QED
  BY StepInv, InitInv, PTL DEF Spec

(* Every variable of the loops keeps its type (the *PolicyAlg classes).    *)
THEOREM TypeCorrect == Spec => []TypeOK
<1>1. IInv => TypeOK
  BY DEF IInv
<1> QED
  BY <1>1, Invariance, PTL

(* Obligations come from policies that were evaluated to the decision      *)
(* returned, and at the end of a loop from all of them (combine).          *)
THEOREM ObligationsMatchDecision == Spec => []ObligationsOfDecision
<1>1. IInv => ObligationsOfDecision
  <2> SUFFICES ASSUME IInv, result = NoResult PROVE ObligationsOfDecision
    BY DEF IInv, ResultInv
  <2>1. result.obligations = {} /\ result.decision = "Pending"
    BY DEF NoResult, Pending
  <2>2. result.decision # Y
    BY <2>1, TwoEffects DEF Effects
  <2> QED
    BY <2>1, <2>2 DEF ObligationsOfDecision
<1> QED
  BY <1>1, Invariance, PTL

(* An indeterminate answer carries the status of a policy that explains    *)
(* it, in every class (combine).                                           *)
THEOREM StatusIsExplained == Spec => []StatusExplains
<1>1. IInv => StatusExplains
  <2> SUFFICES ASSUME IInv, result = NoResult PROVE StatusExplains
    BY DEF IInv, ResultInv
  <2>1. result.decision \notin Indeterminates
    BY DEF NoResult, Pending, Indeterminates, Decisions, Effects
  <2> QED
    BY <2>1 DEF StatusExplains
<1> QED
  BY <1>1, Invariance, PTL

(* Only-one-applicable evaluates no policy before it has matched them all, *)
(* and never two (OnlyOneApplicablePolicyAlg.combine).                     *)
THEOREM OnlyOneIsEvaluated == Spec => []OnlyOneEvaluated
<1>1. IInv => OnlyOneEvaluated
  BY DEF IInv, ResultInv, LoopInv, OnlyOneEvaluated
<1> QED
  BY <1>1, Invariance, PTL

-----------------------------------------------------------------------------
(* The decision.  Toward it the loops also keep what their flags mean: how *)
(* the policies dealt with so far were evaluated, or why they were not.    *)
Given(d) == \E i \in 1 .. pos : Evaluate(policies[i]) = d

FlagInv ==
  result = NoResult =>
    /\ alg \in Matching => \A i \in 1 .. pos : policies[i].target # Absent
    /\ alg = "PermitUnlessDeny" => pos = 0
    /\ alg # "OnlyOneApplicable" =>
         /\ \A i \in 1 .. pos : ~ Stops(Evaluate(policies[i]))
         /\ atLeastOne <=> Given(Y)
    /\ alg \in {"DenyOverrides3", "DenyOverrides2", "FirstApplicable", "OnlyOneApplicable"} =>
         \A i \in 1 .. pos : ~ MissesTarget(policies[i])
    /\ alg = "DenyOverrides2" =>
         \A i \in 1 .. pos : Evaluate(policies[i]) \notin Indeterminates
    /\ alg \in Overrides3 => /\ firstD  # 0 <=> Given("IndeterminateD")
                             /\ firstP  # 0 <=> Given("IndeterminateP")
                             /\ firstDP # 0 <=> Given("IndeterminateDP")
    /\ alg = "PermitOverrides2" =>
         (firstError # 0 <=> \E i \in 1 .. pos : Troubled(policies[i]))

LEMMA InitFlags == Init => FlagInv
<1> SUFFICES ASSUME Init PROVE FlagInv
  OBVIOUS
<1>1. 1 .. pos = {} /\ pos = 0 /\ atLeastOne = FALSE
      /\ firstD = 0 /\ firstP = 0 /\ firstDP = 0 /\ firstError = 0
  BY DEF Init
<1> QED
  BY <1>1 DEF FlagInv, Given

(* One more policy, whose evaluation is e.                                 *)
LEMMA GoingFlags ==
  ASSUME IInv, FlagInv, Going, NEW p, NEW e, p = policies[pos + 1], e = Evaluate(p),
         alg \in Matching => p.target # Absent,
         alg # "PermitUnlessDeny",
         alg # "OnlyOneApplicable" => ~ Stops(e) /\ (atLeastOne' <=> atLeastOne \/ e = Y),
         alg \in {"DenyOverrides3", "DenyOverrides2", "FirstApplicable", "OnlyOneApplicable"} =>
           ~ MissesTarget(p),
         alg = "DenyOverrides2" => e \notin Indeterminates,
         alg \in Overrides3 => /\ firstD'  # 0 <=> firstD  # 0 \/ e = "IndeterminateD"
                               /\ firstP'  # 0 <=> firstP  # 0 \/ e = "IndeterminateP"
                               /\ firstDP' # 0 <=> firstDP # 0 \/ e = "IndeterminateDP",
         alg = "PermitOverrides2" => (firstError' # 0 <=> firstError # 0 \/ Troubled(p))
  PROVE  FlagInv'
<1>1. /\ result = NoResult /\ alg' = alg /\ policies' = policies /\ X' = X /\ Y' = Y
      /\ pos \in Nat /\ pos' = pos + 1
  BY DEF Going, IInv, TypeOK, X, Y
<1>2. \A i : i \in 1 .. pos' <=> i \in 1 .. pos \/ i = pos + 1
  BY <1>1
<1>3. \A d : Stops(d)' <=> Stops(d)
  BY <1>1 DEF Stops
<1>4. \A d : (\E i \in 1 .. pos' : Evaluate(policies'[i]) = d) <=> Given(d) \/ e = d
  BY <1>1, <1>2 DEF Given
<1> HIDE DEF FlagInv
<1>5. /\ alg \in Matching => \A i \in 1 .. pos' : policies[i].target # Absent
      /\ alg # "OnlyOneApplicable" => \A i \in 1 .. pos' : ~ Stops(Evaluate(policies[i]))
      /\ alg \in {"DenyOverrides3", "DenyOverrides2", "FirstApplicable", "OnlyOneApplicable"} =>
           \A i \in 1 .. pos' : ~ MissesTarget(policies[i])
      /\ alg = "DenyOverrides2" =>
           \A i \in 1 .. pos' : Evaluate(policies[i]) \notin Indeterminates
      /\ alg = "PermitOverrides2" =>
           (firstError' # 0 <=> \E i \in 1 .. pos' : Troubled(policies[i]))
  BY <1>1, <1>2 DEF FlagInv
<1>6. /\ alg # "OnlyOneApplicable" => (atLeastOne' <=> Given(Y) \/ e = Y)
      /\ alg \in Overrides3 => /\ firstD'  # 0 <=> Given("IndeterminateD")  \/ e = "IndeterminateD"
                               /\ firstP'  # 0 <=> Given("IndeterminateP")  \/ e = "IndeterminateP"
                               /\ firstDP' # 0 <=> Given("IndeterminateDP") \/ e = "IndeterminateDP"
  BY <1>1 DEF FlagInv
<1>7. \A d : Given(d)' <=> Given(d) \/ e = d
  BY <1>4 DEF Given
<1> QED
  BY <1>1, <1>3, <1>5, <1>6, <1>7 DEF FlagInv

(* An answer ends the loops.                                               *)
LEMMA AnswersEnd ==
  ASSUME NEW d, d # Pending, NEW from, result' = Definite(d, from) \/ result' = Error(d, from)
  PROVE  FlagInv'
<1>1. result' # NoResult
  BY DefiniteIs, ErrorIs
<1> QED
  BY <1>1 DEF FlagInv, NoResult

LEMMA MatchFlags ==
  ASSUME IInv, FlagInv, SkipUnmatched \/ IgnoreFailedMatch \/ RecordFailedMatch \/ SelectPolicy
  PROVE  FlagInv'
<1> DEFINE p == policies[pos + 1]
           e == Evaluate(p)
<1>0. X \in Effects /\ Y \in Effects /\ "NotApplicable" \notin Effects /\ Absent \notin MatchResults
      /\ "NotApplicable" \notin Indeterminates
  BY TwoEffects DEF Effects, MatchResults, Absent, Indeterminates
<1>1. CASE SkipUnmatched
  <2>1. /\ Going /\ p.target = "NO_MATCH" /\ alg \in Matching
        /\ UNCHANGED <<firstD, firstP, firstDP, firstError, atLeastOne>>
    BY <1>1 DEF SkipUnmatched, Iterate, Going, kept, errors
  <2>2. e = "NotApplicable" /\ p.target # Absent /\ ~ MissesTarget(p) /\ ~ Troubled(p)
    BY <1>0, <2>1 DEF Evaluate, Applies, Absent, MissesTarget, Troubled
  <2>3. ~ Stops(e) /\ e # Y /\ alg # "PermitUnlessDeny"
    BY <1>0, <2>1, <2>2 DEF Stops, Matching, Overrides3, Overrides2
  <2> HIDE DEF p, e
  <2>4. p = policies[pos + 1] /\ e = Evaluate(p)
    BY DEF p, e
  <2> QED
    BY <1>0, <2>1, <2>2, <2>3, <2>4, GoingFlags
<1>2. CASE IgnoreFailedMatch \/ RecordFailedMatch
  <2>1. /\ Going /\ p.target = "INDETERMINATE" /\ alg \in {"PermitOverrides3", "PermitOverrides2"}
        /\ UNCHANGED <<firstD, firstP, firstDP, atLeastOne>>
        /\ firstError' = IF alg = "PermitOverrides2" THEN First(firstError) ELSE firstError
    BY <1>2 DEF IgnoreFailedMatch, RecordFailedMatch, Iterate, Going, kept, errors
  <2>2. e = "NotApplicable" /\ p.target # Absent /\ Troubled(p)
    BY <1>0, <2>1 DEF Evaluate, Applies, Absent, MissesTarget, Troubled
  <2>3. ~ Stops(e) /\ e # Y
    BY <1>0, <2>1, <2>2 DEF Stops
  <2>4. alg = "PermitOverrides2" => firstError' # 0
    BY <2>1 DEF First, IInv, TypeOK
  <2> HIDE DEF p, e
  <2>5. p = policies[pos + 1] /\ e = Evaluate(p)
    BY DEF p, e
  <2> QED
    BY <1>0, <2>1, <2>2, <2>3, <2>4, <2>5, GoingFlags
<1>3. CASE SelectPolicy
  <2>1. /\ Going /\ p.target = "MATCH" /\ alg = "OnlyOneApplicable"
        /\ alg \notin Overrides3
    BY <1>3 DEF SelectPolicy, Iterate, Going, Overrides3
  <2>2. p.target # Absent /\ ~ MissesTarget(p)
    BY <2>1 DEF Absent, MissesTarget
  <2> HIDE DEF p, e
  <2>3. p = policies[pos + 1] /\ e = Evaluate(p)
    BY DEF p, e
  <2> QED
    BY <2>1, <2>2, <2>3, GoingFlags
<1> QED
  BY <1>1, <1>2, <1>3

LEMMA EvaluateFlags ==
  ASSUME IInv, FlagInv, NEW d \in Decisions,
         SkipNotApplicable(d) \/ CollectEffect(d) \/ RecordError3(d) \/ RecordError2(d) \/ IgnoreError(d)
  PROVE  FlagInv'
<1> DEFINE p == policies[pos + 1]
<1>0. X \in Effects /\ Y \in Effects /\ X # Y /\ "NotApplicable" \notin Effects
      /\ "NotApplicable" \notin Indeterminates /\ Effects \cap Indeterminates = {}
      /\ {"IndeterminateD", "IndeterminateP", "IndeterminateDP"} \subseteq Indeterminates
  BY TwoEffects DEF Effects, Indeterminates, Decisions
<1>1. /\ EvaluateNext(d) /\ result' = result
  BY DEF SkipNotApplicable, CollectEffect, RecordError3, RecordError2, IgnoreError
<1>2. /\ Going /\ d = Evaluate(p) /\ alg \notin {"OnlyOneApplicable", "PermitUnlessDeny"}
      /\ alg \in Matching => p.target = "MATCH"
  BY <1>1 DEF EvaluateNext, Iterate, Going, Matching, Overrides3, Overrides2, Unless
<1>3. /\ alg \in Matching => /\ p.target # Absent /\ ~ MissesTarget(p)
                             /\ Troubled(p) <=> d \in Indeterminates
      /\ alg \in {"DenyOverrides3", "DenyOverrides2", "FirstApplicable", "PermitOverrides2"} => alg \in Matching
  BY <1>2 DEF Absent, MissesTarget, Troubled, Matching, Overrides3, Overrides2
<1>4. /\ ~ Stops(d)
      /\ atLeastOne' <=> atLeastOne \/ d = Y
      /\ alg = "DenyOverrides2" => d \notin Indeterminates
      /\ alg \in Overrides3 => /\ firstD'  # 0 <=> firstD  # 0 \/ d = "IndeterminateD"
                               /\ firstP'  # 0 <=> firstP  # 0 \/ d = "IndeterminateP"
                               /\ firstDP' # 0 <=> firstDP # 0 \/ d = "IndeterminateDP"
      /\ alg = "PermitOverrides2" => (firstError' # 0 <=> firstError # 0 \/ d \in Indeterminates)
  <2>1. CASE SkipNotApplicable(d)
    BY <1>0, <2>1 DEF SkipNotApplicable, Stops, kept, errors
  <2>2. CASE CollectEffect(d)
    BY <1>0, <2>2 DEF CollectEffect, errors
  <2>3. CASE RecordError3(d)
    BY <1>0, <2>3 DEF RecordError3, Stops, Overrides3, First, IInv, TypeOK
  <2>4. CASE RecordError2(d)
    BY <1>0, <2>4 DEF RecordError2, Stops, Overrides3, First, IInv, TypeOK
  <2>5. CASE IgnoreError(d)
    BY <1>0, <2>5 DEF IgnoreError, Stops, Overrides3, kept, errors
  <2> QED
    BY <2>1, <2>2, <2>3, <2>4, <2>5
<1> HIDE DEF p
<1>5. p = policies[pos + 1]
  BY DEF p
<1> QED
  BY <1>2, <1>3, <1>4, <1>5, GoingFlags

LEMMA StepFlags == IInv /\ FlagInv /\ [Next]_vars => FlagInv'
<1> SUFFICES ASSUME IInv, FlagInv, [Next]_vars PROVE FlagInv'
  OBVIOUS
<1>0. {"Deny", "Indeterminate", Throws} \cap {Pending} = {}
  BY DEF Throws, Pending
<1>1. CASE MatchThrows \/ CastElement \/ DenyFailedMatch \/ \E d \in Decisions : DenyError2(d)
  <2>1. \E d \in {"Deny", Throws} : result' = Definite(d, {})
    BY <1>1 DEF MatchThrows, CastElement, DenyFailedMatch, DenyError2
  <2> QED
    BY <1>0, <2>1, AnswersEnd
<1>2. CASE ReturnFailedMatch \/ RejectSecondMatch
  <2>1. result' = Error("Indeterminate", pos + 1)
    BY <1>2 DEF ReturnFailedMatch, RejectSecondMatch
  <2> QED
    BY <1>0, <2>1, AnswersEnd
<1>3. ASSUME NEW d \in Decisions, ReturnPolicyResult(d) PROVE FlagInv'
  <2>1. result' = ResultOf(pos + 1) /\ pos + 1 \in 1 .. Len(policies)
    BY <1>3, PoliciesTyped DEF ReturnPolicyResult, EvaluateNext, Iterate, IInv, TypeOK
  <2>2. result' # NoResult
    BY <2>1, ResultOfIs DEF IInv
  <2> QED
    BY <2>2 DEF FlagInv, NoResult
<1>4. CASE EndOfPolicies
  <2>1. result' # NoResult
    <3>2. CASE result' = NoneApplied
      BY <3>2, DefiniteIs DEF NoneApplied, Pending
    <3>3. CASE result' = Definite(Y, carried)
      <4>1. Y # Pending
        BY TwoEffects DEF Effects, Pending
      <4> QED
        BY <3>3, <4>1, DefiniteIs
    <3>4. CASE \E d \in Indeterminates : \E k \in {firstD, firstP, firstDP, firstError} :
                 k # 0 /\ result' = Error(d, k)
      <4>1. Pending \notin Indeterminates
        BY DEF Pending, Indeterminates, Decisions, Effects
      <4> QED
        BY <3>4, <4>1, ErrorIs
    <3>5. CASE selected # 0 /\ result' = ResultOf(selected)
      <4>1. selected \in 1 .. Len(policies)
        BY <3>5, <1>4, PoliciesTyped DEF EndOfPolicies, IInv, TypeOK
      <4> QED
        BY <3>5, <4>1, ResultOfIs DEF IInv
    <3> QED
      BY <1>4, <3>2, <3>3, <3>4, <3>5, EndAnswers
  <2> QED
    BY <2>1 DEF FlagInv, NoResult
<1>5. CASE UNCHANGED vars
  BY <1>5 DEF FlagInv, vars, kept, errors, Given, Stops, X, Y, NoResult
<1> QED
  BY <1>1, <1>2, <1>3, <1>4, <1>5, MatchFlags, EvaluateFlags DEF Next

-----------------------------------------------------------------------------
(* What policies could have decided.                                       *)
LEMMA BehindIs ==
  /\ \A d \in Outcomes : Behind(d) = {d}
  /\ Behind("IndeterminateD") = {"Deny", "NotApplicable"}
  /\ Behind("IndeterminateP") = {"Permit", "NotApplicable"}
  /\ Behind("IndeterminateDP") = Outcomes /\ Behind("Indeterminate") = Outcomes
<1> QED
  BY DEF Behind, Outcomes, Effects, IndeterminateOf, Opposite

LEMMA BehindType ==
  ASSUME NEW d \in Decisions
  PROVE  Behind(d) \subseteq Outcomes /\ Behind(d) # {}
<1> QED
  BY BehindIs DEF Decisions, Outcomes, Effects

LEMMA PolicyOutcomesIs ==
  ASSUME NEW p \in PolicyInstances
  PROVE  /\ PolicyOutcomes(p) \subseteq Outcomes /\ PolicyOutcomes(p) # {}
         /\ ~ MissesTarget(p) => PolicyOutcomes(p) = Behind(Evaluate(p))
         /\ MissesTarget(p) => /\ "NotApplicable" \in PolicyOutcomes(p)
                               /\ Evaluate(p) = "NotApplicable"
<1>1. /\ p.target \in MatchResults \cup {Absent} /\ Behind(p.combined) \subseteq Outcomes
      /\ Behind(p.combined) # {} /\ "NotApplicable" \in Outcomes
      /\ Behind("NotApplicable") = {"NotApplicable"}
  BY BehindType, BehindIs DEF PolicyInstances, Outcomes
<1>2. MissesTarget(p) => ~ Applies(p)
  BY DEF MissesTarget, Applies, Absent
<1> QED
  BY <1>1, <1>2 DEF PolicyOutcomes, Evaluate

(* Their decisions are those of Decidable, for the outcomes of policies.   *)
PolicyOutcomesOf(ps) == [i \in DOMAIN ps |-> PolicyOutcomes(ps[i])]

LEMMA PoliciesDecidable ==
  ASSUME NEW ps \in Seq(PolicyInstances)
  PROVE  /\ Plausible(DOMAIN ps, PolicyOutcomesOf(ps))
         /\ \A a : PolicyCouldDecide(a, ps) = Decidable(a, DOMAIN ps, PolicyOutcomesOf(ps))
         /\ \A i \in DOMAIN ps : PolicyOutcomesOf(ps)[i] = PolicyOutcomes(ps[i])
<1>1. Plausible(DOMAIN ps, PolicyOutcomesOf(ps))
  BY PolicyOutcomesIs DEF Plausible, PolicyOutcomesOf
<1>2. Choices(DOMAIN ps, PolicyOutcomesOf(ps))
        = {q \in [DOMAIN ps -> Outcomes] : \A i \in DOMAIN ps : q[i] \in PolicyOutcomes(ps[i])}
  BY DEF Choices, PolicyOutcomesOf
<1> QED
  BY <1>1, <1>2 DEF PolicyCouldDecide, Decidable, PolicyOutcomesOf

LEMMA OverridesPolicies ==
  ASSUME NEW a \in Overrides3 \cup Overrides2, NEW ps \in Seq(PolicyInstances)
  PROVE  LET over  == Overriding(a)
             under == Opposite(over)
             could == PolicyCouldDecide(a, ps)
         IN
         /\ could \subseteq Outcomes
         /\ over \in could <=> \E i \in DOMAIN ps : over \in PolicyOutcomes(ps[i])
         /\ under \in could <=> /\ \E i \in DOMAIN ps : under \in PolicyOutcomes(ps[i])
                                /\ \A i \in DOMAIN ps : PolicyOutcomes(ps[i]) # {over}
         /\ "NotApplicable" \in could
              <=> \A i \in DOMAIN ps : "NotApplicable" \in PolicyOutcomes(ps[i])
<1> DEFINE S     == PolicyOutcomesOf(ps)
           over  == Overriding(a)
           under == Opposite(over)
<1>1. /\ Plausible(DOMAIN ps, S) /\ PolicyCouldDecide(a, ps) = Decidable(a, DOMAIN ps, S)
      /\ \A i \in DOMAIN ps : S[i] = PolicyOutcomes(ps[i])
  BY PoliciesDecidable
<1> HIDE DEF S
<1>2. /\ Decidable(a, DOMAIN ps, S) \subseteq Outcomes
      /\ over \in Decidable(a, DOMAIN ps, S) <=> \E i \in DOMAIN ps : over \in S[i]
      /\ under \in Decidable(a, DOMAIN ps, S)
           <=> /\ \E i \in DOMAIN ps : under \in S[i]
               /\ \A i \in DOMAIN ps : S[i] # {over}
      /\ "NotApplicable" \in Decidable(a, DOMAIN ps, S)
           <=> \A i \in DOMAIN ps : "NotApplicable" \in S[i]
  BY <1>1, OverridesDecidable
<1> QED
  BY <1>1, <1>2

LEMMA UnlessPolicies ==
  ASSUME NEW a \in Unless, NEW ps \in Seq(PolicyInstances)
  PROVE  PolicyCouldDecide(a, ps) = {Overriding(a)}
           <=> \E i \in DOMAIN ps : PolicyOutcomes(ps[i]) = {Overriding(a)}
<1> DEFINE S == PolicyOutcomesOf(ps)
<1>1. \A i \in DOMAIN ps : S[i] = PolicyOutcomes(ps[i])
  BY PoliciesDecidable
<1>2. Plausible(DOMAIN ps, S) /\ PolicyCouldDecide(a, ps) = Decidable(a, DOMAIN ps, S)
  BY PoliciesDecidable
<1> HIDE DEF S
<1>3. Decidable(a, DOMAIN ps, S) = {Overriding(a)} <=> \E i \in DOMAIN ps : S[i] = {Overriding(a)}
  BY <1>2, UnlessDecidable
<1> QED
  BY <1>1, <1>2, <1>3

LEMMA FirstApplicablePolicies ==
  ASSUME NEW ps \in Seq(PolicyInstances)
  PROVE  /\ \A k \in DOMAIN ps, e \in Effects :
              /\ PolicyOutcomes(ps[k]) = {e}
              /\ \A j \in 1 .. k - 1 : PolicyOutcomes(ps[j]) = {"NotApplicable"}
              => PolicyCouldDecide("FirstApplicable", ps) = {e}
         /\ (\A j \in DOMAIN ps : PolicyOutcomes(ps[j]) = {"NotApplicable"})
              => PolicyCouldDecide("FirstApplicable", ps) = {"NotApplicable"}
<1> DEFINE S == PolicyOutcomesOf(ps)
<1>1. Len(ps) \in Nat /\ DOMAIN ps = 1 .. Len(ps)
  OBVIOUS
<1>2. /\ Plausible(1 .. Len(ps), S)
      /\ PolicyCouldDecide("FirstApplicable", ps) = Decidable("FirstApplicable", 1 .. Len(ps), S)
      /\ \A i \in DOMAIN ps : S[i] = PolicyOutcomes(ps[i])
  BY <1>1, PoliciesDecidable
<1> HIDE DEF S
<1>3. /\ \A k \in 1 .. Len(ps), e \in Effects :
            S[k] = {e} /\ (\A j \in 1 .. k - 1 : S[j] = {"NotApplicable"})
              => Decidable("FirstApplicable", 1 .. Len(ps), S) = {e}
      /\ (\A j \in 1 .. Len(ps) : S[j] = {"NotApplicable"})
              => Decidable("FirstApplicable", 1 .. Len(ps), S) = {"NotApplicable"}
  BY <1>1, <1>2, FirstApplicableDecidable
<1>4. \A k \in 1 .. Len(ps) : \A j \in 1 .. k - 1 : j \in DOMAIN ps
  BY <1>1
<1> QED
  BY <1>1, <1>2, <1>3, <1>4

(* What is overlooked does not apply; what is left is what the policies    *)
(* decided.                                                                *)
Left(p) == LET e == Evaluate(p) IN IF e = "Indeterminate" THEN "NotApplicable" ELSE e

LEMMA OverlookIs ==
  ASSUME NEW ps \in Seq(PolicyInstances)
  PROVE  /\ Overlook(ps) \in Seq(PolicyInstances) /\ DOMAIN Overlook(ps) = DOMAIN ps
         /\ \A i \in DOMAIN ps : PolicyOutcomes(Overlook(ps)[i]) = Behind(Left(ps[i]))
<1>1. Len(ps) \in Nat /\ DOMAIN ps = 1 .. Len(ps) /\ \A i \in DOMAIN ps : ps[i] \in PolicyInstances
  OBVIOUS
<1>2. ASSUME NEW i \in DOMAIN ps
      PROVE  /\ Overlook(ps)[i] \in PolicyInstances
             /\ PolicyOutcomes(Overlook(ps)[i]) = Behind(Left(ps[i]))
  <2> DEFINE p == ps[i]
             q == [p EXCEPT !.target = "NO_MATCH"]
             drops == MissesTarget(p) \/ Evaluate(p) = "Indeterminate"
  <2>1. p \in PolicyInstances
    BY <1>1
  <2>2. Overlook(ps)[i] = IF drops THEN q ELSE p
    BY <1>1 DEF Overlook
  <2>3. CASE ~ drops
    <3>1. Left(p) = Evaluate(p)
      BY <2>3 DEF Left
    <3> QED
      BY <2>1, <2>2, <2>3, <3>1, PolicyOutcomesIs
  <2>4. CASE drops
    <3>1. q \in PolicyInstances /\ q.target = "NO_MATCH"
      BY <2>1 DEF PolicyInstances, MatchResults
    <3>2. ~ MissesTarget(q) /\ Evaluate(q) = "NotApplicable"
      BY <3>1 DEF MissesTarget, Evaluate, Applies, Absent
    <3>3. Left(p) = "NotApplicable"
      BY <2>1, <2>4, PolicyOutcomesIs DEF Left
    <3> HIDE DEF q, p, drops
    <3>4. PolicyOutcomes(q) = Behind("NotApplicable") /\ Overlook(ps)[i] = q
      BY <2>2, <2>4, <3>1, <3>2, PolicyOutcomesIs
    <3> QED
      BY <3>1, <3>3, <3>4 DEF p
  <2> QED
    BY <2>3, <2>4
<1>3. Overlook(ps) \in [1 .. Len(ps) -> PolicyInstances] /\ DOMAIN Overlook(ps) = DOMAIN ps
  BY <1>1, <1>2 DEF Overlook
<1> QED
  BY <1>1, <1>2, <1>3

(* Where one policy surely overrides.                                      *)
LEMMA SurelyOverrides ==
  ASSUME NEW a \in Overrides3 \cup Overrides2, NEW ps \in Seq(PolicyInstances),
         NEW i \in DOMAIN ps, PolicyOutcomes(ps[i]) = {Overriding(a)}
  PROVE  PolicyCouldDecide(a, ps) = {Overriding(a)}
<1> DEFINE over  == Overriding(a)
           under == Opposite(over)
           could == PolicyCouldDecide(a, ps)
<1>1. Outcomes = {over, under, "NotApplicable"} /\ over \notin {under, "NotApplicable"}
  BY DEF Overriding, Opposite, Outcomes, Effects
<1>2. /\ could \subseteq Outcomes
      /\ over \in could <=> \E j \in DOMAIN ps : over \in PolicyOutcomes(ps[j])
      /\ under \in could <=> /\ \E j \in DOMAIN ps : under \in PolicyOutcomes(ps[j])
                             /\ \A j \in DOMAIN ps : PolicyOutcomes(ps[j]) # {over}
      /\ "NotApplicable" \in could
           <=> \A j \in DOMAIN ps : "NotApplicable" \in PolicyOutcomes(ps[j])
  BY OverridesPolicies
<1> HIDE DEF could, over, under
<1>3. PolicyOutcomes(ps[i]) = {over}
  BY DEF over
<1>4. over \in could /\ under \notin could /\ "NotApplicable" \notin could
  BY <1>1, <1>2, <1>3
<1> QED
  BY <1>1, <1>2, <1>4 DEF over, could

(* An envelope names its set, up to what decides whether a policy might    *)
(* not have applied.                                                       *)
LEMMA EnvelopeTells ==
  /\ \A S \in SUBSET Outcomes, d \in Outcomes : Envelope(S) = d => S = {d}
  /\ \A S, T \in SUBSET Outcomes :
       S # {} /\ T # {} /\ ("NotApplicable" \in S <=> "NotApplicable" \in T)
         /\ Envelope(S) = Envelope(T) => S = T
<1>1. Outcomes = {"Permit", "Deny", "NotApplicable"}
  BY DEF Outcomes, Effects
<1>2. ASSUME NEW S \in SUBSET Outcomes, NEW d \in Outcomes, Envelope(S) = d PROVE S = {d}
  <2>1. PICK e \in Outcomes : S = {e}
    BY <1>1, <1>2 DEF Envelope
  <2> QED
    BY <1>2, <2>1, EnvelopeValue
<1>3. ASSUME NEW S \in SUBSET Outcomes, S # {}
      PROVE  /\ "Permit" \in S <=> Envelope(S) \in {"Permit", "IndeterminateP", "IndeterminateDP"}
             /\ "Deny"   \in S <=> Envelope(S) \in {"Deny", "IndeterminateD", "IndeterminateDP"}
  <2>1. CASE \E e \in Outcomes : S = {e}
    <3>1. PICK e \in Outcomes : S = {e}
      BY <2>1
    <3> QED
      BY <1>1, <3>1, EnvelopeValue
  <2>2. CASE ~ \E e \in Outcomes : S = {e}
    <3>1. Envelope(S) = IF "Permit" \notin S THEN "IndeterminateD"
                        ELSE IF "Deny" \notin S THEN "IndeterminateP" ELSE "IndeterminateDP"
      BY <2>2 DEF Envelope
    <3>2. "Permit" \notin S => "Deny" \in S
      BY <1>1, <1>3, <2>2
    <3> QED
      BY <3>1, <3>2
  <2> QED
    BY <2>1, <2>2
<1>4. ASSUME NEW S \in SUBSET Outcomes, NEW T \in SUBSET Outcomes, S # {}, T # {},
             "NotApplicable" \in S <=> "NotApplicable" \in T, Envelope(S) = Envelope(T)
      PROVE  S = T
  <2>1. \A o \in Outcomes : o \in S <=> o \in T
    BY <1>1, <1>3, <1>4
  <2> QED
    BY <2>1
<1> QED
  BY <1>2, <1>4

LEMMA EnvelopeType ==
  ASSUME NEW S
  PROVE  Envelope(S) \in Decisions
<1> QED
  BY DEF Envelope, Decisions, Outcomes, Effects

-----------------------------------------------------------------------------
(* What it takes to be an answer of the code.                              *)
LEMMA AnswersAre ==
  ASSUME NEW a, NEW ps, NEW v \in Verdicts,
         PolicyDeparts(a, ps) <=> v \notin PolicyPromised(a, ps)
  PROVE  v \in PolicyAnswers(a, ps)
<1> QED
  BY DEF PolicyAnswers

LEMMA PromiseOf ==
  ASSUME NEW a, NEW ps
  PROVE  /\ a \in Overrides3 \cup Overrides2 => PolicyPromised(a, ps) = OverridesPromise(a, ps)
         /\ a = "FirstApplicable" => PolicyPromised(a, ps) = FirstApplicablePromise(ps)
         /\ a = "OnlyOneApplicable" => PolicyPromised(a, ps) = OnlyOneApplicablePromise(ps)
         /\ a \in Unless => PolicyPromised(a, ps) = UnlessPromise(a, ps)
         /\ a \in Overrides3 => PolicyPromised(a, ps) = {Envelope(PolicyCouldDecide(a, ps))}
         /\ a \notin {"DenyOverrides3", "PermitOverrides3", "PermitUnlessDeny"} => ~ PolicyDeparts(a, ps)
<1> QED
  BY DEF PolicyPromised, PolicyDeparts, OverridesPromise, Overrides3, Overrides2, Unless

LEMMA VerdictsAre ==
  /\ Effects \subseteq Verdicts /\ Indeterminates \subseteq Verdicts
  /\ {"NotApplicable", "Indeterminate", "IndeterminateD", "IndeterminateP", "IndeterminateDP", Throws}
       \subseteq Verdicts
  /\ Throws \notin Decisions /\ Decisions \subseteq Verdicts
<1> QED
  BY DEF Verdicts, Decisions, Effects, Indeterminates, Throws

-----------------------------------------------------------------------------
(* At the end of the loops: the state, and what it says of every policy.   *)
LEMMA AtEnd ==
  ASSUME IInv, FlagInv, EndOfPolicies
  PROVE  /\ policies \in Seq(PolicyInstances) /\ pos = Len(policies) /\ result = NoResult
         /\ DOMAIN policies = 1 .. pos /\ pos \in Nat
         /\ \A i \in 1 .. pos : /\ Evaluate(policies[i]) \in Decisions
                                /\ policies[i] \in PolicyInstances
         /\ alg \in PolicyAlgorithms /\ UNCHANGED <<alg, policies>>
<1> QED
  BY PoliciesTyped DEF EndOfPolicies, IInv, TypeOK

LEMMA DenyOverrides3EndPromised ==
  ASSUME IInv, FlagInv, EndOfPolicies, alg = "DenyOverrides3"
  PROVE  result'.decision \in PolicyAnswers(alg, policies)
<1> DEFINE E(i)  == Evaluate(policies[i])
           O(i)  == PolicyOutcomes(policies[i])
           plain == \E i \in 1 .. pos : E(i) = "Indeterminate"
           could == PolicyCouldDecide(alg, policies)
           NA    == "NotApplicable"
           v     == result'.decision
<1>1. /\ policies \in Seq(PolicyInstances) /\ DOMAIN policies = 1 .. pos /\ result = NoResult
      /\ \A i \in 1 .. pos : E(i) \in Decisions /\ policies[i] \in PolicyInstances
  BY AtEnd
<1>2. /\ alg \in Overrides3 /\ Overriding(alg) = "Deny" /\ Opposite("Deny") = "Permit"
      /\ X = "Deny" /\ Y = "Permit"
  BY DEF Overrides3, Overriding, Opposite, X, Y
<1>3. result' = DenyOverrides3End
  BY DEF EndOfPolicies
<1>4. v = IF firstDP # 0 THEN "IndeterminateDP"
          ELSE IF firstD # 0 /\ firstP # 0 /\ atLeastOne THEN "IndeterminateDP"
          ELSE IF firstD # 0 THEN "IndeterminateD"
          ELSE IF atLeastOne THEN "Permit"
          ELSE IF firstP # 0 THEN "IndeterminateP" ELSE NA
  BY <1>3, DefiniteIs, ErrorIs DEF DenyOverrides3End, NoneApplied
<1>5. /\ \A i \in 1 .. pos : E(i) # "Deny" /\ ~ MissesTarget(policies[i])
      /\ atLeastOne <=> \E i \in 1 .. pos : E(i) = "Permit"
      /\ firstD  # 0 <=> \E i \in 1 .. pos : E(i) = "IndeterminateD"
      /\ firstP  # 0 <=> \E i \in 1 .. pos : E(i) = "IndeterminateP"
      /\ firstDP # 0 <=> \E i \in 1 .. pos : E(i) = "IndeterminateDP"
  BY <1>1, <1>2 DEF FlagInv, Given, Stops
<1>6. SeesBoth(policies) <=> firstDP # 0 \/ (firstD # 0 /\ firstP # 0 /\ atLeastOne)
  BY <1>1, <1>5 DEF SeesBoth
<1>7. ASSUME NEW i \in 1 .. pos
      PROVE  /\ "Deny"   \in O(i) <=> E(i) \in {"IndeterminateD", "IndeterminateDP", "Indeterminate"}
             /\ "Permit" \in O(i)
                  <=> E(i) \in {"Permit", "IndeterminateP", "IndeterminateDP", "Indeterminate"}
             /\ NA \in O(i) <=> E(i) # "Permit"
  <2>1. O(i) = Behind(E(i))
    BY <1>1, <1>5, PolicyOutcomesIs
  <2>2. E(i) \in {"Permit", NA, "IndeterminateD", "IndeterminateP", "IndeterminateDP", "Indeterminate"}
    BY <1>1, <1>5 DEF Decisions, Effects
  <2>3. Outcomes = {"Permit", "Deny", NA}
    BY DEF Outcomes, Effects
  <2> HIDE DEF E, O
  <2> QED
    BY <2>1, <2>2, <2>3, BehindIs
<1>8. /\ could \subseteq Outcomes
      /\ "Deny" \in could <=> firstD # 0 \/ firstDP # 0 \/ plain
      /\ "Permit" \in could <=> atLeastOne \/ firstP # 0 \/ firstDP # 0 \/ plain
      /\ NA \in could <=> ~ atLeastOne
  <2>1. /\ could \subseteq Outcomes
        /\ "Deny" \in could <=> \E i \in 1 .. pos : "Deny" \in O(i)
        /\ "Permit" \in could
             <=> /\ \E i \in 1 .. pos : "Permit" \in O(i)
                 /\ \A i \in 1 .. pos : O(i) # {"Deny"}
        /\ NA \in could <=> \A i \in 1 .. pos : NA \in O(i)
    BY <1>1, <1>2, OverridesPolicies
  <2> HIDE DEF E, O, could
  <2>2. \A i \in 1 .. pos : O(i) # {"Deny"}
    BY <1>7
  <2> QED
    BY <1>5, <1>7, <2>1, <2>2
<1>9. PolicyDeparts(alg, policies) <=> Effects \subseteq could /\ ~ SeesBoth(policies)
  BY <1>1, <1>5 DEF PolicyDeparts
<1> HIDE DEF E, O, could, plain, v
<1>10. Outcomes = {"Permit", "Deny", NA} /\ Effects = {"Permit", "Deny"} /\ v \in Verdicts
  BY <1>4, VerdictsAre DEF Outcomes, Effects
<1>11. CASE Effects \subseteq could
  <2>1. Envelope(could) = "IndeterminateDP"
    BY <1>8, <1>10, <1>11, EnvelopeValue
  <2>2. v = "IndeterminateDP" <=> SeesBoth(policies)
    BY <1>4, <1>6
  <2>3. PolicyDeparts(alg, policies) <=> v # Envelope(could)
    BY <1>9, <1>11, <2>1, <2>2
  <2> QED
    BY <1>2, <1>10, <2>3, AnswersAre, PromiseOf DEF v, could
<1>12. CASE ~ (Effects \subseteq could)
  <2>1. v = Envelope(could)
    <3>1. CASE "Deny" \in could /\ "Permit" \notin could
      <4>1. could = {"Deny", NA}
        BY <1>8, <1>10, <3>1
      <4> QED
        BY <1>4, <1>8, <3>1, <4>1, EnvelopeValue
    <3>2. CASE "Deny" \notin could /\ atLeastOne
      <4>1. could = {"Permit"}
        BY <1>8, <1>10, <3>2
      <4> QED
        BY <1>4, <1>8, <1>10, <3>2, <4>1, EnvelopeValue
    <3>3. CASE "Deny" \notin could /\ ~ atLeastOne
      <4>1. could = IF firstP # 0 THEN {"Permit", NA} ELSE {NA}
        BY <1>8, <1>10, <3>3
      <4> QED
        BY <1>4, <1>8, <1>10, <3>3, <4>1, EnvelopeValue
    <3> QED
      BY <1>8, <1>10, <1>12, <3>1, <3>2, <3>3
  <2> QED
    BY <1>2, <1>9, <1>10, <1>12, <2>1, AnswersAre, PromiseOf DEF v, could
<1> QED
  BY <1>11, <1>12

(* What the permit-overrides loop answers is the envelope of what it has   *)
(* seen, but for a lost Deny.                                              *)
LEMMA PermitOverrides3Seen ==
  ASSUME IInv, FlagInv, EndOfPolicies, alg = "PermitOverrides3"
  PROVE  LET found == PolicyCouldDecide(alg, Overlook(policies)) IN
         /\ result'.decision
              = IF found = {"Deny", "NotApplicable"} THEN "NotApplicable" ELSE Envelope(found)
         /\ found \subseteq Outcomes /\ found # {}
         /\ "NotApplicable" \in found <=> ~ \E i \in 1 .. pos : Evaluate(policies[i]) = "Deny"
         /\ "Deny" \in found
              => \E i \in 1 .. pos : Evaluate(policies[i]) \in {"Deny", "IndeterminateD", "IndeterminateDP"}
<1> DEFINE E(i)  == Evaluate(policies[i])
           L(i)  == Left(policies[i])
           O(i)  == PolicyOutcomes(Overlook(policies)[i])
           found == PolicyCouldDecide(alg, Overlook(policies))
           NA    == "NotApplicable"
           v     == result'.decision
<1>1. /\ policies \in Seq(PolicyInstances) /\ DOMAIN policies = 1 .. pos /\ result = NoResult
      /\ \A i \in 1 .. pos : E(i) \in Decisions /\ policies[i] \in PolicyInstances
  BY AtEnd
<1>2. /\ alg \in Overrides3 /\ Overriding(alg) = "Permit" /\ Opposite("Permit") = "Deny"
      /\ X = "Permit" /\ Y = "Deny"
  BY DEF Overrides3, Overriding, Opposite, X, Y
<1>3. result' = PermitOverrides3End
  BY DEF EndOfPolicies
<1>4. v = IF firstDP # 0 THEN "IndeterminateDP"
          ELSE IF firstP # 0 /\ (firstD # 0 \/ atLeastOne) THEN "IndeterminateDP"
          ELSE IF firstP # 0 THEN "IndeterminateP"
          ELSE IF atLeastOne THEN "Deny" ELSE NA
  BY <1>3, DefiniteIs, ErrorIs DEF PermitOverrides3End, NoneApplied
<1>5. /\ \A i \in 1 .. pos : E(i) # "Permit"
      /\ atLeastOne <=> \E i \in 1 .. pos : E(i) = "Deny"
      /\ firstD  # 0 <=> \E i \in 1 .. pos : E(i) = "IndeterminateD"
      /\ firstP  # 0 <=> \E i \in 1 .. pos : E(i) = "IndeterminateP"
      /\ firstDP # 0 <=> \E i \in 1 .. pos : E(i) = "IndeterminateDP"
  BY <1>1, <1>2 DEF FlagInv, Given, Stops
<1>6. \A i \in 1 .. pos : L(i) = IF E(i) = "Indeterminate" THEN NA ELSE E(i)
  BY DEF Left
<1>7. ASSUME NEW i \in 1 .. pos
      PROVE  /\ "Permit" \in O(i) <=> E(i) \in {"IndeterminateP", "IndeterminateDP"}
             /\ "Deny" \in O(i) <=> E(i) \in {"Deny", "IndeterminateD", "IndeterminateDP"}
             /\ NA \in O(i) <=> E(i) # "Deny"
  <2>1. O(i) = Behind(L(i))
    BY <1>1, OverlookIs
  <2>2. E(i) \in {"Deny", NA, "IndeterminateD", "IndeterminateP", "IndeterminateDP", "Indeterminate"}
    BY <1>1, <1>5 DEF Decisions, Effects
  <2>3. Outcomes = {"Permit", "Deny", NA}
    BY DEF Outcomes, Effects
  <2>4. L(i) = IF E(i) = "Indeterminate" THEN NA ELSE E(i)
    BY <1>6
  <2> HIDE DEF E, O, L
  <2> QED
    BY <2>1, <2>2, <2>3, <2>4, BehindIs
<1>8. /\ found \subseteq Outcomes
      /\ "Permit" \in found <=> firstP # 0 \/ firstDP # 0
      /\ "Deny" \in found <=> atLeastOne \/ firstD # 0 \/ firstDP # 0
      /\ NA \in found <=> ~ atLeastOne
  <2>0. Overlook(policies) \in Seq(PolicyInstances) /\ DOMAIN Overlook(policies) = 1 .. pos
    BY <1>1, OverlookIs
  <2>1. /\ found \subseteq Outcomes
        /\ "Permit" \in found <=> \E i \in 1 .. pos : "Permit" \in O(i)
        /\ "Deny" \in found <=> /\ \E i \in 1 .. pos : "Deny" \in O(i)
                               /\ \A i \in 1 .. pos : O(i) # {"Permit"}
        /\ NA \in found <=> \A i \in 1 .. pos : NA \in O(i)
    BY <2>0, <1>2, OverridesPolicies
  <2> HIDE DEF E, O, found
  <2>2. \A i \in 1 .. pos : O(i) # {"Permit"}
    BY <1>7
  <2> QED
    BY <1>5, <1>7, <2>1, <2>2
<1> HIDE DEF E, O, L, found, v
<1>9. Outcomes = {"Permit", "Deny", NA}
  BY DEF Outcomes, Effects
<1>10. v = IF found = {"Deny", NA} THEN NA ELSE Envelope(found)
  <2>1. CASE {"Permit", "Deny"} \subseteq found
    <3>1. found \in SUBSET Outcomes /\ found # {"Deny", NA} /\ Envelope(found) = "IndeterminateDP"
      BY <1>8, <2>1, EnvelopeValue
    <3> QED
      BY <1>4, <1>8, <2>1, <3>1
  <2>2. CASE "Permit" \in found /\ "Deny" \notin found
    <3>1. found = {"Permit", NA}
      BY <1>8, <1>9, <2>2
    <3> QED
      BY <1>4, <1>8, <2>2, <3>1, EnvelopeValue
  <2>3. CASE "Permit" \notin found /\ atLeastOne
    <3>1. found = {"Deny"} /\ "Deny" \in Outcomes
      BY <1>8, <1>9, <2>3
    <3> QED
      BY <1>4, <1>8, <2>3, <3>1, EnvelopeValue
  <2>4. CASE "Permit" \notin found /\ ~ atLeastOne
    <3>1. found \in {{"Deny", NA}, {NA}} /\ NA \in Outcomes
      BY <1>8, <1>9, <2>4
    <3> QED
      BY <1>4, <1>8, <2>4, <3>1, EnvelopeValue
  <2> QED
    BY <2>1, <2>2, <2>3, <2>4
<1>11. found # {} /\ (NA \in found <=> ~ \E i \in 1 .. pos : E(i) = "Deny")
       /\ ("Deny" \in found => \E i \in 1 .. pos : E(i) \in {"Deny", "IndeterminateD", "IndeterminateDP"})
  BY <1>5, <1>8
<1> QED
  BY <1>8, <1>10, <1>11 DEF E, found, v

LEMMA PermitOverrides3EndPromised ==
  ASSUME IInv, FlagInv, EndOfPolicies, alg = "PermitOverrides3"
  PROVE  result'.decision \in PolicyAnswers(alg, policies)
<1> DEFINE E(i)  == Evaluate(policies[i])
           O(i)  == PolicyOutcomes(policies[i])
           could == PolicyCouldDecide(alg, policies)
           found  == PolicyCouldDecide(alg, Overlook(policies))
           NA    == "NotApplicable"
           v     == result'.decision
<1>1. /\ policies \in Seq(PolicyInstances) /\ DOMAIN policies = 1 .. pos /\ result = NoResult
      /\ \A i \in 1 .. pos : E(i) \in Decisions /\ policies[i] \in PolicyInstances
  BY AtEnd
<1>2. /\ alg \in Overrides3 /\ Overriding(alg) = "Permit" /\ Opposite("Permit") = "Deny" /\ X = "Permit"
  BY DEF Overrides3, Overriding, Opposite, X
<1>3. \A i \in 1 .. pos : E(i) # "Permit"
  BY <1>1, <1>2 DEF FlagInv, Stops
<1>4. /\ v = IF found = {"Deny", NA} THEN NA ELSE Envelope(found)
      /\ found \subseteq Outcomes /\ found # {}
      /\ NA \in found <=> ~ \E i \in 1 .. pos : E(i) = "Deny"
      /\ "Deny" \in found => \E i \in 1 .. pos : E(i) \in {"Deny", "IndeterminateD", "IndeterminateDP"}
  BY PermitOverrides3Seen
<1>5. ASSUME NEW i \in 1 .. pos
      PROVE  /\ NA \in O(i) <=> E(i) # "Deny"
             /\ E(i) \in {"Deny", "IndeterminateD", "IndeterminateDP"} => "Deny" \in O(i)
             /\ O(i) # {"Permit"}
  <2>1. /\ ~ MissesTarget(policies[i]) => O(i) = Behind(E(i))
        /\ MissesTarget(policies[i]) => NA \in O(i) /\ E(i) = NA
    BY <1>1, PolicyOutcomesIs
  <2>2. E(i) \in {"Deny", NA, "IndeterminateD", "IndeterminateP", "IndeterminateDP", "Indeterminate"}
    BY <1>1, <1>3 DEF Decisions, Effects
  <2>3. Outcomes = {"Permit", "Deny", NA}
    BY DEF Outcomes, Effects
  <2> HIDE DEF E, O
  <2> QED
    BY <2>1, <2>2, <2>3, BehindIs
<1>6. /\ could \subseteq Outcomes
      /\ NA \in could <=> NA \in found
      /\ "Deny" \in found => "Deny" \in could
  <2>1. /\ could \subseteq Outcomes
        /\ "Deny" \in could <=> /\ \E i \in 1 .. pos : "Deny" \in O(i)
                                /\ \A i \in 1 .. pos : O(i) # {"Permit"}
        /\ NA \in could <=> \A i \in 1 .. pos : NA \in O(i)
    BY <1>1, <1>2, OverridesPolicies
  <2> HIDE DEF E, O, could, found
  <2> QED
    BY <1>4, <1>5, <2>1
<1>7. PolicyDeparts(alg, policies) <=> found # could \/ found = {"Deny", NA}
  BY DEF PolicyDeparts
<1> HIDE DEF E, O, could, found, v
<1>8. Outcomes = {"Permit", "Deny", NA} /\ v \in Verdicts
  BY <1>4, EnvelopeType, VerdictsAre DEF Outcomes, Effects
<1>9. PolicyDeparts(alg, policies) <=> v # Envelope(could)
  <2>1. CASE found = {"Deny", NA}
    <3>1. could # {NA}
      BY <1>6, <2>1
    <3>2. Envelope(could) # NA
      BY <1>6, <1>8, <3>1, EnvelopeTells
    <3> QED
      BY <1>4, <1>7, <2>1, <3>2
  <2>2. CASE found # {"Deny", NA}
    <3>1. could # {}
      <4>1. CASE NA \in found
        BY <1>6, <4>1
      <4>2. CASE NA \notin found
        <5>1. \E i \in 1 .. pos : E(i) = "Deny"
          BY <1>4, <4>2
        <5>2. PICK i \in 1 .. pos : "Deny" \in O(i)
          BY <1>5, <5>1
        <5>3. "Deny" \in could
          BY <1>1, <1>2, <1>5, <5>2, OverridesPolicies DEF O, could
        <5> QED
          BY <5>3
      <4> QED
        BY <4>1, <4>2
    <3>2. Envelope(found) = Envelope(could) => found = could
      BY <1>4, <1>6, <3>1, EnvelopeTells
    <3> QED
      BY <1>4, <1>7, <2>2, <3>2
  <2> QED
    BY <2>1, <2>2
<1> QED
  BY <1>2, <1>8, <1>9, AnswersAre, PromiseOf DEF v, could

LEMMA DenyOverrides2EndPromised ==
  ASSUME IInv, FlagInv, EndOfPolicies, alg = "DenyOverrides2"
  PROVE  result'.decision \in PolicyAnswers(alg, policies)
<1> DEFINE E(i)  == Evaluate(policies[i])
           could == PolicyCouldDecide(alg, policies)
           NA    == "NotApplicable"
<1>1. /\ policies \in Seq(PolicyInstances) /\ DOMAIN policies = 1 .. pos /\ result = NoResult
      /\ \A i \in 1 .. pos : E(i) \in Decisions /\ policies[i] \in PolicyInstances
  BY AtEnd
<1>2. /\ alg \in Overrides2 /\ alg \notin Overrides3 /\ Overriding(alg) = "Deny"
      /\ Opposite("Deny") = "Permit" /\ X = "Deny" /\ Y = "Permit"
  BY DEF Overrides2, Overrides3, Overriding, Opposite, X, Y
<1>3. result' = DenyOverrides2End
  BY DEF EndOfPolicies
<1>4. result'.decision = IF atLeastOne THEN "Permit" ELSE NA
  BY <1>3, DefiniteIs DEF DenyOverrides2End, NoneApplied
<1>5. /\ \A i \in 1 .. pos : E(i) \in {"Permit", NA} /\ ~ MissesTarget(policies[i])
      /\ atLeastOne <=> \E i \in 1 .. pos : E(i) = "Permit"
      /\ \A i \in 1 .. pos : ~ Troubled(policies[i])
  BY <1>1, <1>2 DEF FlagInv, Given, Stops, Indeterminates, Decisions, Effects, Troubled
<1>6. \A i \in 1 .. pos : PolicyOutcomes(policies[i]) = {E(i)}
  BY <1>1, <1>5, PolicyOutcomesIs, BehindIs DEF Outcomes, Effects
<1> HIDE DEF E
<1>7. could = IF atLeastOne THEN {"Permit"} ELSE {NA}
  <2>1. /\ could \subseteq Outcomes
        /\ "Deny" \in could <=> \E i \in 1 .. pos : "Deny" \in PolicyOutcomes(policies[i])
        /\ "Permit" \in could
             <=> /\ \E i \in 1 .. pos : "Permit" \in PolicyOutcomes(policies[i])
                 /\ \A i \in 1 .. pos : PolicyOutcomes(policies[i]) # {"Deny"}
        /\ NA \in could <=> \A i \in 1 .. pos : NA \in PolicyOutcomes(policies[i])
    BY <1>1, <1>2, OverridesPolicies
  <2>2. Outcomes = {"Permit", "Deny", NA}
    BY DEF Outcomes, Effects
  <2> HIDE DEF could
  <2>3. "Deny" \notin could /\ ("Permit" \in could <=> atLeastOne) /\ (NA \in could <=> ~ atLeastOne)
    BY <1>5, <1>6, <2>1
  <2> QED
    BY <2>1, <2>2, <2>3
<1>8. OverridesPromise(alg, policies) = could
  BY <1>1, <1>2, <1>5 DEF OverridesPromise
<1> QED
  BY <1>2, <1>4, <1>7, <1>8, AnswersAre, PromiseOf, VerdictsAre DEF Effects

LEMMA PermitOverrides2EndPromised ==
  ASSUME IInv, FlagInv, EndOfPolicies, alg = "PermitOverrides2"
  PROVE  result'.decision \in PolicyAnswers(alg, policies)
<1> DEFINE E(i)  == Evaluate(policies[i])
           O(i)  == PolicyOutcomes(policies[i])
           could == PolicyCouldDecide(alg, policies)
           NA    == "NotApplicable"
<1>1. /\ policies \in Seq(PolicyInstances) /\ DOMAIN policies = 1 .. pos /\ result = NoResult
      /\ \A i \in 1 .. pos : E(i) \in Decisions /\ policies[i] \in PolicyInstances
  BY AtEnd
<1>2. /\ alg \in Overrides2 /\ alg \notin Overrides3 /\ Overriding(alg) = "Permit"
      /\ Opposite("Permit") = "Deny" /\ X = "Permit" /\ Y = "Deny"
  BY DEF Overrides2, Overrides3, Overriding, Opposite, X, Y
<1>3. result' = PermitOverrides2End
  BY DEF EndOfPolicies
<1>4. result'.decision =
        IF atLeastOne THEN "Deny" ELSE IF firstError # 0 THEN "Indeterminate" ELSE NA
  BY <1>3, DefiniteIs, ErrorIs DEF PermitOverrides2End, NoneApplied
<1>5. /\ \A i \in 1 .. pos : E(i) # "Permit"
      /\ atLeastOne <=> \E i \in 1 .. pos : E(i) = "Deny"
      /\ firstError # 0 <=> \E i \in 1 .. pos : Troubled(policies[i])
  BY <1>1, <1>2 DEF FlagInv, Given, Stops
<1>6. ASSUME NEW i \in 1 .. pos
      PROVE  /\ O(i) # {"Permit"}
             /\ E(i) = "Deny" => O(i) = {"Deny"}
             /\ E(i) # "Deny" => NA \in O(i)
             /\ E(i) # "Deny" /\ ~ Troubled(policies[i]) => O(i) = {NA}
  <2>1. Behind("Deny") = {"Deny"} /\ Behind(NA) = {NA} /\ NA \in Outcomes
        /\ \A d \in Indeterminates : NA \in Behind(d)
    BY BehindIs DEF Outcomes, Effects, Indeterminates, Decisions
  <2>2. E(i) \in {"Deny", NA} \cup Indeterminates
    BY <1>1, <1>5 DEF Decisions, Indeterminates
  <2>3. Troubled(policies[i]) <=> MissesTarget(policies[i]) \/ E(i) \in Indeterminates
    BY DEF Troubled
  <2>4. /\ ~ MissesTarget(policies[i]) => O(i) = Behind(E(i))
        /\ MissesTarget(policies[i]) => NA \in O(i) /\ E(i) = NA
    BY <1>1, PolicyOutcomesIs
  <2> HIDE DEF E, O
  <2> QED
    BY <2>1, <2>2, <2>3, <2>4
<1> HIDE DEF E
<1>7. Outcomes = {"Permit", "Deny", NA} /\ Effects = {"Permit", "Deny"}
  BY DEF Outcomes, Effects
<1>8. /\ could \subseteq Outcomes
      /\ "Permit" \in could <=> \E i \in 1 .. pos : "Permit" \in O(i)
      /\ "Deny" \in could
           <=> (\E i \in 1 .. pos : "Deny" \in O(i)) /\ (\A i \in 1 .. pos : O(i) # {"Permit"})
      /\ NA \in could <=> \A i \in 1 .. pos : NA \in O(i)
  BY <1>1, <1>2, OverridesPolicies
<1>9. OverridesPromise(alg, policies) =
        IF could = Effects THEN {"Deny"}
        ELSE IF \E e \in Effects : could = {e} THEN could
        ELSE {IF firstError # 0 THEN "Indeterminate" ELSE NA}
  BY <1>1, <1>2, <1>5 DEF OverridesPromise
<1> HIDE DEF could, O
<1>10. result'.decision \in OverridesPromise(alg, policies)
  <2>1. CASE atLeastOne
    <3>1. NA \notin could /\ "Deny" \in could
      BY <1>5, <1>6, <1>8, <2>1
    <3>2. could = {"Deny"} \/ could = Effects
      BY <1>7, <1>8, <3>1
    <3> QED
      BY <1>4, <1>7, <1>9, <2>1, <3>2
  <2>2. CASE ~ atLeastOne
    <3>1. NA \in could
      BY <1>5, <1>6, <1>8, <2>2
    <3>2. could # Effects /\ ~ \E e \in Effects : could = {e}
      BY <1>7, <3>1
    <3> QED
      BY <1>4, <1>9, <2>2, <3>2
  <2> QED
    BY <2>1, <2>2
<1> QED
  BY <1>2, <1>4, <1>10, AnswersAre, PromiseOf, VerdictsAre DEF Effects

LEMMA FirstApplicableEndPromised ==
  ASSUME IInv, FlagInv, EndOfPolicies, alg = "FirstApplicable"
  PROVE  result'.decision \in PolicyAnswers(alg, policies)
<1> DEFINE could == PolicyCouldDecide("FirstApplicable", policies)
           NA    == "NotApplicable"
<1>1. /\ policies \in Seq(PolicyInstances) /\ DOMAIN policies = 1 .. pos /\ result = NoResult
      /\ \A i \in 1 .. pos : policies[i] \in PolicyInstances
  BY AtEnd
<1>3. result'.decision = NA
  BY DefiniteIs DEF EndOfPolicies, FirstApplicableEnd, NoneApplied
<1>4. \A i \in 1 .. pos : Evaluate(policies[i]) = NA /\ ~ MissesTarget(policies[i])
  BY <1>1 DEF FlagInv, Stops
<1>5. \A i \in 1 .. pos : PolicyOutcomes(policies[i]) = {NA}
  BY <1>1, <1>4, PolicyOutcomesIs, BehindIs DEF Outcomes
<1>6. could = {NA} /\ NA \in Outcomes
  BY <1>1, <1>5, FirstApplicablePolicies DEF Outcomes
<1> HIDE DEF could
<1>7. NA \in FirstApplicablePromise(policies)
  BY <1>6 DEF FirstApplicablePromise, could
<1> QED
  BY <1>3, <1>7, AnswersAre, PromiseOf, VerdictsAre

LEMMA OnlyOneEndPromised ==
  ASSUME IInv, FlagInv, EndOfPolicies, alg = "OnlyOneApplicable"
  PROVE  result'.decision \in PolicyAnswers(alg, policies)
<1>1. /\ policies \in Seq(PolicyInstances) /\ DOMAIN policies = 1 .. pos /\ result = NoResult
  BY AtEnd
<1>3. Applicable(policies) = IF selected = 0 THEN {} ELSE {selected}
  <2>1. matched = IF selected = 0 THEN {} ELSE {selected}
    BY <1>1 DEF IInv, LoopInv
  <2>2. matched = {i \in 1 .. pos : Applies(policies[i])}
    BY <1>1 DEF IInv, LoopInv
  <2> QED
    BY <1>1, <2>1, <2>2 DEF Applicable
<1>4. ~ (Cardinality(Applicable(policies)) > 1) /\ \A i \in 1 .. pos : ~ MissesTarget(policies[i])
  <2>1. Cardinality({}) = 0 /\ Cardinality({selected}) = 1
    BY FS_EmptySet, FS_Singleton
  <2>2. Cardinality(Applicable(policies)) \in {0, 1}
    BY <1>3, <2>1
  <2>3. \A i \in 1 .. pos : ~ MissesTarget(policies[i])
    BY <1>1 DEF FlagInv
  <2> QED
    BY <2>2, <2>3
<1>5. OnlyOneApplicablePromise(policies) =
        IF Applicable(policies) = {} THEN {"NotApplicable"}
        ELSE {policies[i].combined : i \in Applicable(policies)}
  BY <1>1, <1>4 DEF OnlyOneApplicablePromise
<1>6. result' = IF selected # 0 THEN ResultOf(selected) ELSE NoneApplied
  BY DEF EndOfPolicies, OnlyOneApplicableEnd
<1>7. result'.decision \in OnlyOneApplicablePromise(policies)
  <2>1. CASE selected = 0
    BY <1>3, <1>5, <1>6, <2>1, DefiniteIs DEF NoneApplied
  <2>2. CASE selected # 0
    <3>1. selected \in Applicable(policies) /\ Applicable(policies) # {}
      BY <1>3, <2>2
    <3>2. selected \in 1 .. Len(policies) /\ Applies(policies[selected])
      BY <1>1, <3>1, AtEnd DEF Applicable
    <3>3. result'.decision = policies[selected].combined
      BY <1>6, <2>2, <3>2, ResultOfIs DEF IInv, Evaluate
    <3> QED
      BY <1>5, <3>1, <3>3
  <2> QED
    BY <2>1, <2>2
<1>8. result'.decision \in Verdicts
  <2>1. CASE selected = 0
    BY <1>6, <2>1, DefiniteIs, VerdictsAre DEF NoneApplied
  <2>2. CASE selected # 0
    <3>1. selected \in 1 .. Len(policies)
      BY <2>2, AtEnd DEF IInv, TypeOK
    <3> QED
      BY <1>6, <2>2, <3>1, ResultOfIs, PoliciesTyped, VerdictsAre DEF IInv
  <2> QED
    BY <2>1, <2>2
<1> QED
  BY <1>7, <1>8, AnswersAre, PromiseOf

LEMMA UnlessEndPromised ==
  ASSUME IInv, FlagInv, EndOfPolicies, alg \in Unless
  PROVE  result'.decision \in PolicyAnswers(alg, policies)
<1> DEFINE could == PolicyCouldDecide(alg, policies)
<1>1. /\ policies \in Seq(PolicyInstances) /\ DOMAIN policies = 1 .. pos /\ result = NoResult
      /\ \A i \in 1 .. pos : policies[i] \in PolicyInstances /\ Evaluate(policies[i]) \in Decisions
  BY AtEnd
<1>2. result'.decision = Y /\ Y = Opposite(Overriding(alg)) /\ Y \in Verdicts /\ X = Overriding(alg)
  BY DefiniteIs, TwoEffects, VerdictsAre
     DEF EndOfPolicies, DenyUnlessPermitEnd, PermitUnlessDenyEnd, Unless, X, Y, Overriding, Opposite
<1>3. could # {X}
  <2>1. CASE alg = "DenyUnlessPermit"
    <3>1. X = "Permit" /\ \A i \in 1 .. pos : Evaluate(policies[i]) # "Permit"
      BY <1>1, <2>1 DEF FlagInv, Stops, X, Overriding
    <3>2. \A d \in Decisions : d # "Permit" => Behind(d) # {"Permit"}
      BY BehindIs DEF Decisions, Effects, Outcomes
    <3>3. \A i \in 1 .. pos : PolicyOutcomes(policies[i]) # {"Permit"}
      BY <1>1, <3>1, <3>2, PolicyOutcomesIs
    <3> QED
      BY <1>1, <1>2, <3>1, <3>3, UnlessPolicies
  <2>2. CASE alg = "PermitUnlessDeny"
    <3>1. DOMAIN policies = {}
      BY <1>1, <2>2 DEF FlagInv
    <3> QED
      BY <1>1, <1>2, <3>1, UnlessPolicies
  <2> QED
    BY <2>1, <2>2 DEF Unless
<1>4. UnlessPromise(alg, policies) = {Y}
  BY <1>2, <1>3 DEF UnlessPromise
<1>5. ~ PolicyDeparts(alg, policies)
  <2>1. alg = "PermitUnlessDeny" => policies = <<>>
    BY <1>1 DEF FlagInv
  <2> QED
    BY <2>1 DEF PolicyDeparts, Unless
<1> QED
  BY <1>2, <1>4, <1>5, AnswersAre, PromiseOf

(* The code after the loops keeps the promise.                             *)
LEMMA EndPromised ==
  ASSUME IInv, FlagInv, EndOfPolicies
  PROVE  result'.decision \in PolicyAnswers(alg, policies)
<1>1. alg \in Unless \cup {"DenyOverrides3", "PermitOverrides3", "DenyOverrides2", "PermitOverrides2",
                           "FirstApplicable", "OnlyOneApplicable"}
  BY DEF IInv, TypeOK, PolicyAlgorithms, Matching, Overrides3, Overrides2
<1> QED
  BY <1>1, DenyOverrides3EndPromised, PermitOverrides3EndPromised, DenyOverrides2EndPromised,
     PermitOverrides2EndPromised, FirstApplicableEndPromised, OnlyOneEndPromised, UnlessEndPromised

-----------------------------------------------------------------------------
(* The early answers, given at the policy after pos.                       *)
LEMMA AtPolicy ==
  ASSUME IInv, NEW t, Iterate(t)
  PROVE  /\ policies \in Seq(PolicyInstances) /\ DOMAIN policies = 1 .. Len(policies)
         /\ pos \in Nat /\ pos + 1 \in DOMAIN policies /\ policies[pos + 1] \in PolicyInstances
         /\ policies[pos + 1].target = t /\ Evaluate(policies[pos + 1]) \in Decisions
         /\ alg \in PolicyAlgorithms /\ result = NoResult /\ UNCHANGED <<alg, policies>>
<1> QED
  BY PoliciesTyped DEF Iterate, IInv, TypeOK

(* While first-applicable goes on, no policy has had an effect.            *)
LEMMA FirstApplicablePrefix ==
  ASSUME IInv, FlagInv, alg = "FirstApplicable", result = NoResult
  PROVE  \A j \in 1 .. pos : /\ PolicyOutcomes(policies[j]) = {"NotApplicable"}
                             /\ \A e \in Effects : ~ Surely(policies[j], e)
<1>1. \A j \in 1 .. pos : policies[j] \in PolicyInstances
  BY PoliciesTyped DEF IInv, TypeOK
<1>2. \A j \in 1 .. pos : Evaluate(policies[j]) = "NotApplicable" /\ ~ MissesTarget(policies[j])
  BY DEF FlagInv, Stops
<1>3. \A j \in 1 .. pos : PolicyOutcomes(policies[j]) = {"NotApplicable"}
  BY <1>1, <1>2, PolicyOutcomesIs, BehindIs DEF Outcomes
<1>4. "NotApplicable" \notin Effects
  BY DEF Effects
<1> QED
  BY <1>3, <1>4 DEF Surely

(* An exception: a policy without a target, or an element that is not a    *)
(* rule.                                                                   *)
LEMMA ThrowsPromised ==
  ASSUME IInv, MatchThrows \/ CastElement
  PROVE  result'.decision \in PolicyAnswers(alg, policies)
<1>1. result'.decision = Throws
  BY DefiniteIs DEF MatchThrows, CastElement
<1>2. CASE MatchThrows
  <2>1. pos + 1 \in DOMAIN policies /\ policies[pos + 1].target = Absent /\ alg \in Matching
    BY <1>2, AtPolicy DEF MatchThrows
  <2> QED
    BY <1>1, <2>1 DEF PolicyAnswers, MatchMayThrow
<1>3. CASE CastElement
  <2>1. pos + 1 \in DOMAIN policies /\ alg = "PermitUnlessDeny"
    BY <1>3, AtPolicy DEF CastElement
  <2>2. PolicyDeparts(alg, policies)
    BY <2>1 DEF PolicyDeparts
  <2>3. Throws \notin UnlessPromise(alg, policies) /\ alg \in Unless
    BY <2>1, VerdictsAre DEF UnlessPromise, Unless, Opposite, Overriding, Decisions, Effects
  <2> QED
    BY <1>1, <2>2, <2>3, AnswersAre, PromiseOf, VerdictsAre
<1> QED
  BY <1>2, <1>3

(* A Deny that stands for a failure.                                       *)
LEMMA DenyFailurePromised ==
  ASSUME IInv, DenyFailedMatch \/ \E d \in Decisions : DenyError2(d)
  PROVE  result'.decision \in PolicyAnswers(alg, policies)
<1>1. result'.decision = "Deny" /\ "Deny" \in Verdicts /\ "Deny" \in Outcomes
  BY DefiniteIs, VerdictsAre DEF DenyFailedMatch, DenyError2, Effects, Outcomes
<1>2. CASE alg = "DenyOverrides2"
  <2>1. \E i \in DOMAIN policies : Troubled(policies[i])
    <3>1. CASE DenyFailedMatch
      BY <3>1, AtPolicy DEF DenyFailedMatch, Troubled, MissesTarget
    <3>2. ASSUME NEW d \in Decisions, DenyError2(d) PROVE Troubled(policies[pos + 1]) /\ pos + 1 \in DOMAIN policies
      BY <3>2, AtPolicy DEF DenyError2, EvaluateNext, Troubled
    <3> QED
      BY <3>1, <3>2
  <2>2. alg \in Overrides2 /\ alg \notin Overrides3
    BY <1>2 DEF Overrides2, Overrides3
  <2>3. OverridesPromise(alg, policies) = {"Deny"}
    BY <1>2, <2>1, <2>2 DEF OverridesPromise
  <2> QED
    BY <1>1, <1>2, <2>2, <2>3, AnswersAre, PromiseOf
<1>3. CASE alg # "DenyOverrides2"
  <2> DEFINE could == PolicyCouldDecide(alg, policies)
  <2>1. /\ pos + 1 \in DOMAIN policies /\ MissesTarget(policies[pos + 1])
        /\ alg = "DenyOverrides3" /\ policies \in Seq(PolicyInstances)
    BY <1>3, AtPolicy DEF DenyFailedMatch, DenyError2, MissesTarget
  <2>2. alg \in Overrides3 /\ could \subseteq Outcomes
    BY <2>1, OverridesPolicies DEF Overrides3
  <2> HIDE DEF could
  <2>3. PolicyDeparts(alg, policies) <=> could # {"Deny"}
    BY <2>1 DEF PolicyDeparts, could, Effects
  <2>4. Envelope(could) = "Deny" <=> could = {"Deny"}
    BY <1>1, <2>2, EnvelopeTells, EnvelopeValue
  <2> QED
    BY <1>1, <2>2, <2>3, <2>4, AnswersAre, PromiseOf DEF could
<1> QED
  BY <1>2, <1>3

(* A plain Indeterminate: a target that failed, or a second that matches.  *)
LEMMA IndeterminatePromised ==
  ASSUME IInv, FlagInv, ReturnFailedMatch \/ RejectSecondMatch
  PROVE  result'.decision \in PolicyAnswers(alg, policies)
<1>1. /\ result'.decision = "Indeterminate" /\ "Indeterminate" \in Verdicts
      /\ "Indeterminate" \in Indeterminates
  BY ErrorIs, VerdictsAre DEF ReturnFailedMatch, RejectSecondMatch, Indeterminates, Decisions, Effects
<1>2. alg \in {"FirstApplicable", "OnlyOneApplicable"}
  BY DEF ReturnFailedMatch, RejectSecondMatch
<1>3. CASE alg = "FirstApplicable"
  <2>1. /\ pos + 1 \in DOMAIN policies /\ policies[pos + 1].target = "INDETERMINATE" /\ result = NoResult
        /\ DOMAIN policies = 1 .. Len(policies) /\ pos \in Nat /\ policies \in Seq(PolicyInstances)
    BY <1>3, AtPolicy DEF ReturnFailedMatch, RejectSecondMatch
  <2>2. Troubled(policies[pos + 1])
    BY <2>1 DEF Troubled, MissesTarget
  <2>3. \A j \in 1 .. pos, e \in Effects : ~ Surely(policies[j], e)
    BY <1>3, <2>1, FirstApplicablePrefix
  <2>4. "Indeterminate" \in FirstApplicablePromise(policies)
    <3>1. pos + 1 - 1 = pos
      BY <2>1
    <3> QED
      BY <1>1, <2>1, <2>2, <2>3, <3>1 DEF FirstApplicablePromise
  <2> QED
    BY <1>1, <1>3, <2>4, AnswersAre, PromiseOf
<1>4. CASE alg = "OnlyOneApplicable"
  <2>1. \/ Cardinality(Applicable(policies)) > 1
        \/ \E i \in DOMAIN policies : MissesTarget(policies[i])
    <3>1. CASE ReturnFailedMatch
      <4>1. pos + 1 \in DOMAIN policies /\ policies[pos + 1].target = "INDETERMINATE"
        BY <3>1, AtPolicy DEF ReturnFailedMatch
      <4> QED
        BY <4>1 DEF MissesTarget
    <3>2. CASE RejectSecondMatch
      <4>1. /\ pos + 1 \in DOMAIN policies /\ policies[pos + 1].target = "MATCH" /\ selected # 0
            /\ DOMAIN policies = 1 .. Len(policies) /\ pos \in Nat /\ result = NoResult
        BY <3>2, AtPolicy DEF RejectSecondMatch
      <4>2. selected \in 1 .. pos /\ Applies(policies[selected])
        BY <1>4, <4>1 DEF IInv, LoopInv
      <4>3. {selected, pos + 1} \subseteq Applicable(policies) /\ selected # pos + 1
        BY <4>1, <4>2, PoliciesTyped DEF Applicable, Applies, IInv
      <4>4. IsFiniteSet(Applicable(policies))
        <5>1. IsFiniteSet(1 .. Len(policies)) /\ Applicable(policies) \in SUBSET (1 .. Len(policies))
          BY <4>1, FS_Interval, PoliciesTyped DEF Applicable, IInv
        <5> QED
          BY <5>1, FS_Subset
      <4>5. Cardinality(Applicable(policies)) \in Nat \ {0, 1}
        BY <4>3, <4>4, FS_CardinalityType, FS_EmptySet, FS_Singleton
      <4> QED
        BY <4>5
    <3> QED
      BY <3>1, <3>2
  <2>2. OnlyOneApplicablePromise(policies) = {"Indeterminate"}
    BY <2>1 DEF OnlyOneApplicablePromise
  <2> QED
    BY <1>1, <1>4, <2>2, AnswersAre, PromiseOf
<1> QED
  BY <1>2, <1>3, <1>4

(* The answer of the policy at which a loop stops.                         *)
LEMMA PolicyResultPromised ==
  ASSUME IInv, FlagInv, NEW d \in Decisions, ReturnPolicyResult(d)
  PROVE  result'.decision \in PolicyAnswers(alg, policies)
<1> DEFINE k == pos + 1
           p == policies[k]
<1>1. PICK t : Iterate(t)
  BY DEF ReturnPolicyResult, EvaluateNext
<1>2. /\ policies \in Seq(PolicyInstances) /\ k \in DOMAIN policies /\ pos \in Nat
      /\ p \in PolicyInstances /\ result = NoResult /\ DOMAIN policies = 1 .. Len(policies)
      /\ \A i \in 1 .. pos : i \in DOMAIN policies /\ policies[i] \in PolicyInstances
  BY <1>1, AtPolicy
<1>3. /\ d = Evaluate(p) /\ Stops(d) /\ result'.decision = d
      /\ alg \in (Matching \ {"OnlyOneApplicable"}) \cup {"DenyUnlessPermit"}
      /\ alg \in Matching => ~ MissesTarget(p)
  <2>1. result' = ResultOf(k) /\ d = Evaluate(p) /\ Stops(d)
    BY DEF ReturnPolicyResult, EvaluateNext
  <2>2. result'.decision = d
    BY <1>2, <2>1, ResultOfIs DEF IInv
  <2>3. /\ alg \in (Matching \ {"OnlyOneApplicable"}) \cup {"DenyUnlessPermit"}
        /\ alg \in Matching => p.target = "MATCH"
    BY DEF ReturnPolicyResult, EvaluateNext, Iterate, Matching, Overrides3, Overrides2
  <2> QED
    BY <2>1, <2>2, <2>3 DEF MissesTarget
<1> HIDE DEF k, p
<1>4. /\ Outcomes = {"Permit", "Deny", "NotApplicable"} /\ Effects = {"Permit", "Deny"}
      /\ d \in Verdicts /\ \A e \in Effects : Behind(e) = {e} /\ Envelope({e}) = e
  <2>1. Effects \subseteq Outcomes
    BY DEF Effects, Outcomes
  <2>2. \A e \in Outcomes : Behind(e) = {e} /\ Envelope({e}) = e
    BY BehindIs, EnvelopeValue
  <2> QED
    BY <2>1, <2>2, VerdictsAre DEF Effects, Outcomes
<1>5. CASE alg \in Overrides3 \cup Overrides2
  <2> DEFINE could == PolicyCouldDecide(alg, policies)
             found  == PolicyCouldDecide(alg, Overlook(policies))
  <2>1. /\ d = Overriding(alg) /\ d \in Effects /\ d \notin {"Indeterminate"} /\ alg \in Matching
        /\ alg # "PermitUnlessDeny"
    BY <1>3, <1>5, TwoEffects DEF Overrides3, Overrides2, Stops, X, Matching, Effects
  <2>2. PolicyOutcomes(policies[k]) = {d}
    BY <1>2, <1>3, <1>4, <2>1, PolicyOutcomesIs DEF p
  <2>3. PolicyOutcomes(Overlook(policies)[k]) = {d}
    <3>1. Left(p) = d
      BY <1>3, <2>1 DEF Left
    <3> QED
      BY <1>2, <1>4, <2>1, <3>1, OverlookIs DEF p
  <2>4. could = {d} /\ found = {d}
    BY <1>2, <1>5, <2>1, <2>2, <2>3, SurelyOverrides, OverlookIs
  <2> HIDE DEF could, found
  <2>5. ~ PolicyDeparts(alg, policies)
    <3>1. alg = "DenyOverrides3" => could = {"Deny"}
      BY <2>1, <2>4 DEF Overriding
    <3> QED
      BY <1>4, <2>1, <2>4, <3>1 DEF PolicyDeparts, could, found
  <2>6. OverridesPromise(alg, policies) = {d}
    <3>1. CASE alg \in Overrides3
      BY <1>4, <2>1, <2>4, <3>1 DEF OverridesPromise, could
    <3>2. CASE alg = "DenyOverrides2"
      <4>1. d = "Deny" /\ alg \notin Overrides3
        BY <2>1, <3>2 DEF Overriding, Overrides3
      <4> QED
        BY <2>4, <3>2, <4>1 DEF OverridesPromise, could
    <3>3. CASE alg = "PermitOverrides2"
      <4>1. could # Effects /\ alg \notin Overrides3
        BY <1>4, <2>4, <3>3 DEF Overrides3
      <4> QED
        BY <2>1, <2>4, <3>3, <4>1 DEF OverridesPromise, could
    <3> QED
      BY <1>5, <3>1, <3>2, <3>3 DEF Overrides2
  <2> QED
    BY <1>3, <1>4, <1>5, <2>5, <2>6, AnswersAre, PromiseOf
<1>6. CASE alg = "FirstApplicable"
  <2> DEFINE could == PolicyCouldDecide("FirstApplicable", policies)
  <2>1. d # "NotApplicable" /\ alg \in Matching /\ k - 1 = pos
    BY <1>2, <1>3, <1>6 DEF Stops, Matching, k
  <2>2. \A j \in 1 .. pos : /\ PolicyOutcomes(policies[j]) = {"NotApplicable"}
                            /\ \A e \in Effects : ~ Surely(policies[j], e)
    BY <1>2, <1>6, FirstApplicablePrefix
  <2>3. CASE d \in Effects
    <3>1. PolicyOutcomes(policies[k]) = {d}
      BY <1>2, <1>3, <1>4, <2>1, <2>3, PolicyOutcomesIs DEF p
    <3>2. could = {d}
      BY <1>2, <2>1, <2>2, <2>3, <3>1, FirstApplicablePolicies
    <3>3. d \in FirstApplicablePromise(policies)
      BY <1>4, <2>3, <3>2 DEF FirstApplicablePromise
    <3> QED
      BY <1>3, <1>4, <1>6, <3>3, AnswersAre, PromiseOf
  <2>4. CASE d \in Indeterminates
    <3>1. Troubled(policies[k])
      BY <1>3, <2>4 DEF Troubled, p
    <3>2. d \in FirstApplicablePromise(policies)
      BY <1>2, <2>1, <2>2, <2>4, <3>1 DEF FirstApplicablePromise
    <3> QED
      BY <1>3, <1>4, <1>6, <3>2, AnswersAre, PromiseOf
  <2> QED
    BY <2>1, <2>3, <2>4 DEF Indeterminates, Effects
<1>7. CASE alg = "DenyUnlessPermit"
  <2>1. /\ alg \in Unless /\ Overriding(alg) = "Permit" /\ d = "Permit"
    BY <1>3, <1>7 DEF Unless, Overriding, Stops, X
  <2>2. ~ MissesTarget(p) /\ PolicyOutcomes(policies[k]) = {"Permit"}
    BY <1>2, <1>3, <1>4, <2>1, PolicyOutcomesIs DEF p
  <2>3. PolicyCouldDecide(alg, policies) = {"Permit"}
    BY <1>2, <2>1, <2>2, UnlessPolicies
  <2>4. UnlessPromise(alg, policies) = {"Permit"}
    BY <2>1, <2>3 DEF UnlessPromise
  <2> QED
    BY <1>3, <1>4, <1>7, <2>1, <2>4, AnswersAre, PromiseOf
<1> QED
  BY <1>3, <1>5, <1>6, <1>7 DEF Matching

-----------------------------------------------------------------------------
(* While a loop runs there is no decision; the steps that give one are the *)
(* last.                                                                   *)
LEMMA StepKinds ==
  ASSUME [Next]_vars
  PROVE  \/ UNCHANGED <<alg, policies, result>>
         \/ MatchThrows \/ CastElement \/ DenyFailedMatch \/ ReturnFailedMatch \/ RejectSecondMatch
         \/ \E d \in Decisions : ReturnPolicyResult(d) \/ DenyError2(d)
         \/ EndOfPolicies
<1>1. CASE SkipUnmatched \/ RecordFailedMatch \/ IgnoreFailedMatch \/ SelectPolicy
  BY <1>1 DEF SkipUnmatched, RecordFailedMatch, IgnoreFailedMatch, SelectPolicy, Iterate
<1>2. ASSUME NEW d \in Decisions,
             SkipNotApplicable(d) \/ CollectEffect(d) \/ RecordError3(d) \/ RecordError2(d) \/ IgnoreError(d)
      PROVE  UNCHANGED <<alg, policies, result>>
  BY <1>2 DEF SkipNotApplicable, CollectEffect, RecordError3, RecordError2, IgnoreError, EvaluateNext, Iterate
<1> QED
  BY <1>1, <1>2 DEF Next, vars

(* The loops implement the abstract algorithm that decides in one step:    *)
(* whichever policy a combine method stops at, the decision it returns is  *)
(* the one promised for the policies of the set as a whole, except exactly *)
(* where PolicyDeparts says that the code breaks the promise, and it is    *)
(* final.                                                                  *)
THEOREM LoopsKeepPromise == Spec => KeepsPromise
<1> DEFINE I == IInv /\ FlagInv
<1>1. Init => I
  BY InitInv, InitFlags
<1>2. I /\ [Next]_vars => I'
  BY StepInv, StepFlags
<1>3. Init => Once!Init
  BY DEF Init, Once!Init, NoResult
<1>4. I /\ [Next]_vars => [Once!Decide]_(Once!vars)
  <2> SUFFICES ASSUME IInv, FlagInv, [Next]_vars PROVE [Once!Decide]_(Once!vars)
    OBVIOUS
  <2>1. ASSUME result = NoResult, alg' = alg, policies' = policies,
               result'.decision \in PolicyAnswers(alg, policies)
        PROVE  Once!Decide
    BY <2>1 DEF Once!Decide, NoResult
  <2>2. CASE UNCHANGED <<alg, policies, result>>
    BY <2>2 DEF Once!vars
  <2>3. CASE MatchThrows \/ CastElement
    <3>1. result = NoResult /\ alg' = alg /\ policies' = policies
      BY <2>3 DEF MatchThrows, CastElement, Iterate
    <3> QED
      BY <2>1, <2>3, <3>1, ThrowsPromised
  <2>4. CASE DenyFailedMatch \/ \E d \in Decisions : DenyError2(d)
    <3>1. result = NoResult /\ alg' = alg /\ policies' = policies
      BY <2>4 DEF DenyFailedMatch, DenyError2, EvaluateNext, Iterate
    <3> QED
      BY <2>1, <2>4, <3>1, DenyFailurePromised
  <2>5. CASE ReturnFailedMatch \/ RejectSecondMatch
    <3>1. result = NoResult /\ alg' = alg /\ policies' = policies
      BY <2>5 DEF ReturnFailedMatch, RejectSecondMatch, Iterate
    <3> QED
      BY <2>1, <2>5, <3>1, IndeterminatePromised
  <2>6. CASE \E d \in Decisions : ReturnPolicyResult(d)
    <3>1. result = NoResult /\ alg' = alg /\ policies' = policies
      BY <2>6 DEF ReturnPolicyResult, EvaluateNext, Iterate
    <3> QED
      BY <2>1, <2>6, <3>1, PolicyResultPromised
  <2>7. CASE EndOfPolicies
    <3>1. result = NoResult /\ alg' = alg /\ policies' = policies
      BY <2>7 DEF EndOfPolicies
    <3> QED
      BY <2>1, <2>7, <3>1, EndPromised
  <2> QED
    BY <2>2, <2>3, <2>4, <2>5, <2>6, <2>7, StepKinds
<1>5. QED BY <1>1, <1>2, <1>3, <1>4, PTL DEF Spec, KeepsPromise, Once!Spec
=============================================================================

----------------------- MODULE CombiningPromise_proofs -----------------------
(***************************************************************************)
(* Facts about what a list of rules could have decided, for lists of any   *)
(* length.  Membership of a decision in CouldDecide is reduced to          *)
(* conditions on single rules; a witness resolution is exhibited for each. *)
(***************************************************************************)
EXTENDS CombiningPromise, TLAPS

(* Every rule could have decided something, and only Permit, Deny or       *)
(* NotApplicable (Rule.evaluate without its failure branches).             *)
LEMMA RuleOutcomesType ==
  ASSUME NEW rule \in RuleInstances
  PROVE  /\ RuleOutcomes(rule) \subseteq Outcomes
         /\ RuleOutcomes(rule) # {}
         /\ RuleDecision(rule) \in Decisions
  BY DEF RuleOutcomes, RuleInstances, Outcomes, Effects, RuleDecision, Failed,
         IndeterminateOf, Decisions, MatchResults, TakesEffect, Errs, Reached, Absent

(* The outcomes of a rule, read off its decision.                          *)
LEMMA OutcomesOfDecision ==
  ASSUME NEW rule \in RuleInstances
  PROVE  LET d == RuleDecision(rule) IN
         /\ d \in Outcomes => RuleOutcomes(rule) = {d}
         /\ d = "IndeterminateD" => RuleOutcomes(rule) = {"Deny", "NotApplicable"}
         /\ d = "IndeterminateP" => RuleOutcomes(rule) = {"Permit", "NotApplicable"}
         /\ d \in Indeterminates => RuleOutcomes(rule) = {rule.effect, "NotApplicable"}
         /\ d \in Indeterminates /\ rule.v3 => d = IndeterminateOf(rule.effect)
         /\ d # "IndeterminateDP"
  BY DEF RuleOutcomes, RuleInstances, Outcomes, Effects, RuleDecision, Failed,
         IndeterminateOf, Decisions, Indeterminates, MatchResults, TakesEffect, Errs, Reached, Absent

LEMMA RuleAt ==
  ASSUME NEW rs \in Seq(RuleInstances), NEW i \in DOMAIN rs
  PROVE  rs[i] \in RuleInstances
  OBVIOUS

-----------------------------------------------------------------------------
(* The decisions an algorithm could have given for children that could     *)
(* have decided the elements of S, each that of one choice among them.     *)
(* Rules and policies differ in what S is.                                 *)
Plausible(D, S) == \A i \in D : S[i] \subseteq Outcomes /\ S[i] # {}

Choices(D, S) == {q \in [D -> Outcomes] : \A i \in D : q[i] \in S[i]}

Decidable(a, D, S) == {ErrorFree(a, r) : r \in Choices(D, S)}

(* An overrides algorithm: the overriding effect if some child could have  *)
(* had it, the overridden one if some child could have had it and no child *)
(* surely overrides, nothing if no child surely applies.                   *)
LEMMA OverridesDecidable ==
  ASSUME NEW a \in Overrides3 \cup Overrides2, NEW D, NEW S, Plausible(D, S)
  PROVE  LET over  == Overriding(a)
             under == Opposite(over)
         IN
         /\ Decidable(a, D, S) \subseteq Outcomes
         /\ over \in Decidable(a, D, S)
              <=> \E i \in D : over \in S[i]
         /\ under \in Decidable(a, D, S)
              <=> /\ \E i \in D : under \in S[i]
                  /\ \A i \in D : S[i] # {over}
         /\ "NotApplicable" \in Decidable(a, D, S)
              <=> \A i \in D : "NotApplicable" \in S[i]
<1> DEFINE over  == Overriding(a)
           under == Opposite(over)
           NA    == "NotApplicable"
<1>0. /\ over \in Effects /\ under \in Effects /\ over # under
      /\ Outcomes = {over, under, NA} /\ NA \notin Effects
  BY DEF Overriding, Opposite, Effects, Outcomes
<1>a. a # "FirstApplicable" /\ a \notin Unless
  BY DEF Overrides3, Overrides2, Unless
<1>b. \A i \in D : S[i] \subseteq Outcomes /\ S[i] # {}
  BY DEF Plausible
<1>c. ASSUME NEW r \in Choices(D, S)
      PROVE  /\ DOMAIN r = D /\ \A i \in D : r[i] \in S[i]
             /\ ErrorFree(a, r) = IF Occurs(r, over) THEN over
                                  ELSE IF Occurs(r, under) THEN under ELSE NA
  BY <1>a DEF Choices, ErrorFree
<1>d. ASSUME NEW f \in [D -> Outcomes], \A i \in D : f[i] \in S[i]
      PROVE  f \in Choices(D, S)
  BY <1>d DEF Choices
<1>1. Decidable(a, D, S) \subseteq Outcomes
  BY <1>0, <1>c DEF Decidable
<1>2. over \in Decidable(a, D, S) <=> \E i \in D : over \in S[i]
  <2>1. ASSUME over \in Decidable(a, D, S)
        PROVE  \E i \in D : over \in S[i]
    <3>1. PICK r \in Choices(D, S) : ErrorFree(a, r) = over
      BY <2>1 DEF Decidable
    <3>2. Occurs(r, over)
      BY <3>1, <1>c, <1>0
    <3>3. QED BY <3>2, <1>c DEF Occurs
  <2>2. ASSUME NEW i \in D, over \in S[i]
        PROVE  over \in Decidable(a, D, S)
    <3> DEFINE f == [j \in D |-> IF j = i THEN over ELSE CHOOSE o \in S[j] : TRUE]
    <3>1. \A j \in D : f[j] \in S[j]
      BY <1>b, <2>2
    <3>2. f \in Choices(D, S)
      BY <3>1, <1>b, <1>d
    <3>3. Occurs(f, over)
      BY DEF Occurs
    <3>4. QED BY <3>2, <3>3, <1>c DEF Decidable
  <2>3. QED BY <2>1, <2>2
<1>3. under \in Decidable(a, D, S)
        <=> /\ \E i \in D : under \in S[i]
            /\ \A i \in D : S[i] # {over}
  <2>1. ASSUME under \in Decidable(a, D, S)
        PROVE  /\ \E i \in D : under \in S[i]
               /\ \A i \in D : S[i] # {over}
    <3>1. PICK r \in Choices(D, S) : ErrorFree(a, r) = under
      BY <2>1 DEF Decidable
    <3>2. Occurs(r, under) /\ ~ Occurs(r, over)
      BY <3>1, <1>c, <1>0
    <3>3. QED BY <3>2, <1>c DEF Occurs
  <2>2. ASSUME NEW i \in D, under \in S[i],
               \A j \in D : S[j] # {over}
        PROVE  under \in Decidable(a, D, S)
    <3> DEFINE f == [j \in D |-> CHOOSE o \in S[j] : o # over]
               g == [j \in D |-> IF j = i THEN under ELSE f[j]]
    <3>0. \A j \in D : \E o \in S[j] : o # over
      BY <1>b, <2>2
    <3>1. \A j \in D : g[j] \in S[j] /\ g[j] # over
      BY <3>0, <2>2, <1>0
    <3>2. g \in Choices(D, S)
      <4>1. g \in [D -> Outcomes]
        BY <3>1, <1>b
      <4>2. QED BY <3>1, <4>1, <1>d
    <3>3. Occurs(g, under) /\ ~ Occurs(g, over)
      BY <3>1 DEF Occurs
    <3>4. QED BY <3>2, <3>3, <1>c DEF Decidable
  <2>3. QED BY <2>1, <2>2
<1>4. NA \in Decidable(a, D, S) <=> \A i \in D : NA \in S[i]
  <2>1. ASSUME NA \in Decidable(a, D, S), NEW i \in D
        PROVE  NA \in S[i]
    <3>1. PICK r \in Choices(D, S) : ErrorFree(a, r) = NA
      BY <2>1 DEF Decidable
    <3>2. ~ Occurs(r, under) /\ ~ Occurs(r, over)
      BY <3>1, <1>c, <1>0
    <3>3. r[i] = NA
      BY <3>2, <1>c, <1>b, <1>0 DEF Occurs
    <3>4. QED BY <3>3, <1>c
  <2>2. ASSUME \A i \in D : NA \in S[i]
        PROVE  NA \in Decidable(a, D, S)
    <3> DEFINE f == [j \in D |-> NA]
    <3>1. f \in Choices(D, S)
      BY <2>2, <1>0, <1>d
    <3>2. ~ Occurs(f, under) /\ ~ Occurs(f, over)
      BY <1>0 DEF Occurs
    <3>3. QED BY <3>1, <3>2, <1>c DEF Decidable
  <2>3. QED BY <2>1, <2>2
<1>5. QED BY <1>1, <1>2, <1>3, <1>4

(* An unless algorithm: surely the overriding effect exactly when some     *)
(* child surely has it.                                                    *)
LEMMA UnlessDecidable ==
  ASSUME NEW a \in Unless, NEW D, NEW S, Plausible(D, S)
  PROVE  Decidable(a, D, S) = {Overriding(a)}
           <=> \E i \in D : S[i] = {Overriding(a)}
<1> DEFINE over  == Overriding(a)
           under == Opposite(over)
<1>0. over \in Effects /\ under \in Effects /\ over # under /\ a # "FirstApplicable"
  BY DEF Overriding, Opposite, Effects, Unless
<1>b. \A i \in D : S[i] \subseteq Outcomes /\ S[i] # {}
  BY DEF Plausible
<1>c. ASSUME NEW r \in Choices(D, S)
      PROVE  /\ DOMAIN r = D /\ \A i \in D : r[i] \in S[i]
             /\ ErrorFree(a, r) = IF Occurs(r, over) THEN over ELSE under
  BY <1>0 DEF Choices, ErrorFree
<1>1. ASSUME NEW i \in D, S[i] = {over}
      PROVE  Decidable(a, D, S) = {over}
  <2>1. \A r \in Choices(D, S) : ErrorFree(a, r) = over
    BY <1>1, <1>c DEF Occurs
  <2>2. [j \in D |-> CHOOSE o \in S[j] : TRUE] \in Choices(D, S)
    BY <1>b DEF Choices
  <2>3. QED BY <2>1, <2>2 DEF Decidable
<1>2. ASSUME \A i \in D : S[i] # {over}
      PROVE  Decidable(a, D, S) # {over}
  <2> DEFINE f == [j \in D |-> CHOOSE o \in S[j] : o # over]
  <2>1. \A j \in D : \E o \in S[j] : o # over
    BY <1>b, <1>2
  <2>2. \A j \in D : f[j] \in S[j] /\ f[j] # over
    BY <2>1
  <2>3. f \in Choices(D, S)
    BY <2>2, <1>b DEF Choices
  <2>4. ErrorFree(a, f) = under
    BY <2>2, <2>3, <1>c DEF Occurs
  <2>5. QED BY <2>3, <2>4, <1>0 DEF Decidable
<1>3. QED BY <1>1, <1>2

(* First-applicable: if the children before the k-th surely do not apply   *)
(* and the k-th surely has an effect, that effect is the only decision.    *)
LEMMA FirstApplicableDecidable ==
  ASSUME NEW n \in Nat, NEW S, Plausible(1 .. n, S)
  PROVE  /\ \A k \in 1 .. n, e \in Effects :
              /\ S[k] = {e}
              /\ \A j \in 1 .. k - 1 : S[j] = {"NotApplicable"}
              => Decidable("FirstApplicable", 1 .. n, S) = {e}
         /\ (\A j \in 1 .. n : S[j] = {"NotApplicable"})
              => Decidable("FirstApplicable", 1 .. n, S) = {"NotApplicable"}
<1> DEFINE some == [j \in 1 .. n |-> CHOOSE o \in S[j] : TRUE]
<1>b. \A i \in 1 .. n : S[i] \subseteq Outcomes /\ S[i] # {}
  BY DEF Plausible
<1>c. some \in Choices(1 .. n, S)
  BY <1>b DEF Choices
<1>d. \A r \in Choices(1 .. n, S) : DOMAIN r = 1 .. n /\ \A i \in 1 .. n : r[i] \in S[i]
  BY DEF Choices
<1>1. ASSUME NEW k \in 1 .. n, NEW e \in Effects, S[k] = {e},
             \A j \in 1 .. k - 1 : S[j] = {"NotApplicable"}
      PROVE  Decidable("FirstApplicable", 1 .. n, S) = {e}
  <2>1. ASSUME NEW r \in Choices(1 .. n, S)
        PROVE  ErrorFree("FirstApplicable", r) = e
    <3>0. DOMAIN r = 1 .. n /\ k \in 1 .. n
      BY <1>d
    <3>1. r[k] = e /\ e # "NotApplicable" /\ \A j \in 1 .. k - 1 : r[j] = "NotApplicable"
      <4>1. r[k] \in S[k] /\ \A j \in 1 .. k - 1 : j \in 1 .. n /\ r[j] \in S[j]
        BY <1>d, <3>0
      <4>2. e # "NotApplicable"
        BY DEF Effects
      <4>3. QED BY <4>1, <4>2, <1>1
    <3>2. IsFirst(r, k)
      BY <3>0, <3>1 DEF IsFirst
    <3>3. \A i \in DOMAIN r : IsFirst(r, i) => i = k
      <4> SUFFICES ASSUME NEW i \in DOMAIN r, IsFirst(r, i) PROVE i = k
        OBVIOUS
      <4>1. ~ (i < k)
        BY <3>0, <3>1 DEF IsFirst
      <4>2. ~ (k < i)
        BY <3>0, <3>1 DEF IsFirst
      <4>3. QED BY <4>1, <4>2, <3>0
    <3>4. QED BY <3>0, <3>1, <3>2, <3>3 DEF ErrorFree
  <2>2. QED BY <2>1, <1>c DEF Decidable
<1>2. ASSUME \A j \in 1 .. n : S[j] = {"NotApplicable"}
      PROVE  Decidable("FirstApplicable", 1 .. n, S) = {"NotApplicable"}
  <2>1. ASSUME NEW r \in Choices(1 .. n, S)
        PROVE  ErrorFree("FirstApplicable", r) = "NotApplicable"
    BY <1>2, <1>d DEF ErrorFree, IsFirst
  <2>2. QED BY <2>1, <1>c DEF Decidable
<1>3. QED BY <1>1, <1>2

-----------------------------------------------------------------------------
(* The same of rules.                                                      *)
OutcomesOf(rs) == [i \in DOMAIN rs |-> RuleOutcomes(rs[i])]

LEMMA RulesDecidable ==
  ASSUME NEW rs \in Seq(RuleInstances)
  PROVE  /\ Plausible(DOMAIN rs, OutcomesOf(rs))
         /\ \A a : CouldDecide(a, rs) = Decidable(a, DOMAIN rs, OutcomesOf(rs))
<1>1. Plausible(DOMAIN rs, OutcomesOf(rs))
  BY RuleOutcomesType DEF Plausible, OutcomesOf
<1>2. Resolutions(rs) = Choices(DOMAIN rs, OutcomesOf(rs))
  BY DEF Resolutions, Choices, OutcomesOf
<1> QED
  BY <1>1, <1>2 DEF CouldDecide, Decidable

LEMMA OverridesCouldDecide ==
  ASSUME NEW a \in Overrides3 \cup Overrides2, NEW rs \in Seq(RuleInstances)
  PROVE  LET over  == Overriding(a)
             under == Opposite(over)
         IN
         /\ CouldDecide(a, rs) \subseteq Outcomes
         /\ over \in CouldDecide(a, rs)
              <=> \E i \in DOMAIN rs : over \in RuleOutcomes(rs[i])
         /\ under \in CouldDecide(a, rs)
              <=> /\ \E i \in DOMAIN rs : under \in RuleOutcomes(rs[i])
                  /\ \A i \in DOMAIN rs : RuleOutcomes(rs[i]) # {over}
         /\ "NotApplicable" \in CouldDecide(a, rs)
              <=> \A i \in DOMAIN rs : "NotApplicable" \in RuleOutcomes(rs[i])
<1> DEFINE S == OutcomesOf(rs)
<1>1. \A i \in DOMAIN rs : S[i] = RuleOutcomes(rs[i])
  BY DEF OutcomesOf
<1>2. Plausible(DOMAIN rs, S) /\ CouldDecide(a, rs) = Decidable(a, DOMAIN rs, S)
  BY RulesDecidable
<1> HIDE DEF S
<1> DEFINE over == Overriding(a)
           under == Opposite(over)
<1>3. /\ Decidable(a, DOMAIN rs, S) \subseteq Outcomes
      /\ over \in Decidable(a, DOMAIN rs, S) <=> \E i \in DOMAIN rs : over \in S[i]
      /\ under \in Decidable(a, DOMAIN rs, S)
           <=> /\ \E i \in DOMAIN rs : under \in S[i]
               /\ \A i \in DOMAIN rs : S[i] # {over}
      /\ "NotApplicable" \in Decidable(a, DOMAIN rs, S)
           <=> \A i \in DOMAIN rs : "NotApplicable" \in S[i]
  BY <1>2, OverridesDecidable
<1> QED
  BY <1>1, <1>2, <1>3

LEMMA UnlessCouldDecide ==
  ASSUME NEW a \in Unless, NEW rs \in Seq(RuleInstances)
  PROVE  CouldDecide(a, rs) = {Overriding(a)}
           <=> \E i \in DOMAIN rs : RuleOutcomes(rs[i]) = {Overriding(a)}
<1> DEFINE S == OutcomesOf(rs)
<1>1. \A i \in DOMAIN rs : S[i] = RuleOutcomes(rs[i])
  BY DEF OutcomesOf
<1>2. Plausible(DOMAIN rs, S) /\ CouldDecide(a, rs) = Decidable(a, DOMAIN rs, S)
  BY RulesDecidable
<1> HIDE DEF S
<1>3. Decidable(a, DOMAIN rs, S) = {Overriding(a)}
        <=> \E i \in DOMAIN rs : S[i] = {Overriding(a)}
  BY <1>2, UnlessDecidable
<1> QED
  BY <1>1, <1>2, <1>3

LEMMA FirstApplicableCouldDecide ==
  ASSUME NEW rs \in Seq(RuleInstances)
  PROVE  /\ \A k \in DOMAIN rs, e \in Effects :
              /\ RuleOutcomes(rs[k]) = {e}
              /\ \A j \in 1 .. k - 1 : RuleOutcomes(rs[j]) = {"NotApplicable"}
              => CouldDecide("FirstApplicable", rs) = {e}
         /\ (\A j \in DOMAIN rs : RuleOutcomes(rs[j]) = {"NotApplicable"})
              => CouldDecide("FirstApplicable", rs) = {"NotApplicable"}
<1> DEFINE S == OutcomesOf(rs)
<1>1. Len(rs) \in Nat /\ DOMAIN rs = 1 .. Len(rs)
  OBVIOUS
<1>2. \A i \in DOMAIN rs : S[i] = RuleOutcomes(rs[i])
  BY DEF OutcomesOf
<1>3. /\ Plausible(1 .. Len(rs), S)
      /\ CouldDecide("FirstApplicable", rs) = Decidable("FirstApplicable", 1 .. Len(rs), S)
  BY <1>1, RulesDecidable
<1> HIDE DEF S
<1>4. /\ \A k \in 1 .. Len(rs), e \in Effects :
            S[k] = {e} /\ (\A j \in 1 .. k - 1 : S[j] = {"NotApplicable"})
              => Decidable("FirstApplicable", 1 .. Len(rs), S) = {e}
      /\ (\A j \in 1 .. Len(rs) : S[j] = {"NotApplicable"})
              => Decidable("FirstApplicable", 1 .. Len(rs), S) = {"NotApplicable"}
  BY <1>1, <1>3, FirstApplicableDecidable
<1>5. \A k \in 1 .. Len(rs) : \A j \in 1 .. k - 1 : j \in DOMAIN rs
  BY <1>1
<1> QED
  BY <1>1, <1>2, <1>3, <1>4, <1>5

(* The envelope of a set of possible decisions.                            *)
LEMMA EnvelopeValue ==
  /\ \A d \in Outcomes : Envelope({d}) = d
  /\ Envelope({"Deny", "NotApplicable"}) = "IndeterminateD"
  /\ Envelope({"Permit", "NotApplicable"}) = "IndeterminateP"
  /\ \A S \in SUBSET Outcomes : {"Permit", "Deny"} \subseteq S => Envelope(S) = "IndeterminateDP"
<1>1. \A d \in Outcomes : Envelope({d}) = d
  BY DEF Envelope
<1>2. Envelope({"Deny", "NotApplicable"}) = "IndeterminateD"
  BY DEF Envelope
<1>3. Envelope({"Permit", "NotApplicable"}) = "IndeterminateP"
  BY DEF Envelope
<1>4. \A S \in SUBSET Outcomes : {"Permit", "Deny"} \subseteq S => Envelope(S) = "IndeterminateDP"
  BY DEF Envelope
<1>5. QED BY <1>1, <1>2, <1>3, <1>4
=============================================================================

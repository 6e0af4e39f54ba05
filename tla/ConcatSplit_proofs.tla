------------------------- MODULE ConcatSplit_proofs -------------------------
(***************************************************************************)
(* Proofs about ConcatSplit, for every number of variables, every          *)
(* solution, every input and every depth of scopes.  In order:             *)
(*                                                                         *)
(*   - the entries of the cut information are of open scopes, and what     *)
(*     they record was cut by an axiom in force;                           *)
(*   - what the core holds is true in the solution, and every axiom in     *)
(*     force leaves it an outcome (Sound), each of the six split types     *)
(*     having its own lemmas: no solution is lost, states have their       *)
(*     types, constants are cut within their lengths;                      *)
(*   - a cut is refused only where it would loop;                          *)
(*   - every cut that would loop is refused.                               *)
(***************************************************************************)
EXTENDS ConcatSplit, TLAPS, SequenceTheorems, WellFoundedInduction

(* The levels of a stack, at a depth d of scopes.                          *)
Levels(stack, d) == \A e \in stack : e.level \in Int /\ e.level <= d

(* The inductive form of LevelsWithinScope: levels are also numbers.       *)
LevelInv == sLevel \in Nat /\ \A n \in Node : Levels(cutVARMap[n], sLevel)

-----------------------------------------------------------------------------
(* A push or a merge (addCutInfoOneNode, addCutInfoMerge) writes no level  *)
(* but the one it is given.                                                *)
LEMMA WithCutLevels ==
  ASSUME NEW stack, NEW d \in Int, NEW l \in Int, l <= d, NEW S, Levels(stack, d)
  PROVE  Levels(WithCut(stack, l, S), d)
<1>1. SUFFICES ASSUME NEW e \in WithCut(stack, l, S)
               PROVE  e.level \in Int /\ e.level <= d
  BY DEF Levels
<1>2. CASE e \in stack
  BY <1>2 DEF Levels
<1>3. CASE e = [level |-> l, vars |-> TopVars(stack) \cup S]
  BY <1>3
<1> QED
  BY <1>2, <1>3 DEF WithCut

(* checkandInit_cutVAR: the ancestor's own entry is at level -1.           *)
LEMMA CheckandInitLevels ==
  ASSUME NEW map, NEW d \in Nat, NEW nodes, \A n \in Node : Levels(map[n], d)
  PROVE  \A n \in Node : Levels(CheckandInit(map, nodes)[n], d)
<1> SUFFICES ASSUME NEW n \in Node PROVE Levels(CheckandInit(map, nodes)[n], d)
  OBVIOUS
<1>1. Levels({}, d)
  BY DEF Levels
<1>2. Levels(WithCut({}, -1, {n}), d)
  BY <1>1, WithCutLevels
<1> QED
  BY <1>2 DEF CheckandInit

(* The cuts of a split are merged at the level of the scope it is made in. *)
LEMMA MergeCutsLevels ==
  ASSUME NEW map, NEW cuts, sLevel \in Nat, \A n \in Node : Levels(map[n], sLevel)
  PROVE  \A n \in Node : Levels(MergeCuts(map, cuts)[n], sLevel)
<1> SUFFICES ASSUME NEW n \in Node PROVE Levels(MergeCuts(map, cuts)[n], sLevel)
  OBVIOUS
<1> DEFINE from == UNION {c.from : c \in {d \in cuts : d.new = n}}
<1>1. Levels(AddCutInfoMerge(map[n], sLevel, map, from), sLevel)
  BY WithCutLevels DEF AddCutInfoMerge
<1>2. MergeCuts(map, cuts)[n] = IF \E c \in cuts : c.new = n
                                THEN AddCutInfoMerge(map[n], sLevel, map, from) ELSE map[n]
  BY DEF MergeCuts
<1> QED
  BY <1>1, <1>2

(* cb_pop: what it leaves is of level 0, of a level below the one returned *)
(* to, or under such an entry.                                             *)
LEMMA CutsLeftLevels ==
  ASSUME NEW map, NEW d \in Int, NEW l \in Nat, \A n \in Node : Levels(map[n], d)
  PROVE  \A n \in Node : Levels(CutsLeft(map, l)[n], l)
<1> SUFFICES ASSUME NEW n \in Node, NEW e \in CutsLeft(map, l)[n]
             PROVE  e.level \in Int /\ e.level <= l
  BY DEF Levels
<1>1. PICK f \in map[n] : e.level <= f.level /\ (f.level = 0 \/ f.level < l)
  BY DEF CutsLeft
<1>2. e \in map[n]
  BY DEF CutsLeft
<1>3. e.level \in Int /\ f.level \in Int
  BY <1>1, <1>2 DEF Levels
<1> QED
  BY <1>1, <1>3

-----------------------------------------------------------------------------
LEMMA LevelInit == Init => LevelInv
<1> SUFFICES ASSUME Init PROVE LevelInv
  OBVIOUS
<1>1. sLevel = 0 /\ cutVARMap = [n \in Node |-> {}]
  BY DEF Init
<1> QED
  BY <1>1 DEF LevelInv, Levels

LEMMA LevelNext == LevelInv /\ [Next]_vars => LevelInv'
<1> SUFFICES ASSUME LevelInv, [Next]_vars PROVE LevelInv'
  OBVIOUS
<1> USE DEF LevelInv
<1>1. ASSUME UNCHANGED <<sLevel, cutVARMap>> PROVE LevelInv'
  BY <1>1 DEF Levels
<1>2. ASSUME NEW axioms, AddOnly(axioms) PROVE LevelInv'
  BY <1>1, <1>2 DEF AddOnly
<1>3. ASSUME NEW c1, NEW c2, NEW known, NEW axioms, SplitConcats(c1, c2, known, axioms)
      PROVE  LevelInv'
  <2>1. PICK nodes, cuts : /\ cutVARMap' = MergeCuts(CheckandInit(cutVARMap, nodes), cuts)
                           /\ sLevel' = sLevel
    BY <1>3 DEF SplitConcats
  <2>2. \A n \in Node : Levels(CheckandInit(cutVARMap, nodes)[n], sLevel)
    BY CheckandInitLevels
  <2>3. \A n \in Node : Levels(MergeCuts(CheckandInit(cutVARMap, nodes), cuts)[n], sLevel)
    BY <2>2, MergeCutsLevels
  <2> QED
    BY <2>1, <2>3 DEF Levels
<1>4. ASSUME NEW e1, NEW e2, QuickEq(e1, e2) PROVE LevelInv'
  BY <1>2, <1>4 DEF QuickEq
<1>5. ASSUME NEW e1, NEW e2, NEW known, SameLengthEq(e1, e2, known) PROVE LevelInv'
  BY <1>2, <1>5 DEF SameLengthEq
<1>6. ASSUME NEW e1, NEW e2, NEW known, SimplifyEq(e1, e2, known) PROVE LevelInv'
  BY <1>2, <1>3, <1>6 DEF SimplifyEq
<1>7. ASSUME NEW c, NEW s, CutConst(c, s) PROVE LevelInv'
  BY <1>1, <1>7 DEF CutConst
<1>8. ASSUME NEW e, NEW known, SolveConcatEqStr(e, known) PROVE LevelInv'
  BY <1>2, <1>7, <1>8 DEF SolveConcatEqStr
<1>9. ASSUME NEW a, Adopt(a) PROVE LevelInv'
  BY <1>1, <1>9 DEF Adopt
<1>10. CASE CbPush
  <2>1. sLevel' = sLevel + 1 /\ cutVARMap' = cutVARMap
    BY <1>10 DEF CbPush
  <2> QED
    BY <2>1 DEF Levels
<1>11. CASE CbPop
  <2>1. sLevel' \in Nat /\ cutVARMap' = CutsLeft(cutVARMap, sLevel')
    BY <1>11 DEF CbPop
  <2>2. \A n \in Node : Levels(CutsLeft(cutVARMap, sLevel')[n], sLevel')
    BY <2>1, CutsLeftLevels
  <2> QED
    BY <2>1, <2>2 DEF Levels
<1>12. CASE UNCHANGED vars
  BY <1>1, <1>12 DEF vars
<1> QED
  BY <1>4, <1>5, <1>6, <1>8, <1>9, <1>10, <1>11, <1>12 DEF Next

(* No entry of the cut information is of a scope that is closed, so that   *)
(* the error returns of addCutInfoOneNode and addCutInfoMerge are never    *)
(* taken, however scopes are opened and closed.                            *)
THEOREM LevelsStayWithinScope == Spec => []LevelsWithinScope
<1>1. LevelInv => LevelsWithinScope
  BY DEF LevelInv, Levels, LevelsWithinScope
<1> QED
  BY LevelInit, LevelNext, <1>1, PTL DEF Spec

-----------------------------------------------------------------------------
(* An ancestor of another name came from a cut whose axiom is in force.    *)
Backed ==
  \A n \in Node : \A e \in cutVARMap[n] :
    e.vars \subseteq {n} \/ \E a \in inForce : /\ a.level <= e.level
                                            /\ \E c \in a.cuts : c.new = n

(* What Backed needs of an axiom: it is a record with a level and cuts,    *)
(* and of a scope that is open.                                            *)
AxiomShape(a) == a.level \in Nat /\ a.level <= sLevel /\ {"level", "cuts"} \subseteq DOMAIN a

BackedInv == LevelInv /\ Backed /\ \A a \in inForce : AxiomShape(a)

(* Axioms of one step, each of the scope it is made in.                    *)
Fresh(axioms) == \A a \in axioms : a.level = sLevel /\ {"level", "cuts"} \subseteq DOMAIN a

(* A split records a cut only with an axiom that makes it.                 *)
Recorded(outcome) ==
  Fresh(outcome.axioms) /\ outcome.cuts \subseteq CutsOf(outcome.axioms)

LEMMA AxiomFields ==
  ASSUME NEW v, NEW xor, NEW pair, NEW options, NEW cuts
  PROVE  /\ Axiom(v, xor, pair, options, cuts).level = sLevel
         /\ Axiom(v, xor, pair, options, cuts).cuts = cuts
         /\ {"level", "cuts"} \subseteq DOMAIN Axiom(v, xor, pair, options, cuts)
<1> DEFINE ch == XorValues(v, options)
           eqs == UNION {options[k].eqs : k \in ch}
<1> HIDE DEF ch, eqs
<1>1. Axiom(v, xor, pair, options, cuts) =
        [level |-> sLevel, xor |-> xor, pair |-> pair, choices |-> ch, eqs |-> eqs,
         cuts |-> cuts, remembered |-> TRUE]
  BY DEF Axiom, ch, eqs
<1> QED
  BY <1>1

LEMMA RecordedWithCuts ==
  ASSUME NEW v, NEW xor, NEW pair, NEW options, NEW cuts, NEW refused, NEW w
  PROVE  Recorded(Outcome({Axiom(v, xor, pair, options, cuts)}, cuts, refused, w))
<1> DEFINE a == Axiom(v, xor, pair, options, cuts)
           o == Outcome({a}, cuts, refused, w)
<1>1. a.level = sLevel /\ a.cuts = cuts /\ {"level", "cuts"} \subseteq DOMAIN a
  BY AxiomFields
<1> HIDE DEF a
<1>2. o.axioms = {a} /\ o.cuts = cuts
  BY DEF Outcome
<1>3. Fresh({a})
  BY <1>1 DEF Fresh
<1>4. cuts \subseteq CutsOf({a})
  BY <1>1 DEF CutsOf
<1> QED
  BY <1>2, <1>3, <1>4 DEF Recorded, a

LEMMA RecordedWithout ==
  ASSUME NEW axioms, Fresh(axioms), NEW refused, NEW w
  PROVE  Recorded(Outcome(axioms, {}, refused, w))
<1>1. /\ Outcome(axioms, {}, refused, w).axioms = axioms
      /\ Outcome(axioms, {}, refused, w).cuts = {}
  BY DEF Outcome
<1> QED
  BY <1>1 DEF Recorded

LEMMA FreshAxioms ==
  /\ Fresh({})
  /\ \A v, pair, eqs : Fresh({Single(v, pair, eqs)})
  /\ \A v : Fresh({Negation(v)})
<1>1. Fresh({})
  BY DEF Fresh
<1>2. ASSUME NEW v, NEW pair, NEW eqs PROVE Fresh({Single(v, pair, eqs)})
  BY AxiomFields DEF Fresh, Single
<1>3. ASSUME NEW v PROVE Fresh({Negation(v)})
  BY AxiomFields DEF Fresh, Negation
<1> QED
  BY <1>1, <1>2, <1>3

(* The outcomes that the splits are put together from.                     *)
LEMMA Outcomes ==
  /\ Recorded(Nothing)
  /\ \A pair, eqs, cuts, v : Recorded(OneCut(pair, eqs, cuts, v))
  /\ \A pair, eqs, v : Recorded(Exactly(pair, eqs, v))
  /\ \A pair, options, cuts, refused, v : Recorded(AnyOf(pair, options, cuts, refused, v))
  /\ \A v : Recorded(Outcome({Negation(v)}, {}, FALSE, v))
  /\ \A pair, eq : Recorded(Derive(pair, eq))
<1>1. \A refused, w : Recorded(Outcome({}, {}, refused, w))
  BY FreshAxioms, RecordedWithout
<1>2. \A pair, eqs, refused, v, w : Recorded(Outcome({Single(v, pair, eqs)}, {}, refused, w))
  BY FreshAxioms, RecordedWithout
<1>3. Recorded(Nothing)
  BY <1>1 DEF Nothing
<1>4. ASSUME NEW pair, NEW eqs, NEW cuts, NEW v PROVE Recorded(OneCut(pair, eqs, cuts, v))
  BY <1>1, RecordedWithCuts DEF OneCut
<1>5. ASSUME NEW pair, NEW eqs, NEW v PROVE Recorded(Exactly(pair, eqs, v))
  BY <1>2 DEF Exactly
<1>6. ASSUME NEW pair, NEW options, NEW cuts, NEW refused, NEW v
      PROVE  Recorded(AnyOf(pair, options, cuts, refused, v))
  BY RecordedWithCuts DEF AnyOf
<1>7. ASSUME NEW v PROVE Recorded(Outcome({Negation(v)}, {}, FALSE, v))
  BY FreshAxioms, RecordedWithout
<1>8. ASSUME NEW pair, NEW eq PROVE Recorded(Derive(pair, eq))
  BY <1>2, <1>3 DEF Derive
<1> QED
  BY <1>3, <1>4, <1>5, <1>6, <1>7, <1>8

LEMMA BySplitTypeRecorded ==
  ASSUME NEW k, NEW a, NEW b, NEW c, NEW d,
         Recorded(a), Recorded(b), Recorded(c), Recorded(d)
  PROVE  Recorded(BySplitType(k, a, b, c, d))
  BY DEF BySplitType

LEMMA ShapeType1 ==
  ASSUME NEW k, NEW pair, NEW v, NEW e1, NEW q1, NEW e2, NEW e3, NEW q3, NEW o, NEW q, NEW r
  PROVE  Recorded(BySplitType(k, OneCut(pair, e1, q1, v), Exactly(pair, e2, v),
                              OneCut(pair, e3, q3, v), AnyOf(pair, o, q, r, v)))
  BY Outcomes, BySplitTypeRecorded

LEMMA ShapeType2 ==
  ASSUME NEW k, NEW pair, NEW v, NEW e1, NEW q1, NEW e2, NEW e3, NEW o, NEW q, NEW r
  PROVE  Recorded(BySplitType(k, OneCut(pair, e1, q1, v), Exactly(pair, e2, v),
                              Exactly(pair, e3, v), AnyOf(pair, o, q, r, v)))
  BY Outcomes, BySplitTypeRecorded

LEMMA ShapeType3 ==
  ASSUME NEW k, NEW pair, NEW v, NEW e1, NEW e2, NEW e3, NEW q3, NEW o, NEW q, NEW r
  PROVE  Recorded(BySplitType(k, Exactly(pair, e1, v), Exactly(pair, e2, v),
                              OneCut(pair, e3, q3, v), AnyOf(pair, o, q, r, v)))
  BY Outcomes, BySplitTypeRecorded

LEMMA ForgottenFields ==
  ASSUME NEW a, {"level", "cuts"} \subseteq DOMAIN a
  PROVE  /\ Forgotten(a).level = a.level /\ Forgotten(a).cuts = a.cuts
         /\ DOMAIN Forgotten(a) = DOMAIN a
  BY DEF Forgotten

(* Whatever the six types do, no cut is recorded without its axiom.        *)
LEMMA SplitRecorded ==
  ASSUME NEW map, NEW c1, NEW c2, NEW known
  PROVE  Recorded(Split(map, c1, c2, known))
<1>1. ASSUME NEW a, NEW b PROVE Recorded(ProcessConcatEqType1(map, a, b, known))
  BY ShapeType1, SMTT(30) DEF ProcessConcatEqType1
<1>2. ASSUME NEW a, NEW b PROVE Recorded(ProcessConcatEqType2(map, a, b, known))
  <2>1. \E k, pair, v, e1, q1, e2, e3, o, q, r :
          ProcessConcatEqType2(map, a, b, known) =
            BySplitType(k, OneCut(pair, e1, q1, v), Exactly(pair, e2, v),
                        Exactly(pair, e3, v), AnyOf(pair, o, q, r, v))
    BY ZenonT(60) DEF ProcessConcatEqType2
  <2> QED
    BY <2>1, ShapeType2
<1>3. ASSUME NEW a, NEW b PROVE Recorded(ProcessConcatEqType3(map, a, b, known))
  <2>1. \E k, pair, v, e1, e2, e3, q3, o, q, r :
          ProcessConcatEqType3(map, a, b, known) =
            BySplitType(k, Exactly(pair, e1, v), Exactly(pair, e2, v),
                        OneCut(pair, e3, q3, v), AnyOf(pair, o, q, r, v))
    BY ZenonT(60) DEF ProcessConcatEqType3
  <2> QED
    BY <2>1, ShapeType3
<1>4. ASSUME NEW a, NEW b PROVE Recorded(ProcessConcatEqType4(a, b))
  BY Outcomes, Zenon DEF ProcessConcatEqType4
<1>5. ASSUME NEW a, NEW b PROVE Recorded(ProcessConcatEqType5(a, b))
  BY Outcomes, Zenon DEF ProcessConcatEqType5
<1>6. ASSUME NEW a, NEW b PROVE Recorded(ProcessConcatEqType6(map, a, b))
  <2>1. \A v, xor, pair, options, cuts, refused :
          Recorded(Outcome({Forgotten(Axiom(v, xor, pair, options, cuts))}, {}, refused, v))
    BY RecordedWithout, AxiomFields, ForgottenFields DEF Fresh
  <2> QED
    BY <2>1, Zenon DEF ProcessConcatEqType6
<1> QED
  BY Outcomes, <1>1, <1>2, <1>3, <1>4, <1>5, <1>6 DEF Split

(* Backed of any map and axioms.                                           *)
BackedBy(map, axioms) ==
  \A n \in Node : \A e \in map[n] :
    e.vars \subseteq {n} \/ \E a \in axioms : /\ a.level <= e.level
                                            /\ \E c \in a.cuts : c.new = n

LEMMA CheckandInitBacked ==
  ASSUME NEW map, NEW axioms, NEW nodes, BackedBy(map, axioms)
  PROVE  BackedBy(CheckandInit(map, nodes), axioms)
<1> SUFFICES ASSUME NEW n \in Node, NEW e \in CheckandInit(map, nodes)[n]
             PROVE  e.vars \subseteq {n} \/ \E a \in axioms : /\ a.level <= e.level
                                                            /\ \E c \in a.cuts : c.new = n
  BY DEF BackedBy
<1>1. CASE e \in map[n]
  BY <1>1 DEF BackedBy
<1>2. CASE e \in WithCut({}, -1, {n})
  <2>1. TopVars({}) = {}
    BY DEF TopVars
  <2> QED
    BY <1>2, <2>1 DEF WithCut
<1> QED
  BY <1>1, <1>2 DEF CheckandInit

LEMMA MergeBacked ==
  ASSUME NEW map, NEW axioms, NEW new, NEW cuts, sLevel \in Nat,
         BackedBy(map, axioms), Fresh(new), cuts \subseteq CutsOf(new)
  PROVE  BackedBy(MergeCuts(map, cuts), axioms \cup new)
<1> SUFFICES ASSUME NEW n \in Node, NEW e \in MergeCuts(map, cuts)[n]
             PROVE  e.vars \subseteq {n} \/ \E a \in axioms \cup new :
                                              a.level <= e.level /\ \E c \in a.cuts : c.new = n
  BY DEF BackedBy
<1>1. CASE e \in map[n]
  BY <1>1 DEF BackedBy
<1>2. CASE e \notin map[n]
  <2>1. PICK c \in cuts : c.new = n
    BY <1>2 DEF MergeCuts
  <2>2. PICK src : e \in AddCutInfoMerge(map[n], sLevel, map, src)
    BY <2>1 DEF MergeCuts
  <2>3. e.level = sLevel
    BY <1>2, <2>2 DEF AddCutInfoMerge, WithCut
  <2>4. PICK a \in new : c \in a.cuts
    BY <2>1 DEF CutsOf
  <2>5. a.level = sLevel
    BY DEF Fresh
  <2> QED
    BY <2>1, <2>3, <2>4, <2>5
<1> QED
  BY <1>1, <1>2

(* What cb_pop keeps of the axioms, as CbPop has it.                       *)
AxiomsLeft(axioms, l) ==
  {IF a.level < l \/ a.level = 0 THEN a ELSE Forgotten(a) :
     a \in {b \in axioms : b.level <= l}}

LEMMA AxiomsLeftShape ==
  ASSUME NEW axioms, NEW l \in Nat, \A a \in axioms : AxiomShape(a)
  PROVE  /\ \A b \in AxiomsLeft(axioms, l) :
              b.level \in Nat /\ b.level <= l /\ {"level", "cuts"} \subseteq DOMAIN b
         /\ \A a \in axioms : a.level <= l =>
              \E b \in AxiomsLeft(axioms, l) : b.level = a.level /\ b.cuts = a.cuts
<1>1. \A a \in axioms : /\ Forgotten(a).level = a.level /\ Forgotten(a).cuts = a.cuts
                        /\ DOMAIN Forgotten(a) = DOMAIN a
  BY ForgottenFields DEF AxiomShape
<1>2. ASSUME NEW b \in AxiomsLeft(axioms, l)
      PROVE  b.level \in Nat /\ b.level <= l /\ {"level", "cuts"} \subseteq DOMAIN b
  <2>1. PICK a \in axioms : a.level <= l /\ b \in {a, Forgotten(a)}
    BY DEF AxiomsLeft
  <2> QED
    BY <1>1, <2>1 DEF AxiomShape
<1>3. ASSUME NEW a \in axioms, a.level <= l
      PROVE  \E b \in AxiomsLeft(axioms, l) : b.level = a.level /\ b.cuts = a.cuts
  <2> DEFINE b == IF a.level < l \/ a.level = 0 THEN a ELSE Forgotten(a)
  <2>1. b \in AxiomsLeft(axioms, l)
    BY <1>3 DEF AxiomsLeft
  <2>2. b.level = a.level /\ b.cuts = a.cuts
    BY <1>1
  <2> QED
    BY <2>1, <2>2
<1> QED
  BY <1>2, <1>3

LEMMA CutsLeftBacked ==
  ASSUME NEW map, NEW axioms, NEW d \in Int, NEW l \in Nat, \A n \in Node : Levels(map[n], d),
         BackedBy(map, axioms), \A a \in axioms : AxiomShape(a)
  PROVE  BackedBy(CutsLeft(map, l), AxiomsLeft(axioms, l))
<1> SUFFICES ASSUME NEW n \in Node, NEW e \in CutsLeft(map, l)[n], ~ e.vars \subseteq {n}
             PROVE  \E b \in AxiomsLeft(axioms, l) :
                      b.level <= e.level /\ \E c \in b.cuts : c.new = n
  BY DEF BackedBy
<1>1. e \in map[n]
  BY DEF CutsLeft
<1>2. PICK a \in axioms : a.level <= e.level /\ \E c \in a.cuts : c.new = n
  BY <1>1 DEF BackedBy
<1>3. e.level \in Int /\ e.level <= l /\ a.level \in Nat
  BY CutsLeftLevels DEF Levels, AxiomShape
<1>4. PICK b \in AxiomsLeft(axioms, l) : b.level = a.level /\ b.cuts = a.cuts
  BY <1>2, <1>3, AxiomsLeftShape
<1> QED
  BY <1>2, <1>4

-----------------------------------------------------------------------------
LEMMA BackedInit == Init => BackedInv
<1> SUFFICES ASSUME Init PROVE BackedInv
  OBVIOUS
<1>1. inForce = {} /\ cutVARMap = [n \in Node |-> {}]
  BY DEF Init
<1> QED
  BY <1>1, LevelInit DEF BackedInv, Backed

(* A step that adds axioms of its scope.                                   *)
LEMMA BackedAddOnly ==
  ASSUME BackedInv, NEW axioms, Fresh(axioms), AddOnly(axioms)
  PROVE  Backed' /\ \A a \in inForce' : AxiomShape(a)'
<1>1. inForce' = inForce \cup axioms /\ sLevel' = sLevel /\ cutVARMap' = cutVARMap
  BY DEF AddOnly, AddAxiom
<1>2. sLevel \in Nat
  BY DEF BackedInv, LevelInv
<1>3. \A a \in inForce \cup axioms : AxiomShape(a)
  BY <1>2 DEF BackedInv, Fresh, AxiomShape
<1> QED
  BY <1>1, <1>3 DEF BackedInv, Backed, AxiomShape

LEMMA SimplifiedFresh == \A e : Fresh(Simplified(e))
  BY FreshAxioms DEF Simplified

LEMMA FreshUnion == ASSUME NEW S, NEW T, Fresh(S), Fresh(T) PROVE Fresh(S \cup T)
  BY DEF Fresh

LEMMA FromConstFresh == \A t, s, known : Fresh(FromConst(t, s, known))
  BY FreshAxioms, Zenon DEF FromConst

LEMMA BackedSplit ==
  ASSUME BackedInv, NEW c1, NEW c2, NEW known, NEW axioms, Fresh(axioms),
         SplitConcats(c1, c2, known, axioms)
  PROVE  Backed' /\ \A a \in inForce' : AxiomShape(a)'
<1> DEFINE map(nodes) == CheckandInit(cutVARMap, nodes)
           outcome(nodes) == Split(map(nodes), c1, c2, known)
<1>1. PICK nodes : /\ inForce' = inForce \cup axioms \cup outcome(nodes).axioms
                   /\ cutVARMap' = MergeCuts(map(nodes), outcome(nodes).cuts)
                   /\ sLevel' = sLevel
  BY Zenon DEF SplitConcats, AddAxiom
<1>2. Recorded(outcome(nodes))
  BY SplitRecorded
<1>3. sLevel \in Nat /\ BackedBy(cutVARMap, inForce)
  BY DEF BackedInv, LevelInv, Backed, BackedBy
<1>4. BackedBy(map(nodes), inForce)
  BY <1>3, CheckandInitBacked
<1> HIDE DEF map, outcome
<1> DEFINE new == axioms \cup outcome(nodes).axioms
<1>5. Fresh(new) /\ outcome(nodes).cuts \subseteq CutsOf(new)
  BY <1>2, FreshUnion DEF Recorded, CutsOf
<1>6. BackedBy(MergeCuts(map(nodes), outcome(nodes).cuts), inForce \cup new)
  BY <1>3, <1>4, <1>5, MergeBacked
<1>7. Backed'
  BY <1>1, <1>6 DEF Backed, BackedBy
<1>8. \A a \in inForce \cup new : AxiomShape(a)
  BY <1>3, <1>5 DEF BackedInv, Fresh, AxiomShape
<1> QED
  BY <1>1, <1>7, <1>8 DEF AxiomShape

LEMMA BackedNext == BackedInv /\ [Next]_vars => BackedInv'
<1> SUFFICES ASSUME BackedInv, [Next]_vars
             PROVE  Backed' /\ \A a \in inForce' : AxiomShape(a)'
  BY LevelNext DEF BackedInv
<1> DEFINE Goal == Backed' /\ \A a \in inForce' : AxiomShape(a)'
<1>1. ASSUME UNCHANGED <<sLevel, cutVARMap, inForce>> PROVE Goal
  BY <1>1 DEF BackedInv, Backed, AxiomShape
<1>2. ASSUME NEW e1, NEW e2, QuickEq(e1, e2) PROVE Goal
  <2>1. Fresh(QuickAxioms(e1.rhs, e2.rhs))
    BY FreshAxioms, Zenon DEF QuickAxioms
  <2> QED
    BY <1>2, <2>1, BackedAddOnly DEF QuickEq
<1>3. ASSUME NEW e1, NEW e2, NEW known, SameLengthEq(e1, e2, known) PROVE Goal
  <2>1. Fresh({LengthAxiom(e1.rhs, e2.rhs)})
    BY FreshAxioms DEF LengthAxiom
  <2> QED
    BY <1>3, <2>1, BackedAddOnly DEF SameLengthEq
<1>4. ASSUME NEW e1, NEW e2, NEW known, SimplifyEq(e1, e2, known) PROVE Goal
  <2> DEFINE axioms == Simplified(e1) \cup Simplified(e2)
             negated(b) == IF b THEN {Negation(val)} ELSE {}
  <2>1. Fresh(axioms) /\ \A b : Fresh(axioms \cup negated(b))
    BY SimplifiedFresh, FreshUnion, FreshAxioms
  <2>2. CASE \E c1, c2 : SplitConcats(c1, c2, known, axioms)
    BY <2>1, <2>2, BackedSplit
  <2>3. CASE \E b : AddOnly(axioms \cup negated(b))
    BY <2>1, <2>3, BackedAddOnly
  <2> QED
    BY <1>4, <2>2, <2>3 DEF SimplifyEq
<1>5. ASSUME NEW e, NEW known, SolveConcatEqStr(e, known) PROVE Goal
  <2>1. ASSUME NEW t, NEW s, CutConst(t, s) PROVE Goal
    <3>1. PICK xor, pair :
                     /\ inForce' = inForce \cup {Axiom(val, xor, pair, EveryCut(t, s), {})}
                     /\ sLevel' = sLevel /\ cutVARMap' = cutVARMap
      BY <2>1 DEF CutConst, AddAxiom
    <3>2. sLevel \in Nat
      BY DEF BackedInv, LevelInv
    <3>3. \A a \in inForce' : AxiomShape(a)
      BY <3>1, <3>2, AxiomFields DEF BackedInv, AxiomShape
    <3> QED
      BY <3>1, <3>3 DEF BackedInv, Backed, AxiomShape
  <2>2. ASSUME NEW eqs, AddOnly({Single(val, <<>>, eqs)}) PROVE Goal
    BY <2>2, FreshAxioms, BackedAddOnly
  <2>3. ASSUME NEW t, NEW s, NEW b, AddOnly((IF b THEN {} ELSE Simplified(e)) \cup FromConst(t, s, known))
        PROVE  Goal
    <3>1. Fresh((IF b THEN {} ELSE Simplified(e)) \cup FromConst(t, s, known))
      BY FreshUnion, FreshAxioms, SimplifiedFresh, FromConstFresh
    <3> QED
      BY <2>3, <3>1, BackedAddOnly
  <2> QED
    BY <1>5, <2>1, <2>2, <2>3, Zenon DEF SolveConcatEqStr
<1>6. ASSUME NEW a, Adopt(a) PROVE Goal
  BY <1>1, <1>6 DEF Adopt
<1>7. CASE CbPush
  <2>1. sLevel' = sLevel + 1 /\ cutVARMap' = cutVARMap /\ inForce' = inForce /\ sLevel \in Nat
    BY <1>7 DEF CbPush, BackedInv, LevelInv
  <2> QED
    BY <2>1 DEF BackedInv, Backed, AxiomShape
<1>8. CASE CbPop
  <2>1. /\ sLevel' \in Nat /\ cutVARMap' = CutsLeft(cutVARMap, sLevel')
        /\ inForce' = AxiomsLeft(inForce, sLevel')
    BY <1>8 DEF CbPop, BackedInv, LevelInv, AxiomsLeft
  <2>2. BackedBy(CutsLeft(cutVARMap, sLevel'), AxiomsLeft(inForce, sLevel'))
    BY <2>1, CutsLeftBacked DEF BackedInv, LevelInv, Backed, BackedBy
  <2>3. \A b \in AxiomsLeft(inForce, sLevel') :
          b.level \in Nat /\ b.level <= sLevel' /\ {"level", "cuts"} \subseteq DOMAIN b
    BY <2>1, AxiomsLeftShape DEF BackedInv
  <2> QED
    BY <2>1, <2>2, <2>3 DEF Backed, BackedBy, AxiomShape
<1>9. CASE UNCHANGED vars
  BY <1>1, <1>9 DEF vars
<1> QED
  BY <1>2, <1>3, <1>4, <1>5, <1>6, <1>7, <1>8, <1>9 DEF Next

(* An ancestor a variable is remembered to have come from a cut whose      *)
(* axiom is in force, however scopes are opened and closed: hasSelfCut     *)
(* refuses no cut on account of a split that was undone.                   *)
THEOREM CutsAreBacked == Spec => []CutsBacked
<1>1. BackedInv => CutsBacked
  BY DEF BackedInv, Backed, LevelInv, Levels, LevelsWithinScope, CutsBacked
<1> QED
  BY BackedInit, BackedNext, <1>1, PTL DEF Spec

-----------------------------------------------------------------------------
(* With lengths that pass checkLengthConcat2Concat, of which any may be    *)
(* unknown (-1), the types 2 and 3 cut their constant within its length.   *)
THEOREM ConstantCutWithin ==
  ASSUME NEW xLen \in Int, NEW yLen \in Int, NEW mLen \in Int, NEW strLen \in Nat,
         xLen >= -1, yLen >= -1, mLen >= -1
  PROVE  CutWithinString(xLen, yLen, mLen, strLen)
<1>1. ASSUME LengthsAgree(xLen, yLen, mLen, strLen), SplitType(xLen, yLen, mLen, strLen) = 2
      PROVE  LenDelta(xLen, yLen, mLen, strLen) \in 0 .. strLen
  BY <1>1 DEF LengthsAgree, SplitType, Compare, LenDelta
<1>2. ASSUME LengthsAgree(xLen, yLen, strLen, mLen), SplitType(xLen, yLen, strLen, mLen) = 0
      PROVE  PrefixLen(xLen, yLen, strLen, mLen) \in 0 .. strLen
  BY <1>2 DEF LengthsAgree, SplitType, Compare, PrefixLen
<1> QED
  BY <1>1, <1>2 DEF CutWithinString

-----------------------------------------------------------------------------
(* Strings and lists.  Concatenation is used under its own name, Cat, in   *)
(* the facts that follow, so that they are about strings and not sequences. *)

(* The string of a term of one atom, and of a pair.                        *)
LEMMA FlattenOne == \A s : FlattenSeq(<<s>>) = s
<1> SUFFICES ASSUME NEW s PROVE FlattenSeq(<<s>>) = s
  OBVIOUS
<1> DEFINE Step(f) == [i \in 1 .. Len(<<s>>) |-> IF i = 1 THEN <<s>>[i] ELSE f[i - 1] \o <<s>>[i]]
           f == CHOOSE g : g = Step(g)
           g == [i \in 1 .. 1 |-> s]
<1>1. g = Step(g)
  OBVIOUS
<1>2. f = Step(f)
  BY <1>1
<1>3. f[1] = s
  BY <1>2
<1>4. FlattenSeq(<<s>>) = f[Len(<<s>>)]
  BY DEF FlattenSeq
<1> QED
  BY <1>3, <1>4

LEMMA FlattenTwo == \A s, t : FlattenSeq(<<s, t>>) = s \o t
<1> SUFFICES ASSUME NEW s, NEW t PROVE FlattenSeq(<<s, t>>) = s \o t
  OBVIOUS
<1> DEFINE st == <<s, t>>
           Step(f) == [i \in 1 .. Len(st) |-> IF i = 1 THEN st[i] ELSE f[i - 1] \o st[i]]
           f == CHOOSE g : g = Step(g)
           g == [i \in 1 .. 2 |-> IF i = 1 THEN s ELSE s \o t]
<1>1. g = Step(g)
  <2>1. \A i \in 1 .. 2 : g[i] = IF i = 1 THEN st[i] ELSE g[i - 1] \o st[i]
    OBVIOUS
  <2> QED
    BY <2>1, SMTT(30)
<1>2. f = Step(f)
  BY <1>1
<1>3. FlattenSeq(st) = f[Len(st)]
  BY DEF FlattenSeq
<1> HIDE DEF f
<1>4. f = [i \in 1 .. 2 |-> IF i = 1 THEN s ELSE f[i - 1] \o t]
  <2>1. \A i \in 1 .. 2 : (IF i = 1 THEN st[i] ELSE f[i - 1] \o st[i])
                          = (IF i = 1 THEN s ELSE f[i - 1] \o t)
    OBVIOUS
  <2> QED
    BY <1>2, <2>1
<1>5. f[1] = s
  BY <1>4
<1>6. f[2] = f[1] \o t
  BY <1>4
<1> QED
  BY <1>3, <1>5, <1>6

-----------------------------------------------------------------------------
(* Strings.                                                                *)
Text == Seq(Char)

(* Concatenation, kept folded in the facts that follow.                     *)
Cat(s, t) == s \o t

LEMMA Associative ==
  ASSUME NEW s \in Text, NEW t \in Text, NEW u \in Text
  PROVE  Cat(Cat(s, t), u) = Cat(s, Cat(t, u))
  BY ConcatAssociative DEF Text, Cat

LEMMA Cancel ==
  ASSUME NEW s \in Text, NEW t \in Text, NEW u \in Text, Cat(s, t) = Cat(s, u)
  PROVE  t = u
  BY ConcatSimplifications DEF Text, Cat

LEMMA EmptyText ==
  /\ <<>> \in Text /\ Len(<<>>) = 0
  /\ \A s \in Text : Cat(s, <<>>) = s /\ Cat(<<>>, s) = s /\ (Len(s) = 0 => s = <<>>)
<1>1. \A s \in Text : Cat(s, <<>>) = s /\ Cat(<<>>, s) = s
  BY ConcatEmptySeq DEF Text, Cat
<1> QED
  BY <1>1, EmptySeq DEF Text

LEMMA Cutting ==
  ASSUME NEW s \in Text, NEW i \in 0 .. Len(s)
  PROVE  /\ Prefix(s, i) \in Text /\ Len(Prefix(s, i)) = i
         /\ Suffix(s, i) \in Text /\ Len(Suffix(s, i)) = Len(s) - i
         /\ Cat(Prefix(s, i), Suffix(s, i)) = s
         /\ \A j \in 1 .. i : Prefix(s, i)[j] = s[j]
<1> USE DEF Text
<1>1. Len(s) \in Nat /\ \A j \in 1 .. Len(s) : s[j] \in Char
  BY LenProperties, ElementOfSeq
<1>2. /\ Prefix(s, i) \in Text /\ Len(Prefix(s, i)) = i
      /\ \A j \in 1 .. i : Prefix(s, i)[j] = s[j]
  <2>1. \A j \in 1 .. i : s[j] \in Char
    BY <1>1
  <2>2. /\ SubSeq(s, 1, i) \in Seq(Char)
        /\ Len(SubSeq(s, 1, i)) = IF 1 <= i THEN i - 1 + 1 ELSE 0
        /\ \A j \in 1 .. i - 1 + 1 : SubSeq(s, 1, i)[j] = s[1 + j - 1]
    BY <2>1, SubSeqProperties
  <2> QED
    BY <2>2 DEF Prefix
<1>3. Suffix(s, i) \in Text /\ Len(Suffix(s, i)) = Len(s) - i
  <2>1. \A j \in i + 1 .. Len(s) : s[j] \in Char
    BY <1>1
  <2>2. /\ SubSeq(s, i + 1, Len(s)) \in Seq(Char)
        /\ Len(SubSeq(s, i + 1, Len(s))) = IF i + 1 <= Len(s) THEN Len(s) - (i + 1) + 1 ELSE 0
    BY <1>1, <2>1, SubSeqProperties
  <2> QED
    BY <1>1, <2>2 DEF Suffix
<1>4. Cat(Prefix(s, i), Suffix(s, i)) = s
  <2>1. 1 \in 1 .. Len(s) + 1 /\ i \in 1 - 1 .. Len(s) /\ Len(s) \in i .. Len(s)
    BY <1>1
  <2>2. SubSeq(s, 1, i) \o SubSeq(s, i + 1, Len(s)) = SubSeq(s, 1, Len(s))
    BY <2>1, ConcatAdjacentSubSeq
  <2> QED
    BY <2>2, SubSeqFull DEF Prefix, Suffix, Cat
<1> QED
  BY <1>2, <1>3, <1>4

LEMMA Concatenating ==
  ASSUME NEW s \in Text, NEW t \in Text
  PROVE  /\ Cat(s, t) \in Text /\ Len(Cat(s, t)) = Len(s) + Len(t)
         /\ Len(s) \in Nat /\ Len(t) \in Nat
         /\ \A j \in 1 .. Len(s) : Cat(s, t)[j] = s[j]
<1>1. Len(s) \in Nat /\ Len(t) \in Nat
  BY LenProperties DEF Text
<1> QED
  BY <1>1, ConcatProperties DEF Text, Cat

(* Two ways to write one string: the longer first part begins with the     *)
(* shorter one, and what is over begins the other's second part.           *)
LEMMA Overhang ==
  ASSUME NEW s \in Text, NEW t \in Text, NEW u \in Text, NEW w \in Text,
         Cat(s, t) = Cat(u, w), Len(s) <= Len(u)
  PROVE  /\ Suffix(u, Len(s)) \in Text
         /\ Len(Suffix(u, Len(s))) = Len(u) - Len(s)
         /\ u = Cat(s, Suffix(u, Len(s)))
         /\ t = Cat(Suffix(u, Len(s)), w)
<1> DEFINE n == Len(s)
           p == Suffix(u, n)
           q == Prefix(u, n)
<1>1. n \in Nat /\ Len(u) \in Nat /\ n \in 0 .. Len(u)
  BY LenProperties DEF Text
<1>2. /\ q \in Text /\ Len(q) = n /\ p \in Text /\ Len(p) = Len(u) - n /\ Cat(q, p) = u
      /\ \A j \in 1 .. n : q[j] = u[j]
  BY <1>1, Cutting
<1>3. s = q
  <2>1. \A j \in 1 .. n : s[j] = q[j]
    <3> TAKE j \in 1 .. n
    <3>1. Cat(s, t)[j] = s[j]
      BY Concatenating
    <3>2. j \in 1 .. Len(u)
      BY <1>1
    <3>3. Cat(u, w)[j] = u[j]
      BY <3>2, Concatenating
    <3> QED
      BY <1>2, <3>1, <3>3
  <2> QED
    BY <1>2, <2>1, SeqEqual DEF Text
<1> HIDE DEF p, q
<1>4. Cat(p, w) \in Text
  BY <1>2, Concatenating
<1>5. Cat(s, t) = Cat(s, Cat(p, w))
  <2>1. Cat(Cat(q, p), w) = Cat(q, Cat(p, w))
    BY <1>2, Associative
  <2> QED
    BY <1>2, <1>3, <2>1
<1>6. t = Cat(p, w)
  BY <1>2, <1>4, <1>5, Cancel
<1> QED
  BY <1>2, <1>3, <1>6 DEF p, q

(* Two ways to write one string that are cut at one place are one way.     *)
LEMMA SameCut ==
  ASSUME NEW s \in Text, NEW t \in Text, NEW u \in Text, NEW w \in Text, Cat(s, t) = Cat(u, w)
  PROVE  /\ Len(s) + Len(t) = Len(u) + Len(w)
         /\ Len(s) = Len(u) => s = u /\ t = w
<1>1. /\ Len(Cat(s, t)) = Len(s) + Len(t) /\ Len(Cat(u, w)) = Len(u) + Len(w)
      /\ Len(s) \in Nat /\ Len(u) \in Nat
  BY Concatenating
<1>2. ASSUME Len(s) = Len(u) PROVE s = u /\ t = w
  <2>0. Len(s) <= Len(u)
    BY <1>1, <1>2
  <2>1. /\ Suffix(u, Len(s)) \in Text /\ Len(Suffix(u, Len(s))) = Len(u) - Len(s)
        /\ u = Cat(s, Suffix(u, Len(s))) /\ t = Cat(Suffix(u, Len(s)), w)
    BY <2>0, Overhang
  <2>2. Suffix(u, Len(s)) = <<>>
    BY <1>1, <1>2, <2>1, EmptyText
  <2> QED
    BY <2>1, <2>2, EmptyText
<1> QED
  BY <1>1, <1>2

(* Where the parts of a concatenation meet.                                *)
LEMMA Parts ==
  ASSUME NEW s \in Text, NEW t \in Text
  PROVE  Prefix(Cat(s, t), Len(s)) = s /\ Suffix(Cat(s, t), Len(s)) = t
<1> DEFINE u == Cat(s, t)
<1>1. u \in Text /\ Len(s) \in 0 .. Len(u)
  BY Concatenating
<1>2. /\ Prefix(u, Len(s)) \in Text /\ Len(Prefix(u, Len(s))) = Len(s)
      /\ Suffix(u, Len(s)) \in Text
      /\ Cat(Prefix(u, Len(s)), Suffix(u, Len(s))) = Cat(s, t)
  BY <1>1, Cutting
<1> HIDE DEF u
<1>3. Prefix(u, Len(s)) = s /\ Suffix(u, Len(s)) = t
  BY <1>2, SameCut, Zenon
<1> QED
  BY <1>3 DEF u

-----------------------------------------------------------------------------
(* Terms and equalities, and what they say in a solution.                  *)

(* Terms and equalities over a set V of variables, 0 among them.           *)
Pairs(V) == {<<a, b>> : a, b \in Atoms(V)}
Terms(V) == {<<a>> : a \in Atoms(V)} \cup Pairs(V)
Equalities(V) == [lhs : Atoms(V), rhs : Terms(V)]

Vars(V) == V \subseteq 0 .. MaxNode /\ 0 \in V
Value == [Node -> Text]

Holds(v, e) == StrOf(v, e.lhs) = StrOfTerm(v, e.rhs)

LEMMA TermStrings ==
  ASSUME NEW v
  PROVE  /\ \A a : StrOfTerm(v, <<a>>) = StrOf(v, a)
         /\ \A a, b : StrOfTerm(v, <<a, b>>) = Cat(StrOf(v, a), StrOf(v, b))
<1>1. ASSUME NEW a PROVE StrOfTerm(v, <<a>>) = StrOf(v, a)
  <2>1. [i \in DOMAIN <<a>> |-> StrOf(v, <<a>>[i])] = <<StrOf(v, a)>>
    OBVIOUS
  <2> QED
    BY <2>1, FlattenOne DEF StrOfTerm
<1>2. ASSUME NEW a, NEW b PROVE StrOfTerm(v, <<a, b>>) = Cat(StrOf(v, a), StrOf(v, b))
  <2>1. [i \in DOMAIN <<a, b>> |-> StrOf(v, <<a, b>>[i])] = <<StrOf(v, a), StrOf(v, b)>>
    OBVIOUS
  <2> QED
    BY <2>1, FlattenTwo DEF StrOfTerm, Cat
<1> QED
  BY <1>1, <1>2

LEMMA AtomFacts ==
  ASSUME NEW V, Vars(V)
  PROVE  /\ \A s \in Text : Str(s) \in Atoms(V) /\ IsConstStr(Str(s))
         /\ \A s, v : StrOf(v, Str(s)) = s
         /\ \A n \in V : Var(n) \in Atoms(V)
         /\ \A n, v : n # 0 => StrOf(v, Var(n)) = v[n] /\ ~ IsConstStr(Var(n))
         /\ \A a \in Atoms(V) : IsConstStr(a) => a = Str(a.str) /\ a.str \in Text
         /\ \A a \in Atoms(V) : ~ IsConstStr(a) => a.var \in V \ {0} /\ a.var \in Node
<1>1. <<>> \in Text
  BY EmptyText
<1>2. \A s \in Text : Str(s) \in Atoms(V) /\ IsConstStr(Str(s))
  BY DEF Str, Atoms, Vars, Text, IsConstStr
<1>3. \A s, v : StrOf(v, Str(s)) = s
  BY DEF Str, StrOf, IsConstStr
<1>4. \A n \in V : Var(n) \in Atoms(V)
  BY <1>1 DEF Var, Atoms, Text
<1>5. \A n, v : n # 0 => StrOf(v, Var(n)) = v[n] /\ ~ IsConstStr(Var(n))
  BY DEF Var, StrOf, IsConstStr
<1>6. \A a \in Atoms(V) : IsConstStr(a) => a = Str(a.str) /\ a.str \in Text
  BY DEF Str, Atoms, Text, IsConstStr
<1>7. ASSUME NEW a \in Atoms(V), ~ IsConstStr(a) PROVE a.var \in V \ {0} /\ a.var \in Node
  <2>1. a.var \in V /\ a.var # 0
    BY <1>7 DEF Atoms, IsConstStr
  <2>2. a.var \in 0 .. MaxNode
    BY <2>1 DEF Vars
  <2> QED
    BY <2>1, <2>2, MaxNodeAssumption DEF Node
<1> QED
  BY <1>2, <1>3, <1>4, <1>5, <1>6, <1>7

LEMMA StringOfAtom ==
  ASSUME NEW V, Vars(V), NEW v \in Value
  PROVE  /\ \A a \in Atoms(V) : StrOf(v, a) \in Text /\ LenOf(v, a) \in Nat
         /\ \A a \in Atoms(V) : LenOf(v, a) = Len(StrOf(v, a))
         /\ \A t \in Terms(V) : StrOfTerm(v, t) \in Text
<1>1. ASSUME NEW a \in Atoms(V) PROVE StrOf(v, a) \in Text
  <2>1. CASE IsConstStr(a)
    BY <2>1, AtomFacts DEF StrOf
  <2>2. CASE ~ IsConstStr(a)
    <3>1. a.var \in Node
      BY <2>2, AtomFacts
    <3> QED
      BY <2>2, <3>1 DEF StrOf, Value
  <2> QED
    BY <2>1, <2>2
<1>2. ASSUME NEW a \in Atoms(V) PROVE LenOf(v, a) \in Nat /\ LenOf(v, a) = Len(StrOf(v, a))
  BY <1>1, LenProperties DEF LenOf, Text
<1>3. ASSUME NEW t \in Terms(V) PROVE StrOfTerm(v, t) \in Text
  <2>1. CASE \E a \in Atoms(V) : t = <<a>>
    BY <2>1, <1>1, TermStrings
  <2>2. CASE \E a, b \in Atoms(V) : t = <<a, b>>
    BY <2>2, <1>1, TermStrings, Concatenating
  <2> QED
    BY <2>1, <2>2 DEF Terms, Pairs
<1> QED
  BY <1>1, <1>2, <1>3

(* Solutions that agree on the variables of a term give it one string.     *)
LEMMA Agreeing ==
  ASSUME NEW V, Vars(V), NEW v, NEW w, \A n \in V \ {0} : v[n] = w[n]
  PROVE  /\ \A a \in Atoms(V) : StrOf(v, a) = StrOf(w, a)
         /\ \A t \in Terms(V) : StrOfTerm(v, t) = StrOfTerm(w, t)
<1>1. \A a \in Atoms(V) : StrOf(v, a) = StrOf(w, a)
  BY AtomFacts DEF StrOf
<1>2. ASSUME NEW t \in Terms(V) PROVE StrOfTerm(v, t) = StrOfTerm(w, t)
  <2>1. CASE \E a \in Atoms(V) : t = <<a>>
    BY <2>1, <1>1, TermStrings
  <2>2. CASE \E a, b \in Atoms(V) : t = <<a, b>>
    BY <2>2, <1>1, TermStrings
  <2> QED
    BY <2>1, <2>2 DEF Terms, Pairs
<1> QED
  BY <1>1, <1>2

LEMMA Widening ==
  ASSUME NEW V, NEW W, V \subseteq W
  PROVE  /\ Atoms(V) \subseteq Atoms(W) /\ Pairs(V) \subseteq Pairs(W)
         /\ Terms(V) \subseteq Terms(W) /\ Equalities(V) \subseteq Equalities(W)
<1>1. Atoms(V) \subseteq Atoms(W)
  BY DEF Atoms
<1>2. Pairs(V) \subseteq Pairs(W)
  BY <1>1 DEF Pairs
<1>3. Terms(V) \subseteq Terms(W)
  BY <1>1, <1>2 DEF Terms
<1> QED
  BY <1>1, <1>2, <1>3 DEF Equalities

-----------------------------------------------------------------------------
(* What the core holds equal is over V, and is true in v.                  *)
HeldTrue(v, V) ==
  \A e \in equalities : e.lhs \in Atoms(V) /\ e.rhs \in Terms(V) /\ Holds(v, e)

(* A constant found for an atom is its string.                             *)
LEMMA EqcValueIs ==
  ASSUME NEW V, NEW W, Vars(V), Vars(W), V \subseteq W, NEW v, HeldTrue(v, V), NEW a \in Atoms(W)
  PROVE  /\ EqcValue(a) \in Atoms(W)
         /\ StrOf(v, EqcValue(a)) = StrOf(v, a)
         /\ EqcValue(a) = a \/ IsConstStr(EqcValue(a))
<1> DEFINE held == {f \in equalities : f.lhs = a /\ Len(f.rhs) = 1}
           values == {b \in {e.rhs[1] : e \in held} : IsConstStr(b)}
<1>1. EqcValue(a) = IF values = {} THEN a ELSE CHOOSE b \in values : TRUE
  BY DEF EqcValue
<1>2. ASSUME NEW b \in values
      PROVE  b \in Atoms(W) /\ StrOf(v, b) = StrOf(v, a) /\ IsConstStr(b)
  <2>1. PICK e \in equalities : e.lhs = a /\ Len(e.rhs) = 1 /\ b = e.rhs[1] /\ IsConstStr(b)
    OBVIOUS
  <2>2. PICK c \in Atoms(V) : e.rhs = <<c>>
    BY <2>1 DEF HeldTrue, Terms, Pairs
  <2>3. c = b
    BY <2>1, <2>2
  <2>4. StrOf(v, a) = StrOf(v, b)
    BY <2>1, <2>2, <2>3, TermStrings DEF HeldTrue, Holds
  <2> QED
    BY <2>1, <2>3, <2>4, Widening
<1> QED
  BY <1>1, <1>2

LEMMA MkConcatIs ==
  ASSUME NEW V, NEW W, Vars(V), Vars(W), V \subseteq W, NEW v \in Value, HeldTrue(v, V),
         NEW a \in Atoms(W), NEW b \in Atoms(W)
  PROVE  /\ MkConcat(a, b) \in Terms(W)
         /\ StrOfTerm(v, MkConcat(a, b)) = Cat(StrOf(v, a), StrOf(v, b))
<1> DEFINE l == EqcValue(a)
           r == EqcValue(b)
<1>1. /\ l \in Atoms(W) /\ r \in Atoms(W)
      /\ StrOf(v, l) = StrOf(v, a) /\ StrOf(v, r) = StrOf(v, b)
      /\ StrOf(v, l) \in Text /\ StrOf(v, r) \in Text
  BY EqcValueIs, StringOfAtom
<1> HIDE DEF l, r
<1>2. CASE IsConstStr(l) /\ IsConstStr(r)
  <2>1. l.str \in Text /\ r.str \in Text /\ StrOf(v, l) = l.str /\ StrOf(v, r) = r.str
    BY <1>1, <1>2, AtomFacts DEF StrOf
  <2>2. MkConcat(a, b) = <<Str(Cat(l.str, r.str))>> /\ Cat(l.str, r.str) \in Text
    BY <1>2, <2>1, Concatenating DEF MkConcat, l, r, Cat
  <2>3. Str(Cat(l.str, r.str)) \in Atoms(W)
    BY <2>2, AtomFacts
  <2> QED
    BY <1>1, <2>1, <2>2, <2>3, TermStrings, AtomFacts DEF Terms
<1>3. CASE l = Empty /\ ~ IsConstStr(r)
  <2>1. MkConcat(a, b) = <<r>> /\ StrOf(v, l) = <<>>
    BY <1>3, AtomFacts DEF MkConcat, l, r, Empty
  <2>2. Cat(<<>>, StrOf(v, r)) = StrOf(v, r)
    BY <1>1, EmptyText
  <2> QED
    BY <1>1, <2>1, <2>2, TermStrings DEF Terms
<1>4. CASE r = Empty /\ ~ IsConstStr(l)
  <2>1. MkConcat(a, b) = <<l>> /\ StrOf(v, r) = <<>>
    <3>1. l # Empty /\ IsConstStr(r)
      BY <1>4 DEF Empty, IsConstStr, Str
    <3> QED
      BY <1>4, <3>1, AtomFacts DEF MkConcat, l, r, Empty
  <2>2. Cat(StrOf(v, l), <<>>) = StrOf(v, l)
    BY <1>1, EmptyText
  <2> QED
    BY <1>1, <2>1, <2>2, TermStrings DEF Terms
<1>5. CASE ~ (IsConstStr(l) /\ IsConstStr(r)) /\ ~ (l = Empty /\ ~ IsConstStr(r))
           /\ ~ (r = Empty /\ ~ IsConstStr(l))
  <2>1. MkConcat(a, b) = <<l, r>>
    BY <1>5 DEF MkConcat, l, r
  <2> QED
    BY <1>1, <2>1, TermStrings DEF Terms, Pairs
<1> QED
  BY <1>2, <1>3, <1>4, <1>5

-----------------------------------------------------------------------------
(* Axioms: the equalities of an axiom are those of the options that v      *)
(* makes true, and there is such an option if v makes one true and all the *)
(* others false.                                                           *)
Fields == {"level", "xor", "pair", "choices", "eqs", "cuts", "remembered"}

AllTrue(v, o) == (\A e \in o.eqs : Holds(v, e)) /\ o.lens \subseteq {TRUE}
AllFalse(v, o) == (\A e \in o.eqs : ~ Holds(v, e)) /\ o.lens \subseteq {FALSE}

LEMMA AxiomIs ==
  ASSUME NEW v, NEW xor, NEW pair, NEW options, NEW cuts
  PROVE  /\ DOMAIN Axiom(v, xor, pair, options, cuts) = Fields
         /\ Axiom(v, xor, pair, options, cuts).level = sLevel
         /\ Axiom(v, xor, pair, options, cuts).xor = xor
         /\ Axiom(v, xor, pair, options, cuts).pair = pair
         /\ Axiom(v, xor, pair, options, cuts).cuts = cuts
         /\ Axiom(v, xor, pair, options, cuts).remembered \in BOOLEAN
         /\ Axiom(v, xor, pair, options, cuts).choices = XorValues(v, options)
         /\ \A e : e \in Axiom(v, xor, pair, options, cuts).eqs <=>
                    \E k \in XorValues(v, options) : e \in options[k].eqs
<1> DEFINE ch == XorValues(v, options)
           eqs == UNION {options[k].eqs : k \in ch}
<1> HIDE DEF ch, eqs
<1>1. Axiom(v, xor, pair, options, cuts) =
        [level |-> sLevel, xor |-> xor, pair |-> pair, choices |-> ch, eqs |-> eqs,
         cuts |-> cuts, remembered |-> TRUE]
  BY DEF Axiom, ch, eqs
<1>2. \A e : e \in eqs <=> \E k \in ch : e \in options[k].eqs
  BY DEF eqs
<1> QED
  BY <1>1, <1>2 DEF Fields, ch

LEMMA ForgottenIs ==
  ASSUME NEW a, DOMAIN a = Fields
  PROVE  /\ DOMAIN Forgotten(a) = Fields
         /\ Forgotten(a).level = a.level /\ Forgotten(a).xor = a.xor
         /\ Forgotten(a).pair = a.pair /\ Forgotten(a).cuts = a.cuts
         /\ Forgotten(a).choices = a.choices /\ Forgotten(a).eqs = a.eqs
         /\ Forgotten(a).remembered \in BOOLEAN
  BY DEF Forgotten, Fields

LEMMA TrueOfChosen ==
  ASSUME NEW v, NEW options, NEW k \in XorValues(v, options), NEW e \in options[k].eqs
  PROVE  Holds(v, e)
<1>1. Truths(v, options[k]) \subseteq {k = k}
  BY DEF XorValues
<1>2. (StrOf(v, e.lhs) = StrOfTerm(v, e.rhs)) \in Truths(v, options[k])
  BY DEF Truths
<1>3. (StrOf(v, e.lhs) = StrOfTerm(v, e.rhs)) \in {TRUE}
  BY <1>1, <1>2
<1> QED
  BY <1>3 DEF Holds

LEMMA EqsOfAxiom ==
  ASSUME NEW V, NEW v, NEW xor, NEW pair, NEW options, NEW cuts,
         \A k \in DOMAIN options : \A e \in options[k].eqs : Holds(v, e) => e \in Equalities(V)
  PROVE  \A e \in Axiom(v, xor, pair, options, cuts).eqs : e \in Equalities(V) /\ Holds(v, e)
<1> TAKE e \in Axiom(v, xor, pair, options, cuts).eqs
<1>1. PICK k \in XorValues(v, options) : e \in options[k].eqs
  BY AxiomIs
<1>2. Holds(v, e) /\ k \in DOMAIN options
  BY <1>1, TrueOfChosen DEF XorValues
<1> QED
  BY <1>1, <1>2

LEMMA Chosen ==
  ASSUME NEW v, NEW options, NEW k \in DOMAIN options, AllTrue(v, options[k]),
         \A j \in DOMAIN options \ {k} : AllFalse(v, options[j])
  PROVE  k \in XorValues(v, options)
<1> SUFFICES ASSUME NEW j \in DOMAIN options, NEW b \in Truths(v, options[j])
             PROVE  b = (j = k)
  BY DEF XorValues
<1>1. CASE j = k
  <2>1. b = TRUE
    BY <1>1 DEF Truths, AllTrue, Holds
  <2> QED
    BY <1>1, <2>1
<1>2. CASE j # k
  <2>1. b = FALSE
    <3>1. AllFalse(v, options[j])
      BY <1>2
    <3>2. CASE b \in options[j].lens
      BY <3>1, <3>2 DEF AllFalse
    <3>3. CASE \E e \in options[j].eqs : b = (StrOf(v, e.lhs) = StrOfTerm(v, e.rhs))
      BY <3>1, <3>3 DEF AllFalse, Holds
    <3> QED
      BY <3>2, <3>3 DEF Truths
  <2> QED
    BY <1>2, <2>1
<1> QED
  BY <1>1, <1>2

(* An axiom with a single option.                                          *)
LEMMA OneOption ==
  ASSUME NEW V, NEW v, NEW xor, NEW pair, NEW eqs, NEW cuts,
         \A e \in eqs : e \in Equalities(V) /\ Holds(v, e)
  PROVE  LET a == Axiom(v, xor, pair, <<Option(eqs, {})>>, cuts)
         IN a.choices = {1} /\ \A e \in a.eqs : e \in Equalities(V) /\ Holds(v, e)
<1> DEFINE options == <<Option(eqs, {})>>
<1>1. DOMAIN options = {1} /\ options[1] = Option(eqs, {})
  OBVIOUS
<1>2. options[1].eqs = eqs /\ options[1].lens = {}
  BY DEF Option
<1>3. 1 \in XorValues(v, options)
  BY <1>1, <1>2, Chosen DEF AllTrue
<1>4. XorValues(v, options) = {1}
  BY <1>1, <1>3 DEF XorValues
<1> DEFINE a == Axiom(v, xor, pair, options, cuts)
<1>5. a.choices = {1}
  BY <1>4, AxiomIs
<1>6. \A e \in a.eqs : e \in Equalities(V) /\ Holds(v, e)
  <2>1. \A k \in DOMAIN options : \A e \in options[k].eqs : Holds(v, e) => e \in Equalities(V)
    BY <1>1, <1>2
  <2> QED
    BY <2>1, EqsOfAxiom
<1> QED
  BY <1>5, <1>6

-----------------------------------------------------------------------------
(* Two equal concatenations, and the solution extended to the variables    *)
(* made for them.                                                          *)

(* Two concatenations over V that are equal, as are the terms held equal.  *)
Splits(c1, c2, V) ==
  /\ Vars(V) /\ val \in Value /\ HeldTrue(val, V)
  /\ c1 \in Pairs(V) /\ c2 \in Pairs(V)
  /\ StrOfTerm(val, c1) = StrOfTerm(val, c2)

(* The variables made for them are not in V.                               *)
MadeNew(made, V) == made.t1 \in Node \ V /\ (made.t2 = 0 \/ made.t2 \in Node \ V)
                    /\ made.t1 # made.t2

WithMade(V, made) == V \cup {made.t1, made.t2}

(* What a split must do: its axioms are of this level and of this pair,    *)
(* and state of variables of W what is true in the solution, which is      *)
(* changed only where an axiom asks for it; one outcome is left, unless a  *)
(* cut was refused.                                                        *)
GoodAxiom(a, c1, c2, v, W) ==
  /\ DOMAIN a = Fields /\ a.level = sLevel /\ a.remembered \in BOOLEAN
  /\ a.pair \in {<<c1, c2>>, <<c2, c1>>} /\ a.xor \in {{}, KeyOf(c1, c2)}
  /\ \A e \in a.eqs : e \in Equalities(W) /\ Holds(v, e)
  /\ \A c \in a.cuts : c.from \subseteq Node

GoodOutcome(o, c1, c2, V, W) ==
  /\ o.val \in Value /\ \A n \in V \ {0} : o.val[n] = val[n]
  /\ o.axioms = {} => o.val = val
  /\ \A a, b \in o.axioms : a = b
  /\ \A a \in o.axioms : GoodAxiom(a, c1, c2, o.val, W)
  /\ o.refused \/ \A a \in o.axioms : a.choices # {}

GoodValue(v, V) == v \in Value /\ \A n \in V \ {0} : v[n] = val[n]

LEMMA OutcomeIs ==
  ASSUME NEW axioms, NEW cuts, NEW refused, NEW v
  PROVE  /\ Outcome(axioms, cuts, refused, v).axioms = axioms
         /\ Outcome(axioms, cuts, refused, v).cuts = cuts
         /\ Outcome(axioms, cuts, refused, v).val = v
         /\ Outcome(axioms, cuts, refused, v).refused = refused
  BY DEF Outcome

LEMMA NothingGood ==
  ASSUME NEW c1, NEW c2, NEW V, NEW W, val \in Value, NEW cuts, NEW refused
  PROVE  GoodOutcome(Outcome({}, cuts, refused, val), c1, c2, V, W)
  BY OutcomeIs DEF GoodOutcome

(* The key of a pair is that of its terms in either order.                 *)
LEMMA SingleGood ==
  ASSUME NEW c1, NEW c2, NEW V, NEW W, NEW pair \in {<<c1, c2>>, <<c2, c1>>},
         NEW v, GoodValue(v, V), NEW eqs, \A e \in eqs : e \in Equalities(W) /\ Holds(v, e),
         NEW cuts, \A c \in cuts : c.from \subseteq Node, NEW recorded, NEW refused
  PROVE  GoodOutcome(Outcome({Axiom(v, {}, pair, <<Option(eqs, {})>>, cuts)}, recorded, refused, v),
                     c1, c2, V, W)
<1> DEFINE a == Axiom(v, {}, pair, <<Option(eqs, {})>>, cuts)
           o == Outcome({a}, recorded, refused, v)
<1>1. /\ DOMAIN a = Fields /\ a.level = sLevel /\ a.remembered \in BOOLEAN
      /\ a.pair = pair /\ a.xor = {} /\ a.cuts = cuts
  BY AxiomIs
<1>2. a.choices = {1} /\ \A e \in a.eqs : e \in Equalities(W) /\ Holds(v, e)
  BY OneOption
<1> HIDE DEF a
<1>3. GoodAxiom(a, c1, c2, v, W)
  BY <1>1, <1>2 DEF GoodAxiom
<1>4. o.axioms = {a} /\ o.val = v
  BY OutcomeIs
<1> QED
  BY <1>2, <1>3, <1>4 DEF GoodOutcome, GoodValue, a

LEMMA OneCutGood ==
  ASSUME NEW c1, NEW c2, NEW V, NEW W, NEW pair \in {<<c1, c2>>, <<c2, c1>>}, val \in Value,
         NEW v, GoodValue(v, V), NEW eqs, \A e \in eqs : e \in Equalities(W) /\ Holds(v, e),
         NEW cuts, \A c \in cuts : c.from \subseteq Node
  PROVE  GoodOutcome(OneCut(pair, eqs, cuts, v), c1, c2, V, W)
<1>1. GoodOutcome(Outcome({}, {}, TRUE, val), c1, c2, V, W)
  BY NothingGood
<1>2. GoodOutcome(Outcome({Axiom(v, {}, pair, <<Option(eqs, {})>>, cuts)}, cuts, FALSE, v),
                  c1, c2, V, W)
  BY SingleGood
<1> QED
  BY <1>1, <1>2 DEF OneCut

LEMMA ExactlyGood ==
  ASSUME NEW c1, NEW c2, NEW V, NEW W, NEW pair \in {<<c1, c2>>, <<c2, c1>>},
         NEW v, GoodValue(v, V), NEW eqs, \A e \in eqs : e \in Equalities(W) /\ Holds(v, e)
  PROVE  GoodOutcome(Exactly(pair, eqs, v), c1, c2, V, W)
<1>1. \A c \in {} : c.from \subseteq Node
  OBVIOUS
<1>2. GoodOutcome(Outcome({Axiom(v, {}, pair, <<Option(eqs, {})>>, {})}, {}, FALSE, v),
                  c1, c2, V, W)
  BY <1>1, SingleGood
<1> QED
  BY <1>2 DEF Exactly, Single

LEMMA AnyOfGood ==
  ASSUME NEW c1, NEW c2, NEW V, NEW W, NEW pair \in {<<c1, c2>>, <<c2, c1>>},
         NEW v, GoodValue(v, V), NEW options,
         \A k \in DOMAIN options : \A e \in options[k].eqs : Holds(v, e) => e \in Equalities(W),
         NEW cuts, \A c \in cuts : c.from \subseteq Node,
         NEW refused, refused \/ XorValues(v, options) # {},
         NEW recorded, NEW a, NEW b,
         b = Axiom(v, KeyOf(pair[1], pair[2]), pair, options, cuts), a \in {b, Forgotten(b)}
  PROVE  GoodOutcome(Outcome({a}, recorded, refused, v), c1, c2, V, W)
<1>1. /\ DOMAIN b = Fields /\ b.level = sLevel /\ b.remembered \in BOOLEAN
      /\ b.pair = pair /\ b.xor = KeyOf(pair[1], pair[2]) /\ b.cuts = cuts
      /\ b.choices = XorValues(v, options)
  BY AxiomIs
<1>2. \A e \in b.eqs : e \in Equalities(W) /\ Holds(v, e)
  BY EqsOfAxiom
<1>3. KeyOf(pair[1], pair[2]) = KeyOf(c1, c2)
  <2>1. CASE pair = <<c1, c2>>
    BY <2>1
  <2>2. CASE pair = <<c2, c1>>
    BY <2>2 DEF KeyOf
  <2> QED
    BY <2>1, <2>2
<1>4. GoodAxiom(b, c1, c2, v, W)
  BY <1>1, <1>2, <1>3 DEF GoodAxiom
<1>5. GoodAxiom(a, c1, c2, v, W) /\ a.choices = b.choices
  BY <1>1, <1>4, ForgottenIs DEF GoodAxiom
<1>6. /\ Outcome({a}, recorded, refused, v).axioms = {a}
      /\ Outcome({a}, recorded, refused, v).val = v
      /\ Outcome({a}, recorded, refused, v).refused = refused
  BY OutcomeIs
<1> QED
  BY <1>1, <1>5, <1>6 DEF GoodOutcome, GoodValue

-----------------------------------------------------------------------------
(* A made variable is given its piece, which is never empty.               *)
LEMMA PieceIs ==
  ASSUME NEW long \in Text, NEW short \in Text
  PROVE  /\ Piece(long, short) \in Text /\ Len(Piece(long, short)) \in Nat \ {0}
         /\ Len(long) > Len(short) => /\ Piece(long, short) = Suffix(long, Len(short))
                                      /\ Len(Piece(long, short)) = Len(long) - Len(short)
<1>1. Len(long) \in Nat /\ Len(short) \in Nat
  BY LenProperties DEF Text
<1>2. CASE Len(long) > Len(short)
  <2>1. Len(short) \in 0 .. Len(long)
    BY <1>1, <1>2
  <2>2. /\ Suffix(long, Len(short)) \in Text
        /\ Len(Suffix(long, Len(short))) = Len(long) - Len(short)
    BY <2>1, Cutting
  <2> QED
    BY <1>1, <1>2, <2>2 DEF Piece
<1>3. CASE ~ Len(long) > Len(short)
  <2> DEFINE c == CHOOSE c \in Char : TRUE
  <2>1. c \in Char
    BY InputsAssumption
  <2> HIDE DEF c
  <2>2. <<c>> \in Text /\ Len(<<c>>) = 1
    BY <2>1 DEF Text
  <2>3. Piece(long, short) = <<c>>
    BY <1>3 DEF Piece, c
  <2> QED
    BY <1>3, <2>2, <2>3
<1> QED
  BY <1>2, <1>3

LEMMA GivingIs ==
  ASSUME NEW V, Vars(V), NEW v, GoodValue(v, V), NEW t \in Node \ V, NEW piece \in Text
  PROVE  /\ GoodValue(Giving(v, t, piece), V)
         /\ Giving(v, t, piece)[t] = piece
         /\ \A n \in Node \ {t} : Giving(v, t, piece)[n] = v[n]
<1>1. t # 0 /\ V \ {0} \subseteq Node
  BY MaxNodeAssumption DEF Vars, Node
<1>2. Giving(v, t, piece) = [v EXCEPT ![t] = piece]
  BY <1>1 DEF Giving
<1> QED
  BY <1>1, <1>2 DEF GoodValue, Value

(* What begins or ends a string is found to.                               *)
LEMMA PrefixFound ==
  ASSUME NEW s \in Text, NEW p \in Text, NEW t, t = Cat(s, p)
  PROVE  IsPrefix(s, t)
<1>1. Len(s) \in Nat /\ Len(p) \in Nat /\ Len(t) = Len(s) + Len(p)
  BY Concatenating
<1>2. Prefix(t, Len(s)) = s
  BY Parts
<1>3. SubSeq(s, 1, Len(s)) = s
  BY SubSeqFull DEF Text
<1> QED
  BY <1>1, <1>2, <1>3 DEF IsPrefix, Prefix

LEMMA SuffixFound ==
  ASSUME NEW s \in Text, NEW p \in Text, NEW t, t = Cat(p, s)
  PROVE  IsSuffix(s, t)
<1>1. /\ Len(s) \in Nat /\ Len(p) \in Nat /\ t \in Text /\ Len(t) = Len(p) + Len(s)
      /\ \A i \in 1 .. Len(p) + Len(s) : t[i] = IF i <= Len(p) THEN p[i] ELSE s[i - Len(p)]
      /\ \A i \in 1 .. Len(s) : s[i] \in Char
  BY LenProperties, ElementOfSeq, ConcatProperties DEF Text, Cat
<1>2. /\ Reverse(s) = [i \in 1 .. Len(s) |-> s[(Len(s) - i) + 1]]
      /\ Reverse(t) = [i \in 1 .. Len(t) |-> t[(Len(t) - i) + 1]]
  BY DEF Reverse
<1>3. \A i \in 1 .. Len(s) : Reverse(s)[i] = Reverse(t)[i] /\ Reverse(s)[i] \in Char
  <2> TAKE i \in 1 .. Len(s)
  <2> DEFINE j == (Len(t) - i) + 1
             k == (Len(s) - i) + 1
  <2>1. j \in 1 .. Len(p) + Len(s) /\ ~ (j <= Len(p)) /\ j - Len(p) = k /\ k \in 1 .. Len(s)
    BY <1>1
  <2>2. t[j] = s[k] /\ s[k] \in Char
    BY <1>1, <2>1
  <2>3. i \in 1 .. Len(t)
    BY <1>1
  <2> QED
    BY <1>2, <2>2, <2>3
<1>4. Len(Reverse(s)) = Len(s) /\ Len(Reverse(t)) = Len(t)
  BY <1>1, <1>2
<1>5. SubSeq(Reverse(s), 1, Len(s)) = SubSeq(Reverse(t), 1, Len(s))
  <2> DEFINE S == SubSeq(Reverse(s), 1, Len(s))
             T == SubSeq(Reverse(t), 1, Len(s))
  <2>1. \A i \in 1 .. Len(s) : Reverse(s)[i] \in Char /\ Reverse(t)[i] \in Char
    BY <1>3
  <2>2. /\ S \in Seq(Char) /\ Len(S) = (IF 1 <= Len(s) THEN Len(s) - 1 + 1 ELSE 0)
        /\ \A i \in 1 .. Len(s) - 1 + 1 : S[i] = Reverse(s)[1 + i - 1]
    BY <1>1, <2>1, SubSeqProperties
  <2>3. /\ T \in Seq(Char) /\ Len(T) = (IF 1 <= Len(s) THEN Len(s) - 1 + 1 ELSE 0)
        /\ \A i \in 1 .. Len(s) - 1 + 1 : T[i] = Reverse(t)[1 + i - 1]
    BY <1>1, <2>1, SubSeqProperties
  <2>4. Len(S) = Len(s) /\ Len(T) = Len(s)
    BY <1>1, <2>2, <2>3
  <2>5. \A i \in 1 .. Len(s) : S[i] = T[i]
    <3> TAKE i \in 1 .. Len(s)
    <3>1. i \in 1 .. Len(s) - 1 + 1 /\ 1 + i - 1 = i
      BY <1>1
    <3> QED
      BY <1>3, <2>2, <2>3, <3>1
  <2> HIDE DEF S, T
  <2>6. S = T
    BY <2>2, <2>3, <2>4, <2>5, SeqEqual
  <2> QED
    BY <2>6 DEF S, T
<1> QED
  BY <1>1, <1>4, <1>5 DEF IsSuffix, IsPrefix

LEMMA PrefixShorter == \A s, t : IsPrefix(s, t) => Len(s) <= Len(t)
  BY DEF IsPrefix

LEMMA SuffixShorter ==
  ASSUME NEW s \in Text, NEW t \in Text, IsSuffix(s, t)
  PROVE  Len(s) <= Len(t)
<1>1. Len(s) \in Nat /\ Len(t) \in Nat
  BY LenProperties DEF Text
<1>2. /\ Reverse(s) = [i \in 1 .. Len(s) |-> s[(Len(s) - i) + 1]]
      /\ Reverse(t) = [i \in 1 .. Len(t) |-> t[(Len(t) - i) + 1]]
  BY DEF Reverse
<1>3. Len(Reverse(s)) = Len(s) /\ Len(Reverse(t)) = Len(t)
  BY <1>1, <1>2
<1> QED
  BY <1>3 DEF IsSuffix, IsPrefix

(* Equal strings that begin alike, and that end alike.                     *)
LEMMA EqualBegins ==
  ASSUME NEW s \in Text, NEW t \in Text, NEW u \in Text, NEW w \in Text, Cat(s, t) = Cat(u, w)
  PROVE  /\ Len(s) <= Len(u) => IsPrefix(s, u)
         /\ Len(w) <= Len(t) => IsSuffix(w, t)
         /\ Len(s) <= Len(u) <=> Len(w) <= Len(t)
<1>1. /\ Len(s) \in Nat /\ Len(t) \in Nat /\ Len(u) \in Nat /\ Len(w) \in Nat
      /\ Len(s) + Len(t) = Len(u) + Len(w)
  BY Concatenating, SameCut
<1>2. Len(s) <= Len(u) <=> Len(w) <= Len(t)
  BY <1>1
<1>3. ASSUME Len(s) <= Len(u) PROVE IsPrefix(s, u) /\ IsSuffix(w, t)
  <2>1. PICK p \in Text : u = Cat(s, p) /\ t = Cat(p, w)
    BY <1>3, Overhang
  <2> QED
    BY <2>1, PrefixFound, SuffixFound
<1> QED
  BY <1>2, <1>3

-----------------------------------------------------------------------------
(* An equality of an atom and an atom, and of an atom and a concatenation. *)
LEMMA EqAtom ==
  ASSUME NEW W, NEW v, NEW a \in Atoms(W), NEW b \in Atoms(W)
  PROVE  /\ Eq(a, <<b>>) \in Equalities(W)
         /\ Holds(v, Eq(a, <<b>>)) <=> StrOf(v, a) = StrOf(v, b)
<1>1. <<b>> \in Terms(W)
  BY DEF Terms
<1> QED
  BY <1>1, TermStrings DEF Eq, Equalities, Holds

LEMMA EqConcat ==
  ASSUME NEW V, NEW W, Vars(V), Vars(W), V \subseteq W, NEW v \in Value, HeldTrue(v, V),
         NEW a \in Atoms(W), NEW b \in Atoms(W), NEW c \in Atoms(W)
  PROVE  /\ Eq(a, MkConcat(b, c)) \in Equalities(W)
         /\ Holds(v, Eq(a, MkConcat(b, c))) <=> StrOf(v, a) = Cat(StrOf(v, b), StrOf(v, c))
<1>1. /\ MkConcat(b, c) \in Terms(W)
      /\ StrOfTerm(v, MkConcat(b, c)) = Cat(StrOf(v, b), StrOf(v, c))
  BY MkConcatIs
<1> HIDE DEF MkConcat
<1> QED
  BY <1>1 DEF Eq, Equalities, Holds

LEMMA PairIs ==
  ASSUME NEW V, NEW c \in Pairs(V)
  PROVE  c = <<c[1], c[2]>> /\ c[1] \in Atoms(V) /\ c[2] \in Atoms(V) /\ c \in Terms(V)
BY DEF Pairs, Terms

(* The two sides of a split, in a solution that may be extended.           *)
LEMMA Sides ==
  ASSUME NEW V, NEW c1, NEW c2, Splits(c1, c2, V), NEW v, GoodValue(v, V)
  PROVE  /\ Vars(V) /\ v \in Value /\ HeldTrue(v, V)
         /\ c1[1] \in Atoms(V) /\ c1[2] \in Atoms(V) /\ c2[1] \in Atoms(V) /\ c2[2] \in Atoms(V)
         /\ \A a \in Atoms(V) : StrOf(v, a) = StrOf(val, a) /\ StrOf(v, a) \in Text
         /\ Cat(StrOf(v, c1[1]), StrOf(v, c1[2])) = Cat(StrOf(v, c2[1]), StrOf(v, c2[2]))
<1>1. /\ Vars(V) /\ v \in Value /\ HeldTrue(val, V) /\ \A n \in V \ {0} : v[n] = val[n]
      /\ c1 \in Pairs(V) /\ c2 \in Pairs(V) /\ StrOfTerm(val, c1) = StrOfTerm(val, c2)
  BY DEF Splits, GoodValue
<1>2. /\ \A a \in Atoms(V) : StrOf(v, a) = StrOf(val, a)
      /\ \A t \in Terms(V) : StrOfTerm(v, t) = StrOfTerm(val, t)
  BY <1>1, Agreeing
<1>3. HeldTrue(v, V)
  BY <1>1, <1>2 DEF HeldTrue, Holds
<1>4. \A a \in Atoms(V) : StrOf(v, a) \in Text
  BY <1>1, StringOfAtom
<1>5. /\ c1 = <<c1[1], c1[2]>> /\ c1[1] \in Atoms(V) /\ c1[2] \in Atoms(V)
      /\ c2 = <<c2[1], c2[2]>> /\ c2[1] \in Atoms(V) /\ c2[2] \in Atoms(V)
  BY <1>1, PairIs
<1>6. /\ StrOfTerm(val, c1) = Cat(StrOf(val, c1[1]), StrOf(val, c1[2]))
      /\ StrOfTerm(val, c2) = Cat(StrOf(val, c2[1]), StrOf(val, c2[2]))
  BY <1>5, TermStrings
<1> QED
  BY <1>1, <1>2, <1>3, <1>4, <1>5, <1>6

LEMMA ConstString ==
  ASSUME NEW V, Vars(V), NEW a \in Atoms(V), IsConstStr(a)
  PROVE  a.str \in Text /\ \A v : StrOf(v, a) = a.str
<1>1. a.str \in Text
  BY AtomFacts
<1> QED
  BY <1>1 DEF StrOf

LEMMA DeriveGood ==
  ASSUME NEW c1, NEW c2, NEW V, val \in Value, NEW eq \in Equalities(V), Holds(val, eq)
  PROVE  GoodOutcome(Derive(<<c1, c2>>, eq), c1, c2, V, V)
<1>1. GoodOutcome(Nothing, c1, c2, V, V)
  BY NothingGood DEF Nothing
<1>2. GoodValue(val, V) /\ \A c \in {} : c.from \subseteq Node
  BY DEF GoodValue
<1>3. GoodOutcome(Outcome({Axiom(val, {}, <<c1, c2>>, <<Option({eq}, {})>>, {})}, {}, FALSE, val),
                  c1, c2, V, V)
  <2>1. \A e \in {eq} : e \in Equalities(V) /\ Holds(val, e)
    OBVIOUS
  <2> QED
    BY <1>2, <2>1, SingleGood
<1> QED
  BY <1>1, <1>3 DEF Derive, Single

(* Type 4, "str1" . y = "str2" . n: one constant begins the other.         *)
LEMMA Type4Good ==
  ASSUME NEW V, NEW c1, NEW c2, Splits(c1, c2, V), IsConstStr(c1[1]), IsConstStr(c2[1])
  PROVE  GoodOutcome(ProcessConcatEqType4(c1, c2), c1, c2, V, V)
<1> DEFINE str1 == c1[1].str
           y == c1[2]
           str2 == c2[1].str
           n == c2[2]
           rest1 == Str(Suffix(str1, Len(str2)))
           rest2 == Str(Suffix(str2, Len(str1)))
           Y == StrOf(val, y)
           N == StrOf(val, n)
<1>1. GoodValue(val, V)
  BY DEF GoodValue, Splits
<1>2. /\ Vars(V) /\ val \in Value /\ HeldTrue(val, V)
      /\ c1[1] \in Atoms(V) /\ y \in Atoms(V) /\ c2[1] \in Atoms(V) /\ n \in Atoms(V)
      /\ \A a \in Atoms(V) : StrOf(val, a) \in Text
      /\ Cat(StrOf(val, c1[1]), Y) = Cat(StrOf(val, c2[1]), N)
  BY <1>1, Sides
<1>3. str1 \in Text /\ str2 \in Text /\ Y \in Text /\ N \in Text /\ Cat(str1, Y) = Cat(str2, N)
  BY <1>2, ConstString
<1>4. Len(str1) \in Nat /\ Len(str2) \in Nat
  BY <1>3, LenProperties DEF Text
<1> HIDE DEF str1, str2, Y, N
<1>5. IsPrefix(str1, str2) \/ IsPrefix(str2, str1)
  <2>1. CASE Len(str1) <= Len(str2)
    BY <1>3, <2>1, EqualBegins
  <2>2. CASE Len(str2) <= Len(str1)
    BY <1>3, <2>2, EqualBegins
  <2> QED
    BY <1>4, <2>1, <2>2
<1>6. ASSUME Len(str2) <= Len(str1)
      PROVE  GoodOutcome(Derive(<<c1, c2>>, Eq(n, MkConcat(rest1, y))), c1, c2, V, V)
  <2>1. Suffix(str1, Len(str2)) \in Text /\ N = Cat(Suffix(str1, Len(str2)), Y)
    BY <1>3, <1>6, Overhang
  <2>2. rest1 \in Atoms(V) /\ StrOf(val, rest1) = Suffix(str1, Len(str2))
    BY <1>2, <2>1, AtomFacts
  <2> HIDE DEF rest1
  <2>3. Eq(n, MkConcat(rest1, y)) \in Equalities(V) /\ Holds(val, Eq(n, MkConcat(rest1, y)))
    BY <1>2, <2>1, <2>2, EqConcat DEF N, Y
  <2> QED
    BY <1>2, <2>3, DeriveGood
<1>7. ASSUME Len(str1) <= Len(str2)
      PROVE  GoodOutcome(Derive(<<c1, c2>>, Eq(y, MkConcat(rest2, n))), c1, c2, V, V)
  <2>1. Suffix(str2, Len(str1)) \in Text /\ Y = Cat(Suffix(str2, Len(str1)), N)
    BY <1>3, <1>7, Overhang
  <2>2. rest2 \in Atoms(V) /\ StrOf(val, rest2) = Suffix(str2, Len(str1))
    BY <1>2, <2>1, AtomFacts
  <2> HIDE DEF rest2
  <2>3. Eq(y, MkConcat(rest2, n)) \in Equalities(V) /\ Holds(val, Eq(y, MkConcat(rest2, n)))
    BY <1>2, <2>1, <2>2, EqConcat DEF N, Y
  <2> QED
    BY <1>2, <2>3, DeriveGood
<1>8. ProcessConcatEqType4(c1, c2) =
        CASE ~ (IsPrefix(str1, str2) \/ IsPrefix(str2, str1)) ->
               Outcome({Negation(val)}, {}, FALSE, val)
          [] IsPrefix(str2, str1) -> Derive(<<c1, c2>>, Eq(n, MkConcat(rest1, y)))
          [] OTHER -> Derive(<<c1, c2>>, Eq(y, MkConcat(rest2, n)))
  BY DEF ProcessConcatEqType4, str1, str2
<1>9. CASE IsPrefix(str2, str1)
  <2>1. ProcessConcatEqType4(c1, c2) = Derive(<<c1, c2>>, Eq(n, MkConcat(rest1, y)))
    BY <1>8, <1>9
  <2> QED
    BY <1>6, <1>9, <2>1, PrefixShorter
<1>10. CASE ~ IsPrefix(str2, str1)
  <2>1. ProcessConcatEqType4(c1, c2) = Derive(<<c1, c2>>, Eq(y, MkConcat(rest2, n)))
    BY <1>5, <1>8, <1>10
  <2> QED
    BY <1>5, <1>7, <1>10, <2>1, PrefixShorter
<1> QED
  BY <1>9, <1>10

(* Type 5, x . "str1" = m . "str2": one constant ends the other.           *)
LEMMA Type5Good ==
  ASSUME NEW V, NEW c1, NEW c2, Splits(c1, c2, V), IsConstStr(c1[2]), IsConstStr(c2[2])
  PROVE  GoodOutcome(ProcessConcatEqType5(c1, c2), c1, c2, V, V)
<1> DEFINE x == c1[1]
           str1 == c1[2].str
           m == c2[1]
           str2 == c2[2].str
           rest1 == Str(Prefix(str1, Len(str1) - Len(str2)))
           rest2 == Str(Prefix(str2, Len(str2) - Len(str1)))
           X == StrOf(val, x)
           M == StrOf(val, m)
<1>1. GoodValue(val, V)
  BY DEF GoodValue, Splits
<1>2. /\ Vars(V) /\ val \in Value /\ HeldTrue(val, V)
      /\ c1[2] \in Atoms(V) /\ x \in Atoms(V) /\ c2[2] \in Atoms(V) /\ m \in Atoms(V)
      /\ \A a \in Atoms(V) : StrOf(val, a) \in Text
      /\ Cat(X, StrOf(val, c1[2])) = Cat(M, StrOf(val, c2[2]))
  BY <1>1, Sides
<1>3. str1 \in Text /\ str2 \in Text /\ X \in Text /\ M \in Text /\ Cat(X, str1) = Cat(M, str2)
  BY <1>2, ConstString
<1> HIDE DEF str1, str2, X, M
<1>4. /\ Len(str1) \in Nat /\ Len(str2) \in Nat /\ Len(X) \in Nat /\ Len(M) \in Nat
      /\ Len(X) + Len(str1) = Len(M) + Len(str2)
  BY <1>3, SameCut, Concatenating
<1>5. IsSuffix(str1, str2) \/ IsSuffix(str2, str1)
  <2>1. CASE Len(str1) <= Len(str2)
    BY <1>3, <2>1, EqualBegins
  <2>2. CASE Len(str2) <= Len(str1)
    BY <1>3, <2>2, EqualBegins
  <2> QED
    BY <1>4, <2>1, <2>2
<1>6. ASSUME Len(str2) <= Len(str1)
      PROVE  GoodOutcome(Derive(<<c1, c2>>, Eq(m, MkConcat(x, rest1))), c1, c2, V, V)
  <2> DEFINE p == Suffix(M, Len(X))
  <2>1. p \in Text /\ Len(p) = Len(M) - Len(X) /\ M = Cat(X, p) /\ str1 = Cat(p, str2)
    BY <1>3, <1>4, <1>6, Overhang
  <2> HIDE DEF p
  <2>2. Prefix(str1, Len(p)) = p
    BY <1>3, <2>1, Parts
  <2>3. rest1 \in Atoms(V) /\ StrOf(val, rest1) = p
    <3>1. Len(p) = Len(str1) - Len(str2)
      BY <1>4, <2>1
    <3> QED
      BY <1>2, <2>1, <2>2, <3>1, AtomFacts
  <2> HIDE DEF rest1
  <2>4. Eq(m, MkConcat(x, rest1)) \in Equalities(V) /\ Holds(val, Eq(m, MkConcat(x, rest1)))
    BY <1>2, <2>1, <2>3, EqConcat DEF M, X
  <2> QED
    BY <1>2, <2>4, DeriveGood
<1>7. ASSUME Len(str1) <= Len(str2)
      PROVE  GoodOutcome(Derive(<<c1, c2>>, Eq(x, MkConcat(m, rest2))), c1, c2, V, V)
  <2> DEFINE p == Suffix(X, Len(M))
  <2>1. p \in Text /\ Len(p) = Len(X) - Len(M) /\ X = Cat(M, p) /\ str2 = Cat(p, str1)
    BY <1>3, <1>4, <1>7, Overhang
  <2> HIDE DEF p
  <2>2. Prefix(str2, Len(p)) = p
    BY <1>3, <2>1, Parts
  <2>3. rest2 \in Atoms(V) /\ StrOf(val, rest2) = p
    <3>1. Len(p) = Len(str2) - Len(str1)
      BY <1>4, <2>1
    <3> QED
      BY <1>2, <2>1, <2>2, <3>1, AtomFacts
  <2> HIDE DEF rest2
  <2>4. Eq(x, MkConcat(m, rest2)) \in Equalities(V) /\ Holds(val, Eq(x, MkConcat(m, rest2)))
    BY <1>2, <2>1, <2>3, EqConcat DEF M, X
  <2> QED
    BY <1>2, <2>4, DeriveGood
<1>8. ProcessConcatEqType5(c1, c2) =
        CASE ~ (IsSuffix(str1, str2) \/ IsSuffix(str2, str1)) ->
               Outcome({Negation(val)}, {}, FALSE, val)
          [] IsSuffix(str2, str1) -> Derive(<<c1, c2>>, Eq(m, MkConcat(x, rest1)))
          [] OTHER -> Derive(<<c1, c2>>, Eq(x, MkConcat(m, rest2)))
  BY DEF ProcessConcatEqType5, str1, str2
<1>9. CASE IsSuffix(str2, str1)
  <2>1. ProcessConcatEqType5(c1, c2) = Derive(<<c1, c2>>, Eq(m, MkConcat(x, rest1)))
    BY <1>8, <1>9
  <2> QED
    BY <1>3, <1>6, <1>9, <2>1, SuffixShorter
<1>10. CASE ~ IsSuffix(str2, str1)
  <2>1. ProcessConcatEqType5(c1, c2) = Derive(<<c1, c2>>, Eq(x, MkConcat(m, rest2)))
    BY <1>5, <1>8, <1>10
  <2> QED
    BY <1>3, <1>5, <1>7, <1>10, <2>1, SuffixShorter
<1> QED
  BY <1>9, <1>10

-----------------------------------------------------------------------------
(* How two sides line up, and what the six types of split make of it: each *)
(* has an outcome that the solution satisfies.                             *)

(* The ways to line up two sides, x . y and m . n in the solution: each is *)
(* true in its case, and false in every equality in the other cases.       *)
EqsTrue(v, eqs) == \A e \in eqs : Holds(v, e)
EqsFalse(v, eqs) == \A e \in eqs : ~ Holds(v, e)

Aligned(v, x, y, m, n) == Cat(StrOf(v, x), StrOf(v, y)) = Cat(StrOf(v, m), StrOf(v, n))

(* Both sides are cut at one place.                                        *)
LEMMA SameWay ==
  ASSUME NEW V, Vars(V), NEW v \in Value, NEW x \in Atoms(V), NEW y \in Atoms(V),
         NEW m \in Atoms(V), NEW n \in Atoms(V), Aligned(v, x, y, m, n)
  PROVE  /\ {Eq(x, <<m>>), Eq(y, <<n>>)} \subseteq Equalities(V)
         /\ LenOf(v, x) = LenOf(v, m) => EqsTrue(v, {Eq(x, <<m>>), Eq(y, <<n>>)})
         /\ LenOf(v, x) # LenOf(v, m) => EqsFalse(v, {Eq(x, <<m>>), Eq(y, <<n>>)})
         /\ LenOf(v, x) + LenOf(v, y) = LenOf(v, m) + LenOf(v, n)
<1> DEFINE X == StrOf(v, x)
           Y == StrOf(v, y)
           M == StrOf(v, m)
           N == StrOf(v, n)
<1>1. /\ X \in Text /\ Y \in Text /\ M \in Text /\ N \in Text
      /\ LenOf(v, x) = Len(X) /\ LenOf(v, y) = Len(Y) /\ LenOf(v, m) = Len(M) /\ LenOf(v, n) = Len(N)
  BY StringOfAtom
<1>2. /\ Eq(x, <<m>>) \in Equalities(V) /\ Eq(y, <<n>>) \in Equalities(V)
      /\ Holds(v, Eq(x, <<m>>)) <=> X = M
      /\ Holds(v, Eq(y, <<n>>)) <=> Y = N
  BY EqAtom
<1>3. Cat(X, Y) = Cat(M, N)
  BY DEF Aligned
<1> HIDE DEF X, Y, M, N
<1>4. Len(X) + Len(Y) = Len(M) + Len(N) /\ (Len(X) = Len(M) => X = M /\ Y = N)
  BY <1>1, <1>3, SameCut
<1>5. Len(X) \in Nat /\ Len(Y) \in Nat /\ Len(M) \in Nat /\ Len(N) \in Nat
  BY <1>1, Concatenating
<1>6. Len(X) # Len(M) => X # M /\ Y # N
  BY <1>4, <1>5
<1> QED
  BY <1>1, <1>2, <1>4, <1>6 DEF EqsTrue, EqsFalse

(* The longer first part is cut along a made variable.                     *)
LEMMA OverlapWay ==
  ASSUME NEW V, NEW W, Vars(V), Vars(W), V \subseteq W, NEW v \in Value, HeldTrue(v, V),
         NEW long \in Atoms(V), NEW other \in Atoms(V), NEW short \in Atoms(V),
         NEW rest \in Atoms(V), Aligned(v, short, rest, long, other), NEW t \in W, t # 0,
         v[t] = Piece(StrOf(v, long), StrOf(v, short))
  PROVE  /\ Overlap(long, short, rest, other, t) \subseteq Equalities(W)
         /\ LenOf(v, long) > LenOf(v, short) =>
              EqsTrue(v, Overlap(long, short, rest, other, t))
         /\ ~ LenOf(v, long) > LenOf(v, short) =>
              EqsFalse(v, Overlap(long, short, rest, other, t))
<1> DEFINE L == StrOf(v, long)
           S == StrOf(v, short)
           R == StrOf(v, rest)
           O == StrOf(v, other)
           P == Piece(L, S)
           e1 == Eq(long, MkConcat(short, Var(t)))
           e2 == Eq(rest, MkConcat(Var(t), other))
<1>1. /\ L \in Text /\ S \in Text /\ R \in Text /\ O \in Text
      /\ LenOf(v, long) = Len(L) /\ LenOf(v, short) = Len(S)
  BY StringOfAtom
<1>2. /\ Var(t) \in Atoms(W) /\ StrOf(v, Var(t)) = P
      /\ long \in Atoms(W) /\ short \in Atoms(W) /\ rest \in Atoms(W) /\ other \in Atoms(W)
  BY AtomFacts, Widening
<1>3. /\ e1 \in Equalities(W) /\ (Holds(v, e1) <=> L = Cat(S, P))
      /\ e2 \in Equalities(W) /\ (Holds(v, e2) <=> R = Cat(P, O))
  BY <1>2, EqConcat
<1>4. Cat(S, R) = Cat(L, O)
  BY DEF Aligned
<1>5. Overlap(long, short, rest, other, t) = {e1, e2}
  BY DEF Overlap
<1> HIDE DEF L, S, R, O, e1, e2
<1>6. /\ P \in Text /\ Len(P) \in Nat \ {0}
      /\ Len(L) > Len(S) => P = Suffix(L, Len(S)) /\ Len(P) = Len(L) - Len(S)
  BY <1>1, PieceIs
<1>7. /\ Len(L) \in Nat /\ Len(S) \in Nat /\ Len(R) \in Nat /\ Len(O) \in Nat
      /\ Len(S) + Len(R) = Len(L) + Len(O)
  BY <1>1, <1>4, SameCut, Concatenating
<1>8. ASSUME Len(L) > Len(S) PROVE L = Cat(S, P) /\ R = Cat(P, O)
  <2>1. Len(S) <= Len(L)
    BY <1>7, <1>8
  <2> QED
    BY <1>1, <1>4, <1>6, <1>8, <2>1, Overhang
<1> HIDE DEF P
<1>9. ASSUME ~ Len(L) > Len(S) PROVE L # Cat(S, P) /\ R # Cat(P, O)
  <2>1. Len(Cat(S, P)) = Len(S) + Len(P) /\ Len(Cat(P, O)) = Len(P) + Len(O)
    BY <1>1, <1>6, Concatenating
  <2>2. Len(L) # Len(S) + Len(P) /\ Len(R) # Len(P) + Len(O)
    BY <1>6, <1>7, <1>9
  <2> QED
    BY <2>1, <2>2
<1> QED
  BY <1>1, <1>3, <1>5, <1>8, <1>9 DEF EqsTrue, EqsFalse

(* A constant on the right is cut i characters from its start.             *)
LEMMA RightWay ==
  ASSUME NEW V, Vars(V), NEW v \in Value, HeldTrue(v, V),
         NEW x \in Atoms(V), NEW y \in Atoms(V), NEW m \in Atoms(V), NEW n \in Atoms(V),
         Aligned(v, x, y, m, n), IsConstStr(n), NEW i \in 0 .. Len(n.str)
  PROVE  /\ RightCutAt(x, y, m, n.str, i) \subseteq Equalities(V)
         /\ LenOf(v, x) = LenOf(v, m) + i => EqsTrue(v, RightCutAt(x, y, m, n.str, i))
         /\ LenOf(v, x) # LenOf(v, m) + i => EqsFalse(v, RightCutAt(x, y, m, n.str, i))
<1> DEFINE X == StrOf(v, x)
           Y == StrOf(v, y)
           M == StrOf(v, m)
           str == n.str
           pre == Prefix(str, i)
           suf == Suffix(str, i)
           e1 == Eq(x, MkConcat(m, Str(pre)))
           e2 == Eq(y, <<Str(suf)>>)
<1>1. /\ X \in Text /\ Y \in Text /\ M \in Text /\ str \in Text /\ StrOf(v, n) = str
      /\ LenOf(v, x) = Len(X) /\ LenOf(v, m) = Len(M)
  BY StringOfAtom, ConstString
<1>2. /\ pre \in Text /\ suf \in Text /\ Len(pre) = i /\ Len(suf) = Len(str) - i
  BY <1>1, Cutting
<1>3. RightCutAt(x, y, m, str, i) = {e1, e2}
  BY DEF RightCutAt
<1>4. Cat(X, Y) = Cat(M, str)
  BY <1>1 DEF Aligned
<1>5. /\ Str(pre) \in Atoms(V) /\ StrOf(v, Str(pre)) = pre
      /\ Str(suf) \in Atoms(V) /\ StrOf(v, Str(suf)) = suf
  BY <1>2, AtomFacts
<1>6. /\ e1 \in Equalities(V) /\ (Holds(v, e1) <=> X = Cat(M, pre))
      /\ e2 \in Equalities(V) /\ (Holds(v, e2) <=> Y = suf)
  BY <1>5, EqConcat, EqAtom
<1> HIDE DEF X, Y, M, str, e1, e2
<1>7. /\ Len(X) \in Nat /\ Len(Y) \in Nat /\ Len(M) \in Nat /\ Len(str) \in Nat
      /\ Len(X) + Len(Y) = Len(M) + Len(str)
  BY <1>1, <1>4, SameCut, Concatenating
<1>8. ASSUME Len(X) = Len(M) + i PROVE X = Cat(M, pre) /\ Y = suf
  <2>1. Len(M) <= Len(X)
    BY <1>7, <1>8
  <2>2. PICK p \in Text : Len(p) = Len(X) - Len(M) /\ X = Cat(M, p) /\ str = Cat(p, Y)
    BY <1>1, <1>4, <2>1, Overhang
  <2>3. Len(p) = i
    BY <1>7, <1>8, <2>2
  <2>4. Prefix(str, i) = p /\ Suffix(str, i) = Y
    BY <1>1, <2>2, <2>3, Parts
  <2> QED
    BY <2>2, <2>4
<1> HIDE DEF pre, suf
<1>9. ASSUME Len(X) # Len(M) + i PROVE X # Cat(M, pre) /\ Y # suf
  <2>1. Len(Cat(M, pre)) = Len(M) + Len(pre)
    BY <1>1, <1>2, Concatenating
  <2>2. Len(Y) # Len(str) - i
    BY <1>7, <1>9
  <2> QED
    BY <1>2, <1>9, <2>1, <2>2
<1>10. RightCutAt(x, y, m, n.str, i) = {e1, e2}
  BY <1>3 DEF str
<1> QED
  BY <1>1, <1>6, <1>8, <1>9, <1>10 DEF EqsTrue, EqsFalse

(* A constant on the left is cut i characters from its start.              *)
LEMMA LeftWay ==
  ASSUME NEW V, Vars(V), NEW v \in Value, HeldTrue(v, V),
         NEW x \in Atoms(V), NEW y \in Atoms(V), NEW m \in Atoms(V), NEW n \in Atoms(V),
         Aligned(v, x, y, m, n), IsConstStr(m), NEW i \in 0 .. Len(m.str)
  PROVE  /\ LeftCutAt(x, y, m.str, n, i) \subseteq Equalities(V)
         /\ LenOf(v, x) = i => EqsTrue(v, LeftCutAt(x, y, m.str, n, i))
         /\ LenOf(v, x) # i => EqsFalse(v, LeftCutAt(x, y, m.str, n, i))
<1> DEFINE X == StrOf(v, x)
           Y == StrOf(v, y)
           N == StrOf(v, n)
           str == m.str
           pre == Prefix(str, i)
           suf == Suffix(str, i)
           e1 == Eq(x, <<Str(pre)>>)
           e2 == Eq(y, MkConcat(Str(suf), n))
<1>1. /\ X \in Text /\ Y \in Text /\ N \in Text /\ str \in Text /\ StrOf(v, m) = str
      /\ LenOf(v, x) = Len(X)
  BY StringOfAtom, ConstString
<1>2. /\ pre \in Text /\ suf \in Text /\ Len(pre) = i /\ Len(suf) = Len(str) - i
  BY <1>1, Cutting
<1>3. LeftCutAt(x, y, str, n, i) = {e1, e2}
  BY DEF LeftCutAt
<1>4. Cat(X, Y) = Cat(str, N)
  BY <1>1 DEF Aligned
<1>5. /\ Str(pre) \in Atoms(V) /\ StrOf(v, Str(pre)) = pre
      /\ Str(suf) \in Atoms(V) /\ StrOf(v, Str(suf)) = suf
  BY <1>2, AtomFacts
<1>6. /\ e1 \in Equalities(V) /\ (Holds(v, e1) <=> X = pre)
      /\ e2 \in Equalities(V) /\ (Holds(v, e2) <=> Y = Cat(suf, N))
  BY <1>5, EqConcat, EqAtom
<1> HIDE DEF X, Y, N, str, e1, e2
<1>7. /\ Len(X) \in Nat /\ Len(Y) \in Nat /\ Len(N) \in Nat /\ Len(str) \in Nat
      /\ Len(X) + Len(Y) = Len(str) + Len(N)
  BY <1>1, <1>4, SameCut, Concatenating
<1>8. ASSUME Len(X) = i PROVE X = pre /\ Y = Cat(suf, N)
  <2>1. Len(X) <= Len(str)
    BY <1>7, <1>8 DEF str
  <2>2. PICK p \in Text : str = Cat(X, p) /\ Y = Cat(p, N)
    BY <1>1, <1>4, <2>1, Overhang
  <2>3. Prefix(str, i) = X /\ Suffix(str, i) = p
    BY <1>1, <1>8, <2>2, Parts
  <2> QED
    BY <2>2, <2>3
<1> HIDE DEF pre, suf
<1>9. ASSUME Len(X) # i PROVE X # pre /\ Y # Cat(suf, N)
  <2>1. Len(Cat(suf, N)) = Len(suf) + Len(N)
    BY <1>1, <1>2, Concatenating
  <2>2. Len(Y) # Len(str) - i + Len(N)
    BY <1>7, <1>9
  <2> QED
    BY <1>2, <1>9, <2>1, <2>2
<1>10. LeftCutAt(x, y, m.str, n, i) = {e1, e2}
  BY <1>3 DEF str
<1> QED
  BY <1>1, <1>6, <1>8, <1>9, <1>10 DEF EqsTrue, EqsFalse

-----------------------------------------------------------------------------
LEMMA KnownLength ==
  ASSUME NEW known, NEW a
  PROVE  /\ LenValue(known, a) \in {-1, LenOf(val, a)}
         /\ IsConstStr(a) => LenValue(known, a) = LenOf(val, a)
BY DEF LenValue

LEMMA BySplitTypeGood ==
  ASSUME NEW c1, NEW c2, NEW V, NEW W, NEW k \in -1 .. 2, NEW o0, NEW o1, NEW o2, NEW o,
         k = -1 => GoodOutcome(o, c1, c2, V, W), k = 0 => GoodOutcome(o0, c1, c2, V, W),
         k = 1 => GoodOutcome(o1, c1, c2, V, W), k = 2 => GoodOutcome(o2, c1, c2, V, W)
  PROVE  GoodOutcome(BySplitType(k, o0, o1, o2, o), c1, c2, V, W)
BY DEF BySplitType

SameLengths(v, x, y, m, n) == LenOf(v, x) + LenOf(v, y) = LenOf(v, m) + LenOf(v, n)

LEMMA AlignedLengths ==
  ASSUME NEW V, Vars(V), NEW v \in Value, NEW x \in Atoms(V), NEW y \in Atoms(V),
         NEW m \in Atoms(V), NEW n \in Atoms(V), Aligned(v, x, y, m, n)
  PROVE  SameLengths(v, x, y, m, n)
<1> DEFINE X == StrOf(v, x)
           Y == StrOf(v, y)
           M == StrOf(v, m)
           N == StrOf(v, n)
<1>1. /\ X \in Text /\ Y \in Text /\ M \in Text /\ N \in Text
      /\ LenOf(v, x) = Len(X) /\ LenOf(v, y) = Len(Y) /\ LenOf(v, m) = Len(M) /\ LenOf(v, n) = Len(N)
  BY StringOfAtom
<1>2. Cat(X, Y) = Cat(M, N)
  BY DEF Aligned
<1> HIDE DEF X, Y, M, N
<1>3. Len(X) + Len(Y) = Len(M) + Len(N)
  BY <1>1, <1>2, SameCut
<1> QED
  BY <1>1, <1>3 DEF SameLengths

(* What the six types know of their two sides and of the variables made.   *)
LEMMA Context ==
  ASSUME NEW V, NEW c1, NEW c2, Splits(c1, c2, V), NEW v, GoodValue(v, V),
         NEW made, MadeNew(made, V)
  PROVE  /\ Vars(V) /\ Vars(WithMade(V, made)) /\ V \subseteq WithMade(V, made)
         /\ made.t1 \in WithMade(V, made) /\ made.t2 \in WithMade(V, made)
         /\ Equalities(V) \subseteq Equalities(WithMade(V, made))
         /\ v \in Value /\ HeldTrue(v, V)
         /\ c1[1] \in Atoms(V) /\ c1[2] \in Atoms(V) /\ c2[1] \in Atoms(V) /\ c2[2] \in Atoms(V)
         /\ \A a \in Atoms(V) : /\ StrOf(v, a) = StrOf(val, a) /\ StrOf(v, a) \in Text
                                /\ LenOf(v, a) = LenOf(val, a) /\ LenOf(v, a) \in Nat
         /\ Aligned(v, c1[1], c1[2], c2[1], c2[2])
         /\ SameLengths(v, c1[1], c1[2], c2[1], c2[2])
<1>1. /\ Vars(V) /\ v \in Value /\ HeldTrue(v, V)
      /\ c1[1] \in Atoms(V) /\ c1[2] \in Atoms(V) /\ c2[1] \in Atoms(V) /\ c2[2] \in Atoms(V)
      /\ \A a \in Atoms(V) : StrOf(v, a) = StrOf(val, a) /\ StrOf(v, a) \in Text
      /\ Aligned(v, c1[1], c1[2], c2[1], c2[2])
  BY Sides DEF Aligned
<1>2. \A a \in Atoms(V) : LenOf(v, a) = LenOf(val, a) /\ LenOf(v, a) \in Nat
  BY <1>1, LenProperties DEF LenOf, Text
<1>3. Vars(WithMade(V, made))
  <2>1. made.t1 \in 0 .. MaxNode /\ made.t2 \in 0 .. MaxNode
    BY MaxNodeAssumption DEF MadeNew, Node
  <2>2. V \subseteq 0 .. MaxNode /\ 0 \in V
    BY <1>1 DEF Vars
  <2> QED
    BY <2>1, <2>2, Zenon DEF Vars, WithMade
<1>4. /\ V \subseteq WithMade(V, made)
      /\ made.t1 \in WithMade(V, made) /\ made.t2 \in WithMade(V, made)
  BY DEF WithMade
<1>5. Equalities(V) \subseteq Equalities(WithMade(V, made))
  BY <1>4, Widening
<1>6. SameLengths(v, c1[1], c1[2], c2[1], c2[2])
  BY <1>1, AlignedLengths, Zenon
<1> QED
  BY <1>1, <1>2, <1>3, <1>4, <1>5, <1>6

(* Two variables that are cut.                                             *)
LEMMA CutFrom ==
  ASSUME NEW V, Vars(V), NEW a \in Atoms(V), NEW b \in Atoms(V),
         ~ IsConstStr(a), ~ IsConstStr(b), NEW t
  PROVE  Cut(t, a, b).from \subseteq Node
<1>1. a.var \in Node /\ b.var \in Node
  BY AtomFacts
<1> QED
  BY <1>1 DEF Cut

(* One more option at either end.                                          *)
LEMMA OptionAdded ==
  ASSUME NEW n \in Nat, NEW o, NEW rest, rest = [i \in 1 .. n |-> rest[i]]
  PROVE  /\ DOMAIN (<<o>> \o rest) = 1 .. n + 1
         /\ (<<o>> \o rest)[1] = o
         /\ \A i \in 1 .. n : (<<o>> \o rest)[i + 1] = rest[i]
         /\ DOMAIN (rest \o <<o>>) = 1 .. n + 1
         /\ (rest \o <<o>>)[n + 1] = o
         /\ \A i \in 1 .. n : (rest \o <<o>>)[i] = rest[i]
         /\ rest \o <<>> = rest /\ <<>> \o rest = rest
  OBVIOUS

-----------------------------------------------------------------------------
(* An option is over W, and true if b, in every statement false if not.    *)
Settles(v, o, b, W) ==
  /\ \A e \in o.eqs : e \in Equalities(W)
  /\ b => AllTrue(v, o)
  /\ ~ b => AllFalse(v, o)

Typed(v, options, W) ==
  \A k \in DOMAIN options : \A e \in options[k].eqs : Holds(v, e) => e \in Equalities(W)

(* n options, of which the j-th is true, if there is one.                  *)
ListOf(v, rest, n, j, W) ==
  /\ n \in Nat /\ j \in Int /\ rest = [i \in 1 .. n |-> rest[i]]
  /\ \A i \in 1 .. n : Settles(v, rest[i], i = j, W)

Settled(v, options, W) == Typed(v, options, W) /\ XorValues(v, options) # {}

(* One option of a list, or one more at either end of it.                  *)
LEMMA ListSettles ==
  ASSUME NEW W, NEW v, NEW n, NEW rest, NEW j, ListOf(v, rest, n, j, W)
  PROVE  /\ Typed(v, rest, W)
         /\ rest \o <<>> = rest /\ <<>> \o rest = rest
         /\ \A o, b : Settles(v, o, b, W) /\ (b <=> j \notin 1 .. n) =>
              Settled(v, <<o>> \o rest, W) /\ Settled(v, rest \o <<o>>, W)
<1>0. /\ n \in Nat /\ j \in Int /\ rest = [i \in 1 .. n |-> rest[i]]
      /\ \A i \in 1 .. n : Settles(v, rest[i], i = j, W)
  BY DEF ListOf
<1>1. Typed(v, rest, W)
  BY <1>0 DEF Typed, Settles
<1>2. ASSUME NEW o, NEW b, Settles(v, o, b, W), b <=> j \notin 1 .. n
      PROVE  Settled(v, <<o>> \o rest, W)
  <2> DEFINE l == <<o>> \o rest
             k == IF b THEN 1 ELSE j + 1
  <2>1. /\ DOMAIN l = 1 .. n + 1 /\ l[1] = o
        /\ \A i \in 1 .. n : l[i + 1] = rest[i]
    BY <1>0, OptionAdded
  <2> HIDE DEF l
  <2>2. \A i \in 1 .. n + 1 : i # 1 => i - 1 \in 1 .. n /\ l[i] = rest[i - 1]
    <3> TAKE i \in 1 .. n + 1
    <3>1. i # 1 => i - 1 \in 1 .. n /\ (i - 1) + 1 = i
      BY <1>0
    <3> QED
      BY <1>0, <2>1, <3>1
  <2>3. k \in DOMAIN l /\ AllTrue(v, l[k])
    BY <1>0, <1>2, <2>1 DEF Settles
  <2>4. \A i \in DOMAIN l \ {k} : AllFalse(v, l[i])
    <3> TAKE i \in DOMAIN l \ {k}
    <3>1. CASE i = 1
      BY <1>0, <1>2, <2>1, <3>1 DEF Settles
    <3>2. CASE i # 1
      <4>1. i - 1 \in 1 .. n /\ l[i] = rest[i - 1]
        BY <1>0, <2>1, <2>2, <3>2
      <4>2. i - 1 # j
        BY <1>0, <1>2, <2>1, <4>1
      <4> QED
        BY <1>0, <4>1, <4>2 DEF Settles
    <3> QED
      BY <3>1, <3>2
  <2>5. k \in XorValues(v, l)
    BY <2>3, <2>4, Chosen
  <2>6. Typed(v, l, W)
    BY <1>0, <1>2, <2>1, <2>2 DEF Typed, Settles
  <2> QED
    BY <2>5, <2>6 DEF l, Settled
<1>3. ASSUME NEW o, NEW b, Settles(v, o, b, W), b <=> j \notin 1 .. n
      PROVE  Settled(v, rest \o <<o>>, W)
  <2> DEFINE l == rest \o <<o>>
             k == IF b THEN n + 1 ELSE j
  <2>1. /\ DOMAIN l = 1 .. n + 1 /\ l[n + 1] = o
        /\ \A i \in 1 .. n : l[i] = rest[i]
    BY <1>0, OptionAdded
  <2> HIDE DEF l
  <2>2. \A i \in 1 .. n + 1 : i # n + 1 => i \in 1 .. n
    BY <1>0
  <2>3. k \in DOMAIN l /\ AllTrue(v, l[k])
    BY <1>0, <1>3, <2>1 DEF Settles
  <2>4. \A i \in DOMAIN l \ {k} : AllFalse(v, l[i])
    <3> TAKE i \in DOMAIN l \ {k}
    <3>1. CASE i = n + 1
      BY <1>0, <1>3, <2>1, <3>1 DEF Settles
    <3>2. CASE i # n + 1
      <4>1. i \in 1 .. n /\ l[i] = rest[i]
        BY <1>0, <2>1, <2>2, <3>2
      <4>2. i # j
        BY <1>0, <1>3, <4>1
      <4> QED
        BY <1>0, <4>1, <4>2 DEF Settles
    <3> QED
      BY <3>1, <3>2
  <2>5. k \in XorValues(v, l)
    BY <2>3, <2>4, Chosen
  <2>6. Typed(v, l, W)
    BY <1>0, <1>3, <2>1, <2>2 DEF Typed, Settles
  <2> QED
    BY <2>5, <2>6 DEF l, Settled
<1>4. rest \o <<>> = rest /\ <<>> \o rest = rest
  BY <1>0, OptionAdded
<1> QED
  BY <1>1, <1>2, <1>3, <1>4

LEMMA LensSettle ==
  /\ \A p \in BOOLEAN : (p => {p} \subseteq {TRUE}) /\ (~ p => {p} \subseteq {FALSE})
  /\ \A p, q \in BOOLEAN : /\ (p /\ q) => {p, q} \subseteq {TRUE}
                           /\ (~ p /\ ~ q) => {p, q} \subseteq {FALSE}
  OBVIOUS

LEMMA OptionSettles ==
  ASSUME NEW W, NEW v, NEW eqs, NEW lens, NEW b, eqs \subseteq Equalities(W),
         b => EqsTrue(v, eqs) /\ lens \subseteq {TRUE},
         ~ b => EqsFalse(v, eqs) /\ lens \subseteq {FALSE}
  PROVE  Settles(v, Option(eqs, lens), b, W)
<1>1. Option(eqs, lens).eqs = eqs /\ Option(eqs, lens).lens = lens
  BY DEF Option
<1> QED
  BY <1>1 DEF Settles, AllTrue, AllFalse, EqsTrue, EqsFalse

(* Two cuts of one string, at i: where one side is cut tells where the     *)
(* other is.                                                               *)
LEMMA Offsets ==
  ASSUME NEW x \in Int, NEW y \in Int, NEW m \in Int, NEW k \in Int, x + y = m + k, NEW i \in Int
  PROVE  /\ i = x - m + 1 <=> x = m + (i - 1)
         /\ i = x - m + 1 <=> y = k - (i - 1)
         /\ y = k - i <=> m = x - i
  OBVIOUS

LEMMA RightCutsSettle ==
  ASSUME NEW V, NEW W, Vars(V), V \subseteq W, NEW v \in Value, HeldTrue(v, V),
         NEW x \in Atoms(V), NEW y \in Atoms(V), NEW m \in Atoms(V), NEW n \in Atoms(V),
         Aligned(v, x, y, m, n), IsConstStr(n), NEW rest, rest = RightCuts(v, x, y, m, n.str)
  PROVE  ListOf(v, rest, Len(n.str) + 1, LenOf(v, x) - LenOf(v, m) + 1, W)
<1>1. n.str \in Text /\ StrOf(v, n) = n.str /\ LenOf(v, n) = Len(n.str) /\ Len(n.str) \in Nat
  BY ConstString, LenProperties DEF LenOf, Text
<1>2. /\ LenOf(v, x) \in Nat /\ LenOf(v, y) \in Nat /\ LenOf(v, m) \in Nat
      /\ LenOf(v, x) + LenOf(v, y) = LenOf(v, m) + Len(n.str)
  <2>1. LenOf(v, x) \in Nat /\ LenOf(v, y) \in Nat /\ LenOf(v, m) \in Nat
    BY StringOfAtom
  <2>2. SameLengths(v, x, y, m, n)
    BY AlignedLengths
  <2> QED
    BY <1>1, <2>1, <2>2 DEF SameLengths
<1>3. rest = [i \in 1 .. Len(n.str) + 1 |->
                Option(RightCutAt(x, y, m, n.str, i - 1), {LenOf(v, y) = Len(n.str) - (i - 1)})]
  BY DEF RightCuts
<1>4. ASSUME NEW i \in 1 .. Len(n.str) + 1
      PROVE  Settles(v, rest[i], i = LenOf(v, x) - LenOf(v, m) + 1, W)
  <2> DEFINE b == i = LenOf(v, x) - LenOf(v, m) + 1
             p == LenOf(v, y) = Len(n.str) - (i - 1)
             eqs == RightCutAt(x, y, m, n.str, i - 1)
  <2>1. i - 1 \in 0 .. Len(n.str)
    BY <1>1
  <2>2. /\ eqs \subseteq Equalities(V)
        /\ LenOf(v, x) = LenOf(v, m) + (i - 1) => EqsTrue(v, eqs)
        /\ LenOf(v, x) # LenOf(v, m) + (i - 1) => EqsFalse(v, eqs)
    BY <2>1, RightWay
  <2>3. (b <=> LenOf(v, x) = LenOf(v, m) + (i - 1)) /\ (b <=> p)
    <3> DEFINE X == LenOf(v, x)
               Y == LenOf(v, y)
               M == LenOf(v, m)
               K == Len(n.str)
    <3>1. X \in Int /\ Y \in Int /\ M \in Int /\ K \in Int /\ i \in Int /\ X + Y = M + K
      BY <1>1, <1>2
    <3>2. (b <=> i = X - M + 1) /\ (p <=> Y = K - (i - 1))
      OBVIOUS
    <3> HIDE DEF X, Y, M, K, b, p
    <3>3. (b <=> X = M + (i - 1)) /\ (b <=> p)
      BY <3>1, <3>2, Offsets
    <3> QED
      BY <3>3 DEF X, M
  <2>4. eqs \subseteq Equalities(W)
    BY <2>2, Widening
  <2>5. rest[i] = Option(eqs, {p})
    BY <1>3
  <2>6. p \in BOOLEAN
    OBVIOUS
  <2> HIDE DEF b, p, eqs
  <2>7. (p => {p} \subseteq {TRUE}) /\ (~ p => {p} \subseteq {FALSE})
    BY <2>6, LensSettle
  <2>8. Settles(v, Option(eqs, {p}), b, W)
    BY <2>2, <2>3, <2>4, <2>7, OptionSettles
  <2> QED
    BY <2>5, <2>8 DEF b
<1>5. rest = [i \in 1 .. Len(n.str) + 1 |-> rest[i]]
  BY <1>3
<1>6. Len(n.str) + 1 \in Nat /\ LenOf(v, x) - LenOf(v, m) + 1 \in Int
  BY <1>1, <1>2
<1> QED
  BY <1>4, <1>5, <1>6, Zenon DEF ListOf

LEMMA LeftCutsSettle ==
  ASSUME NEW V, NEW W, Vars(V), V \subseteq W, NEW v \in Value, HeldTrue(v, V),
         NEW x \in Atoms(V), NEW y \in Atoms(V), NEW m \in Atoms(V), NEW n \in Atoms(V),
         Aligned(v, x, y, m, n), IsConstStr(m), NEW rest, rest = LeftCuts(v, x, y, m.str, n)
  PROVE  ListOf(v, rest, Len(m.str) + 1, LenOf(v, x) + 1, W)
<1>1. m.str \in Text /\ Len(m.str) \in Nat
  BY ConstString, LenProperties DEF Text
<1>2. LenOf(v, x) \in Nat
  BY StringOfAtom
<1>3. rest = [i \in 1 .. Len(m.str) + 1 |->
                Option(LeftCutAt(x, y, m.str, n, i - 1), {LenOf(v, x) = i - 1})]
  BY DEF LeftCuts
<1>4. ASSUME NEW i \in 1 .. Len(m.str) + 1
      PROVE  Settles(v, rest[i], i = LenOf(v, x) + 1, W)
  <2> DEFINE b == i = LenOf(v, x) + 1
             p == LenOf(v, x) = i - 1
             eqs == LeftCutAt(x, y, m.str, n, i - 1)
  <2>1. i - 1 \in 0 .. Len(m.str)
    BY <1>1
  <2>2. /\ eqs \subseteq Equalities(V)
        /\ LenOf(v, x) = i - 1 => EqsTrue(v, eqs)
        /\ LenOf(v, x) # i - 1 => EqsFalse(v, eqs)
    BY <2>1, LeftWay
  <2>3. b <=> p
    BY <1>1, <1>2
  <2>4. eqs \subseteq Equalities(W)
    BY <2>2, Widening
  <2>5. rest[i] = Option(eqs, {p})
    BY <1>3
  <2>6. p \in BOOLEAN /\ (p => EqsTrue(v, eqs)) /\ (~ p => EqsFalse(v, eqs))
    BY <2>2
  <2> HIDE DEF b, p, eqs
  <2>7. (p => {p} \subseteq {TRUE}) /\ (~ p => {p} \subseteq {FALSE})
    BY <2>6, LensSettle
  <2>8. Settles(v, Option(eqs, {p}), b, W)
    BY <2>3, <2>4, <2>6, <2>7, OptionSettles
  <2> QED
    BY <2>5, <2>8 DEF b
<1>5. rest = [i \in 1 .. Len(m.str) + 1 |-> rest[i]]
  BY <1>3
<1>6. Len(m.str) + 1 \in Nat /\ LenOf(v, x) + 1 \in Int
  BY <1>1, <1>2
<1> QED
  BY <1>4, <1>5, <1>6, Zenon DEF ListOf

LEMMA OverlapSettles ==
  ASSUME NEW V, NEW W, Vars(V), Vars(W), V \subseteq W, NEW v \in Value, HeldTrue(v, V),
         NEW long \in Atoms(V), NEW other \in Atoms(V), NEW short \in Atoms(V),
         NEW rest \in Atoms(V), Aligned(v, short, rest, long, other), NEW t \in W, t # 0,
         v[t] = Piece(StrOf(v, long), StrOf(v, short)),
         NEW lens, LenOf(v, long) > LenOf(v, short) => lens \subseteq {TRUE},
         ~ LenOf(v, long) > LenOf(v, short) => lens \subseteq {FALSE}
  PROVE  Settles(v, Option(Overlap(long, short, rest, other, t), lens),
                 LenOf(v, long) > LenOf(v, short), W)
<1> DEFINE b == LenOf(v, long) > LenOf(v, short)
           eqs == Overlap(long, short, rest, other, t)
<1>1. eqs \subseteq Equalities(W) /\ (b => EqsTrue(v, eqs)) /\ (~ b => EqsFalse(v, eqs))
  BY OverlapWay
<1>2. (b => lens \subseteq {TRUE}) /\ (~ b => lens \subseteq {FALSE})
  OBVIOUS
<1> HIDE DEF b, eqs
<1>3. Settles(v, Option(eqs, lens), b, W)
  BY <1>1, <1>2, OptionSettles
<1> QED
  BY <1>3 DEF b, eqs

(* Type 2, x . y = m . "str".                                              *)
LEMMA Type2Good ==
  ASSUME NEW V, NEW c1, NEW c2, Splits(c1, c2, V), NEW map, NEW known,
         ~ IsConstStr(c1[2]), ~ IsConstStr(c2[1]), IsConstStr(c2[2]),
         MadeNew(MadeFor(c1, c2), V)
  PROVE  GoodOutcome(ProcessConcatEqType2(map, c1, c2, known), c1, c2, V,
                     WithMade(V, MadeFor(c1, c2)))
<1> DEFINE x == c1[1]
           y == c1[2]
           m == c2[1]
           n == c2[2]
           str == n.str
           pair == <<c1, c2>>
           made == MadeFor(c1, c2)
           W == WithMade(V, made)
           t1 == made.t1
           v == Giving(val, t1, Piece(StrOf(val, m), StrOf(val, x)))
           xLen == LenValue(known, x)
           yLen == LenValue(known, y)
           mLen == LenValue(known, m)
           yCut == Overlap(m, x, y, n, t1)
           cuts == IF Allowed(map, m, y) THEN {Cut(t1, m, y)} ELSE {}
           same == {Eq(x, <<m>>), Eq(y, <<n>>)}
           at == LenDelta(xLen, yLen, mLen, Len(str))
           type == SplitType(xLen, yLen, mLen, Len(str))
           rights == RightCuts(v, x, y, m, str)
           options == OptionIf(cuts, yCut, {}) \o rights
           lx == LenOf(v, x)
           lm == LenOf(v, m)
           ly == LenOf(v, y)
<1>1. ProcessConcatEqType2(map, c1, c2, known) =
        BySplitType(type, OneCut(pair, yCut, cuts, v), Exactly(pair, same, v),
                    Exactly(pair, RightCutAt(x, y, m, str, at), v),
                    AnyOf(pair, options, cuts, cuts = {}, v))
  BY Zenon DEF ProcessConcatEqType2
<1>2. GoodValue(val, V) /\ Vars(V) /\ val \in Value
  BY DEF GoodValue, Splits
<1>3. /\ x \in Atoms(V) /\ y \in Atoms(V) /\ m \in Atoms(V) /\ n \in Atoms(V)
      /\ StrOf(val, m) \in Text /\ StrOf(val, x) \in Text
  BY <1>2, Sides
<1>4. Piece(StrOf(val, m), StrOf(val, x)) \in Text /\ t1 \in Node \ V /\ t1 # 0
  BY <1>3, PieceIs DEF MadeNew, Vars, Splits
<1>5. GoodValue(v, V) /\ v[t1] = Piece(StrOf(val, m), StrOf(val, x))
  BY <1>2, <1>4, GivingIs
<1> HIDE DEF v
<1>6. /\ Vars(W) /\ V \subseteq W /\ t1 \in W
      /\ Equalities(V) \subseteq Equalities(W)
      /\ v \in Value /\ HeldTrue(v, V)
      /\ \A a \in Atoms(V) : /\ StrOf(v, a) = StrOf(val, a) /\ StrOf(v, a) \in Text
                             /\ LenOf(v, a) = LenOf(val, a) /\ LenOf(v, a) \in Nat
      /\ Aligned(v, x, y, m, n) /\ SameLengths(v, x, y, m, n)
  BY <1>2, <1>5, Context, Zenon
<1> HIDE DEF W
<1>7. Len(str) = LenOf(v, n) /\ lx + ly = lm + Len(str) /\ Len(str) \in Nat
      /\ lx \in Nat /\ ly \in Nat /\ lm \in Nat
  <2>1. StrOf(v, n) = str
    BY <1>2, <1>3, ConstString
  <2> QED
    BY <1>3, <1>6, <2>1 DEF SameLengths, LenOf
<1>8. xLen \in {-1, lx} /\ yLen \in {-1, ly} /\ mLen \in {-1, lm}
  BY <1>3, <1>6, KnownLength
<1> HIDE DEF x, y, m, n, xLen, yLen, mLen, lx, ly, lm, made, str
<1>9. /\ type \in -1 .. 2 /\ (type = 0 => lx < lm) /\ (type = 1 => lx = lm)
      /\ type = 2 => at \in 0 .. Len(str) /\ lx = lm + at
  <2> DEFINE ls == Len(str)
  <2>1. ls \in Nat /\ ls \in {-1, ls} /\ lx + ly = lm + ls
    BY <1>7
  <2> HIDE DEF ls
  <2>2. /\ SplitType(xLen, yLen, mLen, ls) \in -1 .. 2
        /\ SplitType(xLen, yLen, mLen, ls) = 0 => lx < lm
        /\ SplitType(xLen, yLen, mLen, ls) = 1 => lx = lm
    BY <1>7, <1>8, <2>1 DEF SplitType, Compare
  <2>3. SplitType(xLen, yLen, mLen, ls) = 2 =>
          LenDelta(xLen, yLen, mLen, ls) \in 0 .. ls /\ lx = lm + LenDelta(xLen, yLen, mLen, ls)
    BY <1>7, <1>8, <2>1 DEF SplitType, Compare, LenDelta
  <2> QED
    BY <2>2, <2>3 DEF ls
<1> HIDE DEF type, at
<1>10. v[t1] = Piece(StrOf(v, m), StrOf(v, x))
  BY <1>3, <1>5, <1>6
<1>11. \A c \in cuts : c.from \subseteq Node
  BY <1>2, <1>3, CutFrom DEF y, m
<1> HIDE DEF cuts
<1>12. Settles(v, Option(yCut, {}), lm > lx, W)
  BY <1>2, <1>3, <1>4, <1>6, <1>10, OverlapSettles DEF lm, lx
<1>13. \A eqs, lens, b : Settles(v, Option(eqs, lens), b, W) /\ b =>
          \A e \in eqs : e \in Equalities(W) /\ Holds(v, e)
  BY DEF Settles, AllTrue, Option
<1>14. ASSUME type = 0 PROVE GoodOutcome(OneCut(pair, yCut, cuts, v), c1, c2, V, W)
  <2>1. lm > lx
    BY <1>7, <1>9, <1>14
  <2> HIDE DEF yCut
  <2>2. \A e \in yCut : e \in Equalities(W) /\ Holds(v, e)
    BY <1>12, <1>13, <2>1
  <2> QED
    BY <1>2, <1>5, <1>11, <2>2, OneCutGood
<1>15. ASSUME type = 1 PROVE GoodOutcome(Exactly(pair, same, v), c1, c2, V, W)
  <2>1. same \subseteq Equalities(V) /\ EqsTrue(v, same)
    BY <1>2, <1>3, <1>6, <1>9, <1>15, SameWay DEF lx, lm
  <2> HIDE DEF same
  <2>2. \A e \in same : e \in Equalities(W) /\ Holds(v, e)
    BY <1>6, <2>1 DEF EqsTrue
  <2> QED
    BY <1>5, <2>2, ExactlyGood
<1>16. ASSUME type = 2
       PROVE  GoodOutcome(Exactly(pair, RightCutAt(x, y, m, str, at), v), c1, c2, V, W)
  <2> DEFINE eqs == RightCutAt(x, y, m, str, at)
  <2>1. eqs \subseteq Equalities(V) /\ EqsTrue(v, eqs)
    BY <1>2, <1>3, <1>6, <1>9, <1>16, RightWay DEF lx, lm, str, n
  <2> HIDE DEF eqs
  <2>2. \A e \in eqs : e \in Equalities(W) /\ Holds(v, e)
    BY <1>6, <2>1 DEF EqsTrue
  <2>3. GoodOutcome(Exactly(pair, eqs, v), c1, c2, V, W)
    BY <1>5, <2>2, ExactlyGood
  <2> QED
    BY <2>3 DEF eqs
<1>17. GoodOutcome(AnyOf(pair, options, cuts, cuts = {}, v), c1, c2, V, W)
  <2> DEFINE N == Len(str) + 1
             j == lx - lm + 1
             o == Option(yCut, {})
             longer == lm > lx
  <2>1. ListOf(v, rights, N, j, W)
    BY <1>2, <1>3, <1>6, RightCutsSettle DEF lx, lm, str, n
  <2>2. longer <=> j \notin 1 .. N
    BY <1>7
  <2>3. Settles(v, o, longer, W)
    BY <1>12
  <2> HIDE DEF rights, N, j, o, yCut, longer
  <2>4. /\ Typed(v, rights, W) /\ <<>> \o rights = rights
        /\ Settled(v, <<o>> \o rights, W)
    BY <2>1, <2>2, <2>3, ListSettles
  <2>5. Typed(v, options, W) /\ (cuts = {} \/ XorValues(v, options) # {})
    BY <2>4, Zenon DEF OptionIf, o, Settled
  <2> HIDE DEF options
  <2> DEFINE b == Axiom(v, KeyOf(pair[1], pair[2]), pair, options, cuts)
  <2>6. GoodOutcome(Outcome({b}, cuts, cuts = {}, v), c1, c2, V, W)
    BY <1>5, <1>11, <2>5, AnyOfGood DEF Typed
  <2> QED
    BY <2>6 DEF AnyOf
<1> DEFINE o0 == OneCut(pair, yCut, cuts, v)
           o1 == Exactly(pair, same, v)
           o2 == Exactly(pair, RightCutAt(x, y, m, str, at), v)
           o == AnyOf(pair, options, cuts, cuts = {}, v)
<1>18. GoodOutcome(BySplitType(type, o0, o1, o2, o), c1, c2, V, W)
  <2> HIDE DEF o0, o1, o2, o
  <2> QED
    BY <1>9, <1>14, <1>15, <1>16, <1>17, BySplitTypeGood DEF o0, o1, o2, o
<1> QED
  BY <1>1, <1>18 DEF made, W

(* Type 3, x . y = "str" . n.                                              *)
LEMMA Type3Good ==
  ASSUME NEW V, NEW c1, NEW c2, Splits(c1, c2, V), NEW map, NEW known,
         ~ IsConstStr(c1[1]), IsConstStr(c2[1]), ~ IsConstStr(c2[2]),
         MadeNew(MadeFor(c1, c2), V)
  PROVE  GoodOutcome(ProcessConcatEqType3(map, c1, c2, known), c1, c2, V,
                     WithMade(V, MadeFor(c1, c2)))
<1> DEFINE x == c1[1]
           y == c1[2]
           m == c2[1]
           n == c2[2]
           str == m.str
           pair == <<c1, c2>>
           made == MadeFor(c1, c2)
           W == WithMade(V, made)
           t1 == made.t1
           v == Giving(val, t1, Piece(StrOf(val, x), str))
           xLen == LenValue(known, x)
           yLen == LenValue(known, y)
           nLen == LenValue(known, n)
           nCut == Overlap(x, m, n, y, t1)
           cuts == IF Allowed(map, x, n) THEN {Cut(t1, x, n)} ELSE {}
           same == {Eq(x, <<m>>), Eq(y, <<n>>)}
           at == PrefixLen(xLen, yLen, Len(str), nLen)
           type == SplitType(xLen, yLen, Len(str), nLen)
           lefts == LeftCuts(v, x, y, str, n)
           options == lefts \o OptionIf(cuts, nCut, {})
           lx == LenOf(v, x)
           ln == LenOf(v, n)
           ly == LenOf(v, y)
<1>1. ProcessConcatEqType3(map, c1, c2, known) =
        BySplitType(type, Exactly(pair, LeftCutAt(x, y, str, n, at), v), Exactly(pair, same, v),
                    OneCut(pair, nCut, cuts, v), AnyOf(pair, options, cuts, cuts = {}, v))
  BY Zenon DEF ProcessConcatEqType3
<1>2. GoodValue(val, V) /\ Vars(V) /\ val \in Value
  BY DEF GoodValue, Splits
<1>3. /\ x \in Atoms(V) /\ y \in Atoms(V) /\ m \in Atoms(V) /\ n \in Atoms(V)
      /\ StrOf(val, x) \in Text
  BY <1>2, Sides
<1>4. str \in Text /\ \A w : StrOf(w, m) = str
  BY <1>2, <1>3, ConstString
<1>5. Piece(StrOf(val, x), str) \in Text /\ t1 \in Node \ V /\ t1 # 0
  BY <1>3, <1>4, PieceIs DEF MadeNew, Vars, Splits
<1>6. GoodValue(v, V) /\ v[t1] = Piece(StrOf(val, x), str)
  BY <1>2, <1>5, GivingIs
<1> HIDE DEF v
<1>7. /\ Vars(W) /\ V \subseteq W /\ t1 \in W
      /\ Equalities(V) \subseteq Equalities(W)
      /\ v \in Value /\ HeldTrue(v, V)
      /\ \A a \in Atoms(V) : /\ StrOf(v, a) = StrOf(val, a) /\ StrOf(v, a) \in Text
                             /\ LenOf(v, a) = LenOf(val, a) /\ LenOf(v, a) \in Nat
      /\ Aligned(v, x, y, m, n) /\ SameLengths(v, x, y, m, n)
  BY <1>2, <1>6, Context, Zenon
<1> HIDE DEF W
<1>8. Len(str) = LenOf(v, m) /\ lx + ly = Len(str) + ln /\ Len(str) \in Nat
      /\ lx \in Nat /\ ly \in Nat /\ ln \in Nat
  BY <1>3, <1>4, <1>7 DEF SameLengths, LenOf
<1>9. xLen \in {-1, lx} /\ yLen \in {-1, ly} /\ nLen \in {-1, ln}
  BY <1>3, <1>7, KnownLength
<1>10. v[t1] = Piece(StrOf(v, x), StrOf(v, m))
  BY <1>3, <1>4, <1>6, <1>7
<1>11. \A c \in cuts : c.from \subseteq Node
  BY <1>2, <1>3, CutFrom DEF x, n
<1>12. Aligned(v, m, n, x, y)
  BY <1>7 DEF Aligned
<1> HIDE DEF x, y, m, n, xLen, yLen, nLen, lx, ln, ly, made, str, cuts
<1>13. /\ type \in -1 .. 2 /\ (type = 1 => lx = Len(str)) /\ (type = 2 => lx > Len(str))
       /\ type = 0 => at \in 0 .. Len(str) /\ lx = at
  <2> DEFINE ls == Len(str)
  <2>1. ls \in Nat /\ ls \in {-1, ls} /\ lx + ly = ls + ln
    BY <1>8
  <2> HIDE DEF ls
  <2>2. /\ SplitType(xLen, yLen, ls, nLen) \in -1 .. 2
        /\ SplitType(xLen, yLen, ls, nLen) = 2 => lx > ls
        /\ SplitType(xLen, yLen, ls, nLen) = 1 => lx = ls
    BY <1>8, <1>9, <2>1 DEF SplitType, Compare
  <2>3. SplitType(xLen, yLen, ls, nLen) = 0 =>
          PrefixLen(xLen, yLen, ls, nLen) \in 0 .. ls /\ lx = PrefixLen(xLen, yLen, ls, nLen)
    BY <1>8, <1>9, <2>1 DEF SplitType, Compare, PrefixLen
  <2> QED
    BY <2>2, <2>3 DEF ls
<1> HIDE DEF type, at
<1>14. Settles(v, Option(nCut, {}), lx > LenOf(v, m), W)
  BY <1>2, <1>3, <1>5, <1>7, <1>10, <1>12, OverlapSettles DEF lx
<1>15. \A eqs, lens, b : Settles(v, Option(eqs, lens), b, W) /\ b =>
          \A e \in eqs : e \in Equalities(W) /\ Holds(v, e)
  BY DEF Settles, AllTrue, Option
<1>16. ASSUME type = 2 PROVE GoodOutcome(OneCut(pair, nCut, cuts, v), c1, c2, V, W)
  <2>1. lx > LenOf(v, m)
    BY <1>8, <1>13, <1>16
  <2> HIDE DEF nCut
  <2>2. \A e \in nCut : e \in Equalities(W) /\ Holds(v, e)
    BY <1>14, <1>15, <2>1
  <2> QED
    BY <1>2, <1>6, <1>11, <2>2, OneCutGood
<1>17. ASSUME type = 1 PROVE GoodOutcome(Exactly(pair, same, v), c1, c2, V, W)
  <2>1. same \subseteq Equalities(V) /\ EqsTrue(v, same)
    BY <1>2, <1>3, <1>7, <1>8, <1>13, <1>17, SameWay DEF lx
  <2> HIDE DEF same
  <2>2. \A e \in same : e \in Equalities(W) /\ Holds(v, e)
    BY <1>7, <2>1 DEF EqsTrue
  <2> QED
    BY <1>6, <2>2, ExactlyGood
<1>18. ASSUME type = 0
       PROVE  GoodOutcome(Exactly(pair, LeftCutAt(x, y, str, n, at), v), c1, c2, V, W)
  <2> DEFINE eqs == LeftCutAt(x, y, str, n, at)
  <2>1. eqs \subseteq Equalities(V) /\ EqsTrue(v, eqs)
    BY <1>2, <1>3, <1>7, <1>13, <1>18, LeftWay DEF lx, str, m
  <2> HIDE DEF eqs
  <2>2. \A e \in eqs : e \in Equalities(W) /\ Holds(v, e)
    BY <1>7, <2>1 DEF EqsTrue
  <2>3. GoodOutcome(Exactly(pair, eqs, v), c1, c2, V, W)
    BY <1>6, <2>2, ExactlyGood
  <2> QED
    BY <2>3 DEF eqs
<1>19. GoodOutcome(AnyOf(pair, options, cuts, cuts = {}, v), c1, c2, V, W)
  <2> DEFINE N == Len(str) + 1
             j == lx + 1
             o == Option(nCut, {})
             longer == lx > LenOf(v, m)
  <2>1. ListOf(v, lefts, N, j, W)
    BY <1>2, <1>3, <1>7, LeftCutsSettle DEF lx, str, m
  <2>2. longer <=> j \notin 1 .. N
    BY <1>8
  <2>3. Settles(v, o, longer, W)
    BY <1>14
  <2> HIDE DEF lefts, N, j, o, nCut, longer
  <2>4. /\ Typed(v, lefts, W) /\ lefts \o <<>> = lefts
        /\ Settled(v, lefts \o <<o>>, W)
    BY <2>1, <2>2, <2>3, ListSettles
  <2>5. Typed(v, options, W) /\ (cuts = {} \/ XorValues(v, options) # {})
    BY <2>4, Zenon DEF OptionIf, o, Settled
  <2> HIDE DEF options
  <2> DEFINE b == Axiom(v, KeyOf(pair[1], pair[2]), pair, options, cuts)
  <2>6. GoodOutcome(Outcome({b}, cuts, cuts = {}, v), c1, c2, V, W)
    BY <1>6, <1>11, <2>5, AnyOfGood DEF Typed
  <2> QED
    BY <2>6 DEF AnyOf
<1> DEFINE o0 == Exactly(pair, LeftCutAt(x, y, str, n, at), v)
           o1 == Exactly(pair, same, v)
           o2 == OneCut(pair, nCut, cuts, v)
           o == AnyOf(pair, options, cuts, cuts = {}, v)
<1>20. GoodOutcome(BySplitType(type, o0, o1, o2, o), c1, c2, V, W)
  <2> HIDE DEF o0, o1, o2, o
  <2> QED
    BY <1>13, <1>16, <1>17, <1>18, <1>19, BySplitTypeGood DEF o0, o1, o2, o
<1> QED
  BY <1>1, <1>20 DEF made, W

(* The lists of type 1: either cut may be missing.                         *)
LEMMA ThreeSettle ==
  ASSUME NEW W, NEW v, NEW o1, NEW o2, NEW o3, NEW b1, NEW b2, NEW b3,
         Settles(v, o1, b1, W), Settles(v, o2, b2, W), Settles(v, o3, b3, W),
         \/ b1 /\ ~ b2 /\ ~ b3
         \/ ~ b1 /\ b2 /\ ~ b3
         \/ ~ b1 /\ ~ b2 /\ b3
  PROVE  /\ Settled(v, <<o1>> \o <<o2>> \o <<o3>>, W)
         /\ Typed(v, <<>> \o <<o2>> \o <<o3>>, W)
         /\ Typed(v, <<o1>> \o <<>> \o <<o3>>, W)
         /\ Typed(v, <<>> \o <<>> \o <<o3>>, W)
<1>1. /\ <<o1>> \o <<o2>> \o <<o3>> = <<o1, o2, o3>>
      /\ <<>> \o <<o2>> \o <<o3>> = <<o2, o3>>
      /\ <<o1>> \o <<>> \o <<o3>> = <<o1, o3>>
      /\ <<>> \o <<>> \o <<o3>> = <<o3>>
  <2> DEFINE S == {o1, o2, o3}
  <2>1. \A s, t \in S : <<s>> \o <<t>> = <<s, t>>
    <3> TAKE s \in S, t \in S
    <3>1. <<s>> \in Seq(S) /\ <<t>> \in Seq(S) /\ <<s, t>> \in Seq(S)
      OBVIOUS
    <3> DEFINE l == <<s>> \o <<t>>
    <3>2. l \in Seq(S) /\ Len(l) = 2 /\ l[1] = s /\ l[2] = t
      BY <3>1
    <3> HIDE DEF l
    <3>3. l = <<s, t>>
      BY <3>1, <3>2, SeqEqual
    <3> QED
      BY <3>3 DEF l
  <2>4. <<o1, o2>> \o <<o3>> = <<o1, o2, o3>>
    <3> DEFINE l == <<o1, o2>> \o <<o3>>
    <3>1. l \in Seq(S) /\ Len(l) = 3 /\ l[1] = o1 /\ l[2] = o2 /\ l[3] = o3
      OBVIOUS
    <3>2. <<o1, o2, o3>> \in Seq(S)
      OBVIOUS
    <3> HIDE DEF l
    <3>3. l = <<o1, o2, o3>>
      BY <3>1, <3>2, SeqEqual
    <3> QED
      BY <3>3 DEF l
  <2>2. \A s : <<>> \o <<s>> = <<s>> /\ <<s>> \o <<>> = <<s>>
    <3> TAKE s
    <3>1. <<s>> \in Seq({s})
      OBVIOUS
    <3> QED
      BY <3>1, ConcatEmptySeq
  <2>3. <<>> \o <<>> = <<>>
    BY ConcatEmptySeq, EmptySeq
  <2> QED
    BY <2>1, <2>2, <2>3, <2>4
<1>2. /\ Typed(v, <<o1, o2, o3>>, W) /\ Typed(v, <<o2, o3>>, W)
      /\ Typed(v, <<o1, o3>>, W) /\ Typed(v, <<o3>>, W)
  BY DEF Typed, Settles
<1> DEFINE l == <<o1, o2, o3>>
<1>3. DOMAIN l = {1, 2, 3} /\ l[1] = o1 /\ l[2] = o2 /\ l[3] = o3
  OBVIOUS
<1> HIDE DEF l
<1>4. CASE b1 /\ ~ b2 /\ ~ b3
  <2>1. 1 \in XorValues(v, l)
    BY <1>3, <1>4, Chosen DEF Settles
  <2> QED
    BY <1>1, <1>2, <2>1 DEF Settled, l
<1>5. CASE ~ b1 /\ b2 /\ ~ b3
  <2>1. 2 \in XorValues(v, l)
    BY <1>3, <1>5, Chosen DEF Settles
  <2> QED
    BY <1>1, <1>2, <2>1 DEF Settled, l
<1>6. CASE ~ b1 /\ ~ b2 /\ b3
  <2>1. 3 \in XorValues(v, l)
    BY <1>3, <1>6, Chosen DEF Settles
  <2> QED
    BY <1>1, <1>2, <2>1 DEF Settled, l
<1> QED
  BY <1>4, <1>5, <1>6

(* Type 1, x . y = m . n.                                                  *)
LEMMA Type1Good ==
  ASSUME NEW V, NEW c1, NEW c2, Splits(c1, c2, V), NEW map, NEW known,
         ~ IsConstStr(c1[1]), ~ IsConstStr(c1[2]), ~ IsConstStr(c2[1]), ~ IsConstStr(c2[2]),
         MadeNew(MadeFor(c1, c2), V), MadeFor(c1, c2).t2 # 0
  PROVE  GoodOutcome(ProcessConcatEqType1(map, c1, c2, known), c1, c2, V,
                     WithMade(V, MadeFor(c1, c2)))
<1> DEFINE x == c1[1]
           y == c1[2]
           m == c2[1]
           n == c2[2]
           pair == <<c1, c2>>
           made == MadeFor(c1, c2)
           W == WithMade(V, made)
           t1 == made.t1
           t2 == made.t2
           p1 == Piece(StrOf(val, m), StrOf(val, x))
           p2 == Piece(StrOf(val, x), StrOf(val, m))
           u == Giving(val, t1, p1)
           v == Giving(u, t2, p2)
           xLen == LenValue(known, x)
           yLen == LenValue(known, y)
           mLen == LenValue(known, m)
           nLen == LenValue(known, n)
           yCut == Overlap(m, x, y, n, t1)
           nCut == Overlap(x, m, n, y, t2)
           Unlooped(t, a, b) == IF HasSelfCut(map, a.var, b.var) THEN {} ELSE {Cut(t, a, b)}
           yUnlooped == Unlooped(t1, m, y)
           nUnlooped == Unlooped(t2, x, n)
           yCuts == IF Allowed(map, m, y) THEN {Cut(t1, m, y)} ELSE {}
           nCuts == IF Allowed(map, x, n) THEN {Cut(t2, x, n)} ELSE {}
           same == {Eq(x, <<m>>), Eq(y, <<n>>)}
           type == SplitType(xLen, yLen, mLen, nLen)
           lx == LenOf(v, x)
           ly == LenOf(v, y)
           lm == LenOf(v, m)
           ln == LenOf(v, n)
           yLens == {lm > lx, ly > ln}
           nLens == {lx > lm, ln > ly}
           sameLens == {lx = lm, ly = ln}
           options == OptionIf(yCuts, yCut, yLens) \o OptionIf(nCuts, nCut, nLens)
                      \o <<Option(same, sameLens)>>
           refused == {} \in {yCuts, nCuts}
           cuts == yCuts \cup nCuts
<1>1. ProcessConcatEqType1(map, c1, c2, known) =
        BySplitType(type, OneCut(pair, yCut, yUnlooped, v), Exactly(pair, same, v),
                    OneCut(pair, nCut, nUnlooped, v), AnyOf(pair, options, cuts, refused, v))
  BY Zenon DEF ProcessConcatEqType1
<1>2. GoodValue(val, V) /\ Vars(V) /\ val \in Value
  BY DEF GoodValue, Splits
<1>3. /\ x \in Atoms(V) /\ y \in Atoms(V) /\ m \in Atoms(V) /\ n \in Atoms(V)
      /\ StrOf(val, x) \in Text /\ StrOf(val, m) \in Text
  BY <1>2, Sides
<1>4. /\ p1 \in Text /\ p2 \in Text
      /\ t1 \in Node \ V /\ t1 # 0 /\ t2 \in Node \ V /\ t2 # 0 /\ t1 # t2
  BY <1>3, PieceIs DEF MadeNew, Vars, Splits
<1> HIDE DEF p1, p2
<1>5. GoodValue(u, V) /\ u[t1] = p1
  BY <1>2, <1>4, GivingIs
<1> HIDE DEF u
<1>6. GoodValue(v, V) /\ v[t1] = p1 /\ v[t2] = p2
  BY <1>2, <1>4, <1>5, GivingIs
<1> HIDE DEF v
<1>7. /\ Vars(W) /\ V \subseteq W /\ t1 \in W /\ t2 \in W
      /\ Equalities(V) \subseteq Equalities(W)
      /\ v \in Value /\ HeldTrue(v, V)
      /\ \A a \in Atoms(V) : /\ StrOf(v, a) = StrOf(val, a) /\ StrOf(v, a) \in Text
                             /\ LenOf(v, a) = LenOf(val, a) /\ LenOf(v, a) \in Nat
      /\ Aligned(v, x, y, m, n) /\ SameLengths(v, x, y, m, n)
  BY <1>2, <1>6, Context, Zenon
<1> HIDE DEF W
<1>8. lx + ly = lm + ln /\ lx \in Nat /\ ly \in Nat /\ lm \in Nat /\ ln \in Nat
  BY <1>3, <1>7 DEF SameLengths
<1>9. xLen \in {-1, lx} /\ yLen \in {-1, ly} /\ mLen \in {-1, lm} /\ nLen \in {-1, ln}
  BY <1>3, <1>7, KnownLength
<1>10. /\ v[t1] = Piece(StrOf(v, m), StrOf(v, x))
       /\ v[t2] = Piece(StrOf(v, x), StrOf(v, m))
  BY <1>3, <1>6, <1>7 DEF p1, p2
<1>11. /\ \A c \in yUnlooped \cup yCuts : c.from \subseteq Node
       /\ \A c \in nUnlooped \cup nCuts : c.from \subseteq Node
  BY <1>2, <1>3, CutFrom DEF x, y, m, n
<1>12. Aligned(v, m, n, x, y)
  BY <1>7 DEF Aligned
<1> HIDE DEF x, y, m, n, xLen, yLen, mLen, nLen, lx, ln, ly, lm, made,
             yUnlooped, nUnlooped, yCuts, nCuts
<1>13. /\ type \in -1 .. 2 /\ (type = 0 => lm > lx) /\ (type = 1 => lx = lm) /\ (type = 2 => lx > lm)
  BY <1>8, <1>9 DEF SplitType, Compare
<1> HIDE DEF type
<1> DEFINE longer == lm > lx
           shorter == lx > lm
           alike == lx = lm
<1>14. /\ longer <=> ly > ln
       /\ shorter <=> ln > ly
       /\ alike <=> ly = ln
       /\ \/ longer /\ ~ shorter /\ ~ alike
          \/ ~ longer /\ shorter /\ ~ alike
          \/ ~ longer /\ ~ shorter /\ alike
  BY <1>8
<1>15. /\ (longer => yLens \subseteq {TRUE}) /\ (~ longer => yLens \subseteq {FALSE})
       /\ (shorter => nLens \subseteq {TRUE}) /\ (~ shorter => nLens \subseteq {FALSE})
       /\ (alike => sameLens \subseteq {TRUE}) /\ (~ alike => sameLens \subseteq {FALSE})
  <2> DEFINE q1 == ly > ln
             q2 == ln > ly
             q3 == ly = ln
  <2>1. /\ longer \in BOOLEAN /\ shorter \in BOOLEAN /\ alike \in BOOLEAN
        /\ q1 \in BOOLEAN /\ q2 \in BOOLEAN /\ q3 \in BOOLEAN
    BY <1>8
  <2>2. (longer <=> q1) /\ (shorter <=> q2) /\ (alike <=> q3)
    BY <1>14
  <2>3. yLens = {longer, q1} /\ nLens = {shorter, q2} /\ sameLens = {alike, q3}
    OBVIOUS
  <2> HIDE DEF longer, shorter, alike, q1, q2, q3, yLens, nLens, sameLens
  <2> QED
    BY <2>1, <2>2, <2>3, LensSettle, Zenon
<1> HIDE DEF yLens, nLens, sameLens
<1>16. Settles(v, Option(yCut, yLens), longer, W)
  BY <1>2, <1>3, <1>4, <1>7, <1>10, <1>15, OverlapSettles DEF lx, lm
<1>17. Settles(v, Option(nCut, nLens), shorter, W)
  BY <1>2, <1>3, <1>4, <1>7, <1>10, <1>12, <1>15, OverlapSettles DEF lx, lm
<1>18. Settles(v, Option(same, sameLens), alike, W)
  <2>1. /\ same \subseteq Equalities(V)
        /\ alike => EqsTrue(v, same)
        /\ ~ alike => EqsFalse(v, same)
    BY <1>2, <1>3, <1>7, SameWay DEF lx, lm
  <2> HIDE DEF alike, same
  <2> QED
    BY <1>7, <1>15, <2>1, OptionSettles
<1>19. \A eqs, lens, b : Settles(v, Option(eqs, lens), b, W) /\ b =>
          \A e \in eqs : e \in Equalities(W) /\ Holds(v, e)
  BY DEF Settles, AllTrue, Option
<1> HIDE DEF longer, shorter, alike, same, yCut, nCut
<1>20. /\ type = 0 => longer
       /\ type = 1 => alike
       /\ type = 2 => shorter
  BY <1>13 DEF longer, shorter, alike
<1>21. ASSUME type = 0 PROVE GoodOutcome(OneCut(pair, yCut, yUnlooped, v), c1, c2, V, W)
  <2>1. \A e \in yCut : e \in Equalities(W) /\ Holds(v, e)
    BY <1>16, <1>19, <1>20, <1>21
  <2> QED
    BY <1>2, <1>6, <1>11, <2>1, OneCutGood
<1>22. ASSUME type = 1 PROVE GoodOutcome(Exactly(pair, same, v), c1, c2, V, W)
  <2>1. \A e \in same : e \in Equalities(W) /\ Holds(v, e)
    BY <1>18, <1>19, <1>20, <1>22
  <2> QED
    BY <1>6, <2>1, ExactlyGood
<1>23. ASSUME type = 2 PROVE GoodOutcome(OneCut(pair, nCut, nUnlooped, v), c1, c2, V, W)
  <2>1. \A e \in nCut : e \in Equalities(W) /\ Holds(v, e)
    BY <1>17, <1>19, <1>20, <1>23
  <2> QED
    BY <1>2, <1>6, <1>11, <2>1, OneCutGood
<1>24. GoodOutcome(AnyOf(pair, options, cuts, refused, v), c1, c2, V, W)
  <2> DEFINE o1 == Option(yCut, yLens)
             o2 == Option(nCut, nLens)
             o3 == Option(same, sameLens)
  <2>1. /\ Settled(v, <<o1>> \o <<o2>> \o <<o3>>, W)
        /\ Typed(v, <<>> \o <<o2>> \o <<o3>>, W)
        /\ Typed(v, <<o1>> \o <<>> \o <<o3>>, W)
        /\ Typed(v, <<>> \o <<>> \o <<o3>>, W)
    <3>1. \/ longer /\ ~ shorter /\ ~ alike
          \/ ~ longer /\ shorter /\ ~ alike
          \/ ~ longer /\ ~ shorter /\ alike
      BY <1>14
    <3> HIDE DEF o1, o2, o3
    <3> QED
      BY <1>16, <1>17, <1>18, <3>1, ThreeSettle DEF o1, o2, o3
  <2> HIDE DEF o3
  <2>2. options = OptionIf(yCuts, yCut, yLens) \o OptionIf(nCuts, nCut, nLens) \o <<o3>>
    BY DEF o3
  <2>3. /\ OptionIf(yCuts, yCut, yLens) = IF yCuts = {} THEN <<>> ELSE <<o1>>
        /\ OptionIf(nCuts, nCut, nLens) = IF nCuts = {} THEN <<>> ELSE <<o2>>
    BY DEF OptionIf
  <2> HIDE DEF o1, o2, options
  <2>4. Typed(v, options, W) /\ (refused \/ XorValues(v, options) # {})
    <3>1. CASE yCuts # {} /\ nCuts # {}
      <4>1. options = <<o1>> \o <<o2>> \o <<o3>>
        BY <2>2, <2>3, <3>1
      <4> QED
        BY <2>1, <4>1, Zenon DEF Settled
    <3>2. CASE yCuts = {} /\ nCuts # {}
      <4>1. options = <<>> \o <<o2>> \o <<o3>>
        BY <2>2, <2>3, <3>2
      <4> QED
        BY <2>1, <3>2, <4>1, Zenon
    <3>3. CASE yCuts # {} /\ nCuts = {}
      <4>1. options = <<o1>> \o <<>> \o <<o3>>
        BY <2>2, <2>3, <3>3
      <4> QED
        BY <2>1, <3>3, <4>1, Zenon
    <3>4. CASE yCuts = {} /\ nCuts = {}
      <4>1. options = <<>> \o <<>> \o <<o3>>
        BY <2>2, <2>3, <3>4
      <4> QED
        BY <2>1, <3>4, <4>1, Zenon
    <3> QED
      BY <3>1, <3>2, <3>3, <3>4, Zenon
  <2>5. \A c \in cuts : c.from \subseteq Node
    BY <1>11
  <2> HIDE DEF cuts, refused
  <2> DEFINE b == Axiom(v, KeyOf(pair[1], pair[2]), pair, options, cuts)
  <2>6. GoodOutcome(Outcome({b}, cuts, refused, v), c1, c2, V, W)
    BY <1>6, <2>4, <2>5, AnyOfGood DEF Typed
  <2> QED
    BY <2>6 DEF AnyOf
<1> DEFINE r0 == OneCut(pair, yCut, yUnlooped, v)
           r1 == Exactly(pair, same, v)
           r2 == OneCut(pair, nCut, nUnlooped, v)
           r == AnyOf(pair, options, cuts, refused, v)
<1>25. GoodOutcome(BySplitType(type, r0, r1, r2, r), c1, c2, V, W)
  <2> HIDE DEF r0, r1, r2, r
  <2> QED
    BY <1>13, <1>21, <1>22, <1>23, <1>24, BySplitTypeGood DEF r0, r1, r2, r
<1> QED
  BY <1>1, <1>25 DEF made, W

(* Options named by what they are true of: the k-th is true, if there is   *)
(* one.                                                                    *)
LEMMA NamedSettle ==
  ASSUME NEW W, NEW v, NEW options, NEW k,
         \A j \in DOMAIN options : Settles(v, options[j], j = k, W)
  PROVE  /\ Typed(v, options, W)
         /\ k \in DOMAIN options => XorValues(v, options) # {}
<1>1. Typed(v, options, W)
  BY DEF Typed, Settles
<1>2. ASSUME k \in DOMAIN options PROVE k \in XorValues(v, options)
  <2>1. AllTrue(v, options[k]) /\ \A j \in DOMAIN options \ {k} : AllFalse(v, options[j])
    BY <1>2 DEF Settles
  <2> QED
    BY <1>2, <2>1, Chosen
<1> QED
  BY <1>1, <1>2

(* The two constants of type 6 overlap by i characters.                    *)
LEMMA OverlappingSettles ==
  ASSUME NEW V, NEW W, Vars(V), V \subseteq W, NEW v \in Value, HeldTrue(v, V),
         NEW x \in Atoms(V), NEW y \in Atoms(V), NEW m \in Atoms(V), NEW n \in Atoms(V),
         Aligned(v, x, y, m, n), IsConstStr(x), IsConstStr(n),
         NEW i \in 0 .. Len(x.str), i <= Len(n.str),
         NEW prefix, NEW suffix,
         prefix = Prefix(x.str, Len(x.str) - i), suffix = Suffix(n.str, i)
  PROVE  Settles(v, Option({Eq(m, <<Str(prefix)>>), Eq(y, <<Str(suffix)>>)},
                           {LenOf(v, m) = Len(prefix), LenOf(v, y) = Len(suffix)}),
                 LenOf(v, m) = Len(x.str) - i, W)
<1> DEFINE str1 == x.str
           str2 == n.str
           M == StrOf(v, m)
           Y == StrOf(v, y)
           e1 == Eq(m, <<Str(prefix)>>)
           e2 == Eq(y, <<Str(suffix)>>)
           b == LenOf(v, m) = Len(x.str) - i
           q1 == LenOf(v, m) = Len(prefix)
           q2 == LenOf(v, y) = Len(suffix)
<1>1. str1 \in Text /\ str2 \in Text /\ StrOf(v, x) = str1 /\ StrOf(v, n) = str2
  BY ConstString
<1>2. M \in Text /\ Y \in Text /\ LenOf(v, m) = Len(M) /\ LenOf(v, y) = Len(Y)
  BY StringOfAtom
<1>3. Cat(str1, Y) = Cat(M, str2)
  BY <1>1 DEF Aligned
<1>4. b <=> Len(M) = Len(str1) - i
  BY <1>2
<1>5. i \in 0 .. Len(str1) /\ i <= Len(str2)
      /\ prefix = Prefix(str1, Len(str1) - i) /\ suffix = Suffix(str2, i)
  OBVIOUS
<1>6. \A p \in Text : /\ Str(p) \in Atoms(V) /\ StrOf(v, Str(p)) = p
  BY AtomFacts
<1> HIDE DEF str1, str2, M, Y, b
<1>7. /\ Len(str1) \in Nat /\ Len(str2) \in Nat /\ Len(M) \in Nat /\ Len(Y) \in Nat
      /\ Len(str1) + Len(Y) = Len(M) + Len(str2)
  BY <1>1, <1>2, <1>3, SameCut, Concatenating
<1>8. /\ prefix \in Text /\ Len(prefix) = Len(str1) - i
      /\ suffix \in Text /\ Len(suffix) = Len(str2) - i
  <2>1. Len(str1) - i \in 0 .. Len(str1) /\ i \in 0 .. Len(str2)
    BY <1>5, <1>7
  <2> QED
    BY <1>1, <1>5, <2>1, Cutting
<1>9. /\ e1 \in Equalities(V) /\ (Holds(v, e1) <=> M = prefix)
      /\ e2 \in Equalities(V) /\ (Holds(v, e2) <=> Y = suffix)
  BY <1>6, <1>8, EqAtom DEF M, Y
<1>10. (b <=> q1) /\ (b <=> q2)
  <2>1. q1 <=> Len(M) = Len(str1) - i
    BY <1>2, <1>8
  <2>2. q2 <=> Len(M) = Len(str1) - i
    <3>1. Len(Y) = Len(str2) - i <=> Len(M) = Len(str1) - i
      BY <1>5, <1>7, Offsets
    <3> QED
      BY <1>2, <1>8, <3>1, Zenon
  <2> HIDE DEF q1, q2
  <2> QED
    BY <1>4, <2>1, <2>2, Zenon
<1>11. ASSUME b PROVE M = prefix /\ Y = suffix
  <2>1. Len(M) <= Len(str1)
    BY <1>4, <1>5, <1>7, <1>11
  <2>2. PICK p \in Text : Len(p) = Len(str1) - Len(M) /\ str1 = Cat(M, p) /\ str2 = Cat(p, Y)
    BY <1>1, <1>2, <1>3, <2>1, Overhang
  <2>3. Len(M) = Len(str1) - i /\ Len(p) = i
    BY <1>4, <1>5, <1>7, <1>11, <2>2
  <2>4. Prefix(str1, Len(M)) = M /\ Suffix(str2, Len(p)) = Y
    BY <1>2, <2>2, Parts
  <2> QED
    BY <1>5, <2>3, <2>4
<1>12. ASSUME ~ b PROVE M # prefix /\ Y # suffix
  BY <1>2, <1>10, <1>12
<1> HIDE DEF e1, e2
<1>13. /\ {e1, e2} \subseteq Equalities(W)
       /\ b => EqsTrue(v, {e1, e2})
       /\ ~ b => EqsFalse(v, {e1, e2})
  BY <1>9, <1>11, <1>12, Widening DEF EqsTrue, EqsFalse
<1>14. q1 \in BOOLEAN /\ q2 \in BOOLEAN
  OBVIOUS
<1> HIDE DEF q1, q2
<1>15. (b => {q1, q2} \subseteq {TRUE}) /\ (~ b => {q1, q2} \subseteq {FALSE})
  BY <1>10, <1>14, LensSettle, Zenon
<1>16. Settles(v, Option({e1, e2}, {q1, q2}), b, W)
  BY <1>13, <1>15, OptionSettles
<1> QED
  BY <1>16 DEF e1, e2, q1, q2, b

(* Type 6, "str1" . y = m . "str2".                                        *)
LEMMA Type6Good ==
  ASSUME NEW V, NEW c1, NEW c2, Splits(c1, c2, V), NEW map,
         IsConstStr(c1[1]), ~ IsConstStr(c1[2]), ~ IsConstStr(c2[1]), IsConstStr(c2[2]),
         MadeNew(MadeFor(c1, c2), V)
  PROVE  GoodOutcome(ProcessConcatEqType6(map, c1, c2), c1, c2, V,
                     WithMade(V, MadeFor(c1, c2)))
<1> DEFINE x == c1[1]
           y == c1[2]
           m == c2[1]
           n == c2[2]
           str1 == x.str
           str2 == n.str
           pair == <<c1, c2>>
           made == MadeFor(c1, c2)
           W == WithMade(V, made)
           t1 == made.t1
           v == Giving(val, t1, Piece(StrOf(val, m), str1))
           overlapLen == {i \in 0 .. Len(str1) :
                            i <= Len(str2) /\ Suffix(str1, Len(str1) - i) = Prefix(str2, i)}
           prefix(i) == Prefix(str1, Len(str1) - i)
           suffix(i) == Suffix(str2, i)
           Overlapping(i) == Option({Eq(m, <<Str(prefix(i))>>), Eq(y, <<Str(suffix(i))>>)},
                                    {LenOf(v, m) = Len(prefix(i)), LenOf(v, y) = Len(suffix(i))})
           cut == Option(Overlap(m, x, y, n, t1), {})
           cuts == IF Allowed(map, m, y) THEN {Cut(t1, m, y)} ELSE {}
           options == [i \in overlapLen \cup (IF cuts = {} THEN {} ELSE {-1}) |->
                         IF i = -1 THEN cut ELSE Overlapping(i)]
           b == Axiom(v, KeyOf(c1, c2), pair, options, cuts)
           lm == LenOf(v, m)
<1>1. ProcessConcatEqType6(map, c1, c2) = Outcome({Forgotten(b)}, {}, cuts = {}, v)
  BY Zenon DEF ProcessConcatEqType6
<1>2. GoodValue(val, V) /\ Vars(V) /\ val \in Value
  BY DEF GoodValue, Splits
<1>3. /\ x \in Atoms(V) /\ y \in Atoms(V) /\ m \in Atoms(V) /\ n \in Atoms(V)
      /\ StrOf(val, m) \in Text
  BY <1>2, Sides
<1>4. str1 \in Text /\ str2 \in Text /\ \A w : StrOf(w, x) = str1 /\ StrOf(w, n) = str2
  BY <1>2, <1>3, ConstString
<1>5. Piece(StrOf(val, m), str1) \in Text /\ t1 \in Node \ V /\ t1 # 0
  BY <1>3, <1>4, PieceIs DEF MadeNew, Vars, Splits
<1>6. GoodValue(v, V) /\ v[t1] = Piece(StrOf(val, m), str1)
  BY <1>2, <1>5, GivingIs
<1> HIDE DEF v
<1>7. /\ Vars(W) /\ V \subseteq W /\ t1 \in W
      /\ v \in Value /\ HeldTrue(v, V)
      /\ \A a \in Atoms(V) : /\ StrOf(v, a) = StrOf(val, a) /\ StrOf(v, a) \in Text
                             /\ LenOf(v, a) = LenOf(val, a) /\ LenOf(v, a) \in Nat
      /\ Aligned(v, x, y, m, n)
  BY <1>2, <1>6, Context, Zenon
<1> HIDE DEF W
<1>8. v[t1] = Piece(StrOf(v, m), StrOf(v, x))
  BY <1>3, <1>4, <1>6, <1>7
<1>9. \A c \in cuts : c.from \subseteq Node
  BY <1>2, <1>3, CutFrom DEF y, m
<1>10. IsConstStr(x) /\ IsConstStr(n)
  OBVIOUS
<1>11. Len(str1) = LenOf(v, x) /\ Len(str1) \in Nat /\ Len(str2) \in Nat /\ lm \in Nat
       /\ lm = Len(StrOf(v, m))
  BY <1>3, <1>4, <1>7, LenProperties DEF LenOf, Text
<1> HIDE DEF x, y, m, n, lm, made, cuts
<1> DEFINE k == IF lm > Len(str1) THEN -1 ELSE Len(str1) - lm
<1>12. Settles(v, cut, -1 = k, W)
  <2> DEFINE longer == LenOf(v, m) > LenOf(v, x)
             c == -1 = k
  <2>1. Settles(v, cut, longer, W)
    BY <1>2, <1>3, <1>5, <1>7, <1>8, OverlapSettles
  <2>2. (longer <=> c) /\ longer \in BOOLEAN /\ c \in BOOLEAN
    BY <1>11 DEF lm
  <2> HIDE DEF longer, c, cut
  <2>3. Settles(v, cut, c, W)
    BY <2>1, <2>2, Zenon DEF Settles
  <2> QED
    BY <2>3 DEF c
<1>13. ASSUME NEW i \in overlapLen PROVE Settles(v, Overlapping(i), i = k, W)
  <2> DEFINE c == LenOf(v, m) = Len(str1) - i
             d == i = k
  <2>1. Settles(v, Overlapping(i), c, W)
    BY <1>2, <1>3, <1>7, <1>10, OverlappingSettles
  <2>2. (c <=> d) /\ c \in BOOLEAN /\ d \in BOOLEAN
    BY <1>11 DEF lm
  <2> HIDE DEF c, d, Overlapping
  <2>3. Settles(v, Overlapping(i), d, W)
    BY <2>1, <2>2, Zenon DEF Settles
  <2> QED
    BY <2>3 DEF d
<1>14. ~ lm > Len(str1) => k \in overlapLen
  <2> SUFFICES ASSUME ~ lm > Len(str1) PROVE k \in overlapLen
    OBVIOUS
  <2> DEFINE M == StrOf(v, m)
             Y == StrOf(v, y)
  <2>1. M \in Text /\ Y \in Text /\ Cat(str1, Y) = Cat(M, str2)
    BY <1>3, <1>4, <1>7 DEF Aligned
  <2>2. Len(M) = lm /\ Len(M) <= Len(str1)
    BY <1>11
  <2> HIDE DEF M, Y, str1, str2
  <2>3. PICK p \in Text : /\ p = Suffix(str1, Len(M)) /\ Len(p) = Len(str1) - Len(M)
                          /\ str1 = Cat(M, p) /\ str2 = Cat(p, Y)
    BY <1>4, <2>1, <2>2, Overhang
  <2>4. Prefix(str2, Len(p)) = p /\ Len(str2) = Len(p) + Len(Y) /\ Len(Y) \in Nat
    BY <2>1, <2>3, Parts, Concatenating
  <2>5. k = Len(p) /\ k \in 0 .. Len(str1) /\ k <= Len(str2) /\ Len(str1) - k = Len(M)
    BY <1>11, <2>2, <2>3, <2>4
  <2> HIDE DEF k
  <2>6. Suffix(str1, Len(str1) - k) = Prefix(str2, k)
    BY <2>3, <2>4, <2>5
  <2> QED
    BY <2>5, <2>6
<1>15. k \in Int /\ (lm > Len(str1) => k = -1) /\ (k = -1 => lm > Len(str1))
  BY <1>11
<1>16. \A i \in overlapLen : i # -1
  BY <1>11
<1> HIDE DEF overlapLen, Overlapping, cut, k
<1>17. \A j \in DOMAIN options : Settles(v, options[j], j = k, W)
  <2> TAKE j \in DOMAIN options
  <2>1. CASE j = -1
    BY <1>12, <2>1
  <2>2. CASE j # -1
    <3>1. j \in overlapLen /\ options[j] = Overlapping(j)
      BY <2>2
    <3> QED
      BY <1>13, <3>1
  <2> QED
    BY <2>1, <2>2
<1>18. cuts = {} \/ k \in DOMAIN options
  BY <1>14, <1>15
<1> HIDE DEF options
<1>19. Typed(v, options, W) /\ (cuts = {} \/ XorValues(v, options) # {})
  BY <1>17, <1>18, NamedSettle
<1>20. pair[1] = c1 /\ pair[2] = c2 /\ pair \in {<<c1, c2>>, <<c2, c1>>}
  OBVIOUS
<1> HIDE DEF pair
<1>21. GoodOutcome(Outcome({Forgotten(b)}, {}, cuts = {}, v), c1, c2, V, W)
  BY <1>6, <1>9, <1>19, <1>20, AnyOfGood DEF Typed
<1> QED
  BY <1>1, <1>21 DEF made, W

-----------------------------------------------------------------------------
(* The sides of a split may change places.                                 *)
Sorts(c) == IsConstStr(c[1]) \/ IsConstStr(c[2])

LEMMA MadeForIs ==
  ASSUME NEW V, NEW c1 \in Pairs(V), NEW c2 \in Pairs(V)
  PROVE  /\ KeyOf(c1, c2) = KeyOf(c2, c1)
         /\ MadeFor(c1, c2) = IF NewKey(c1, c2)
              THEN [t1 |-> tmpStringVarCount + 1,
                    t2 |-> IF Sorts(c1) \/ Sorts(c2) THEN 0 ELSE tmpStringVarCount + 2]
              ELSE varForBreakConcat[KeyOf(c1, c2)]
         /\ MadeFor(c1, c2) = MadeFor(c2, c1)
<1>1. ASSUME NEW a \in Pairs(V), NEW b \in Pairs(V)
      PROVE  (\E e \in Range(a \o b) : IsConstStr(e)) <=> Sorts(a) \/ Sorts(b)
  <2>1. PICK a1 \in Atoms(V), a2 \in Atoms(V), b1 \in Atoms(V), b2 \in Atoms(V) :
          a = <<a1, a2>> /\ b = <<b1, b2>>
    BY DEF Pairs
  <2> DEFINE s == <<a1, a2>> \o <<b1, b2>>
             S == Atoms(V)
  <2>2. <<a1, a2>> \in Seq(S) /\ <<b1, b2>> \in Seq(S) /\ Len(<<a1, a2>>) = 2 /\ Len(<<b1, b2>>) = 2
    OBVIOUS
  <2>3. /\ Len(s) = 4 /\ DOMAIN s = 1 .. 4
        /\ s[1] = a1 /\ s[2] = a2 /\ s[3] = b1 /\ s[4] = b2
    BY <2>2
  <2> HIDE DEF s
  <2>4. \A e : e \in Range(s) <=> e \in {a1, a2, b1, b2}
    BY <2>3 DEF Range
  <2> QED
    BY <2>1, <2>4 DEF Sorts, s
<1>2. KeyOf(c1, c2) = KeyOf(c2, c1)
  BY DEF KeyOf
<1>3. ASSUME NEW a \in Pairs(V), NEW b \in Pairs(V)
      PROVE  MadeFor(a, b) = IF NewKey(a, b)
               THEN [t1 |-> tmpStringVarCount + 1,
                     t2 |-> IF Sorts(a) \/ Sorts(b) THEN 0 ELSE tmpStringVarCount + 2]
               ELSE varForBreakConcat[KeyOf(a, b)]
  <2> DEFINE p == \E e \in Range(a \o b) : IsConstStr(e)
             q == Sorts(a) \/ Sorts(b)
  <2>1. MadeFor(a, b) = IF ~ NewKey(a, b) THEN varForBreakConcat[KeyOf(a, b)]
                        ELSE [t1 |-> tmpStringVarCount + 1,
                              t2 |-> IF p THEN 0 ELSE tmpStringVarCount + 2]
    BY DEF MadeFor
  <2>2. p <=> q
    BY <1>1
  <2> HIDE DEF p, q
  <2> QED
    BY <2>1, <2>2 DEF q
<1>4. NewKey(c1, c2) <=> NewKey(c2, c1)
  BY <1>2 DEF NewKey
<1>5. MadeFor(c1, c2) = MadeFor(c2, c1)
  <2> DEFINE p == Sorts(c1) \/ Sorts(c2)
             q == Sorts(c2) \/ Sorts(c1)
  <2>1. p <=> q
    OBVIOUS
  <2> HIDE DEF p, q
  <2> QED
    BY <1>2, <1>3, <1>4, <2>1 DEF p, q
<1> QED
  BY <1>2, <1>3, <1>5, Zenon

LEMMA GoodEitherWay ==
  ASSUME NEW o, NEW c1, NEW c2, NEW V, NEW W, GoodOutcome(o, c2, c1, V, W)
  PROVE  GoodOutcome(o, c1, c2, V, W)
<1>1. KeyOf(c1, c2) = KeyOf(c2, c1)
  BY DEF KeyOf
<1>2. \A a, v : GoodAxiom(a, c2, c1, v, W) => GoodAxiom(a, c1, c2, v, W)
  BY <1>1 DEF GoodAxiom
<1> QED
  BY <1>2 DEF GoodOutcome

(* The variables a split may use: its own, and those made for its pair.    *)
Usable(V, c1, c2) == IF MakesVariables(c1, c2) THEN WithMade(V, MadeFor(c1, c2)) ELSE V

LEMMA SplitGood ==
  ASSUME NEW V, NEW c1, NEW c2, Splits(c1, c2, V), NEW map, NEW known,
         MakesVariables(c1, c2) => /\ MadeNew(MadeFor(c1, c2), V)
                                   /\ MadeFor(c1, c2).t2 = 0 => Sorts(c1) \/ Sorts(c2)
  PROVE  GoodOutcome(Split(map, c1, c2, known), c1, c2, V, Usable(V, c1, c2))
<1> DEFINE kind == <<Const(c1), Const(c2)>>
           None == <<FALSE, FALSE>>
           Left == <<TRUE, FALSE>>
           Right == <<FALSE, TRUE>>
           made == MadeFor(c1, c2)
           W == WithMade(V, made)
           T1 == ProcessConcatEqType1(map, c1, c2, known)
           T2(a, b) == ProcessConcatEqType2(map, a, b, known)
           T3(a, b) == ProcessConcatEqType3(map, a, b, known)
           T4 == ProcessConcatEqType4(c1, c2)
           T5 == ProcessConcatEqType5(c1, c2)
           T6(a, b) == ProcessConcatEqType6(map, a, b)
           Is(a, b) == Const(c1) = a /\ Const(c2) = b
<1>1. c1 \in Pairs(V) /\ c2 \in Pairs(V) /\ val \in Value
  BY DEF Splits
<1>2. Splits(c2, c1, V)
  BY DEF Splits
<1>3. MadeFor(c2, c1) = made
  BY <1>1, MadeForIs
<1>4. /\ Const(c1) = None <=> ~ IsConstStr(c1[1]) /\ ~ IsConstStr(c1[2])
      /\ Const(c1) = Left <=> IsConstStr(c1[1]) /\ ~ IsConstStr(c1[2])
      /\ Const(c1) = Right <=> ~ IsConstStr(c1[1]) /\ IsConstStr(c1[2])
      /\ Const(c2) = None <=> ~ IsConstStr(c2[1]) /\ ~ IsConstStr(c2[2])
      /\ Const(c2) = Left <=> IsConstStr(c2[1]) /\ ~ IsConstStr(c2[2])
      /\ Const(c2) = Right <=> ~ IsConstStr(c2[1]) /\ IsConstStr(c2[2])
  BY DEF Const, IsConstStr
<1>5. None # Left /\ None # Right /\ Left # Right
  OBVIOUS
<1>6. MakesVariables(c1, c2) <=> ~ Is(Left, Left) /\ ~ Is(Right, Right)
  BY DEF MakesVariables
<1>7. MakesVariables(c1, c2) => Usable(V, c1, c2) = W
  BY DEF Usable
<1>8. ~ MakesVariables(c1, c2) => Usable(V, c1, c2) = V
  BY DEF Usable
<1> DEFINE Goal(o) == GoodOutcome(o, c1, c2, V, Usable(V, c1, c2))
<1> HIDE DEF made, W
<1>9. ASSUME Is(None, None) PROVE Goal(T1)
  <2>1. MakesVariables(c1, c2) /\ made.t2 # 0
    BY <1>4, <1>5, <1>6, <1>9 DEF Sorts, made
  <2>2. GoodOutcome(T1, c1, c2, V, W)
    BY <1>4, <1>9, <2>1, Type1Good DEF made, W
  <2> QED
    BY <1>7, <2>1, <2>2
<1>10. ASSUME Is(None, Right) PROVE Goal(T2(c1, c2))
  <2>1. MakesVariables(c1, c2)
    BY <1>5, <1>6, <1>10
  <2>2. GoodOutcome(T2(c1, c2), c1, c2, V, W)
    BY <1>4, <1>10, <2>1, Type2Good DEF made, W
  <2> QED
    BY <1>7, <2>1, <2>2
<1>11. ASSUME Is(Right, None) PROVE Goal(T2(c2, c1))
  <2>1. MakesVariables(c1, c2)
    BY <1>5, <1>6, <1>11
  <2>2. GoodOutcome(T2(c2, c1), c2, c1, V, W)
    BY <1>2, <1>3, <1>4, <1>11, <2>1, Type2Good DEF made, W
  <2> QED
    BY <1>7, <2>1, <2>2, GoodEitherWay
<1>12. ASSUME Is(None, Left) PROVE Goal(T3(c1, c2))
  <2>1. MakesVariables(c1, c2)
    BY <1>5, <1>6, <1>12
  <2>2. GoodOutcome(T3(c1, c2), c1, c2, V, W)
    BY <1>4, <1>12, <2>1, Type3Good DEF made, W
  <2> QED
    BY <1>7, <2>1, <2>2
<1>13. ASSUME Is(Left, None) PROVE Goal(T3(c2, c1))
  <2>1. MakesVariables(c1, c2)
    BY <1>5, <1>6, <1>13
  <2>2. GoodOutcome(T3(c2, c1), c2, c1, V, W)
    BY <1>2, <1>3, <1>4, <1>13, <2>1, Type3Good DEF made, W
  <2> QED
    BY <1>7, <2>1, <2>2, GoodEitherWay
<1>14. ASSUME Is(Left, Left) PROVE Goal(T4)
  <2>1. ~ MakesVariables(c1, c2)
    BY <1>6, <1>14
  <2>2. GoodOutcome(T4, c1, c2, V, V)
    BY <1>4, <1>14, Type4Good
  <2> QED
    BY <1>8, <2>1, <2>2
<1>15. ASSUME Is(Right, Right) PROVE Goal(T5)
  <2>1. ~ MakesVariables(c1, c2)
    BY <1>6, <1>15
  <2>2. GoodOutcome(T5, c1, c2, V, V)
    BY <1>4, <1>15, Type5Good
  <2> QED
    BY <1>8, <2>1, <2>2
<1>16. ASSUME Is(Left, Right) PROVE Goal(T6(c1, c2))
  <2>1. MakesVariables(c1, c2)
    BY <1>5, <1>6, <1>16
  <2>2. GoodOutcome(T6(c1, c2), c1, c2, V, W)
    BY <1>4, <1>16, <2>1, Type6Good DEF made, W
  <2> QED
    BY <1>7, <2>1, <2>2
<1>17. ASSUME Is(Right, Left) PROVE Goal(T6(c2, c1))
  <2>1. MakesVariables(c1, c2)
    BY <1>5, <1>6, <1>17
  <2>2. GoodOutcome(T6(c2, c1), c2, c1, V, W)
    BY <1>2, <1>3, <1>4, <1>17, <2>1, Type6Good DEF made, W
  <2> QED
    BY <1>7, <2>1, <2>2, GoodEitherWay
<1>18. Goal(Nothing)
  BY <1>1, NothingGood DEF Nothing
<1>19. Split(map, c1, c2, known) =
         CASE Is(None, None) -> T1
           [] Is(None, Right) -> T2(c1, c2)
           [] Is(Right, None) -> T2(c2, c1)
           [] Is(None, Left) -> T3(c1, c2)
           [] Is(Left, None) -> T3(c2, c1)
           [] Is(Left, Left) -> T4
           [] Is(Right, Right) -> T5
           [] Is(Left, Right) -> T6(c1, c2)
           [] Is(Right, Left) -> T6(c2, c1)
           [] OTHER -> Nothing
  BY DEF Split
<1> HIDE DEF T1, T2, T3, T4, T5, T6, Is, Goal
<1> DEFINE s == Split(map, c1, c2, known)
<1>20. Goal(s)
  BY <1>9, <1>10, <1>11, <1>12, <1>13, <1>14, <1>15, <1>16, <1>17, <1>18, <1>19
<1> QED
  BY <1>20 DEF Goal

-----------------------------------------------------------------------------
(* The invariant: its parts, and how they survive a step.                  *)

(* What a state holds, with its parts as parameters: l the depth of scopes,*)
(* v the solution, eqs the equalities, axioms those in force, table the    *)
(* made variables of the pairs, count the last made one, loop whether a    *)
(* cut was refused.                                                        *)

(* The variables known in a scope: the input's, and those made for a pair  *)
(* that an axiom of this scope or of an outer one splits.                  *)
MadeBy(a, table) ==
  IF a.pair # <<>> /\ KeyOf(a.pair[1], a.pair[2]) \in DOMAIN table
  THEN {table[KeyOf(a.pair[1], a.pair[2])].t1, table[KeyOf(a.pair[1], a.pair[2])].t2}
  ELSE {}

Known(axioms, table, l) ==
  (0 .. NumVars) \cup UNION {MadeBy(a, table) : a \in {b \in axioms : b.level <= l}}

(* A pair of concatenations has one made variable, or two if all arguments *)
(* are variables; the key of a cut of a constant has none.                 *)
EntryOK(key, made, count) ==
  /\ made \in [t1 : 0 .. count, t2 : 0 .. count]
  /\ \/ (\A c \in key : Len(c) = 1) /\ made.t1 = 0 /\ made.t2 = 0
     \/ /\ \A c \in key : Len(c) = 2
        /\ made.t1 > NumVars /\ (made.t2 > NumVars \/ made.t2 = 0) /\ made.t1 # made.t2
        /\ made.t2 = 0 => \E c \in key : Sorts(c)

TableOK(table, count) ==
  /\ count \in NumVars .. MaxNode
  /\ \A k \in DOMAIN table : EntryOK(k, table[k], count)
  /\ \A k, j \in DOMAIN table :
       k # j => {table[k].t1, table[k].t2} \cap {table[j].t1, table[j].t2} \subseteq {0}

EqOK(e, v, V) == e.lhs \in Atoms(V) /\ e.rhs \in Terms(V) /\ Holds(v, e)

(* An axiom splits nothing, a pair of concatenations, or a constant, which *)
(* the solution then cuts in one place.                                    *)
Splitting(a) == \E c1, c2 : a.pair = <<c1, c2>> /\ Len(c1) = 2 /\ Len(c2) = 2
                            /\ a.xor \in {{}, KeyOf(c1, c2)}

CutsConst(a, v, V) ==
  \E p, q \in Atoms(V) : /\ a.pair = <<<<p>>, <<q>>>> /\ a.xor = KeyOf(<<p>>, <<q>>)
                         /\ a.choices = {LenOf(v, p) + 1}

AxiomOK(a, v, V, loop) ==
  /\ DOMAIN a = Fields /\ a.remembered \in BOOLEAN
  /\ (a.pair = <<>> /\ a.xor = {}) \/ Splitting(a) \/ CutsConst(a, v, V)
  /\ \A e \in a.eqs : e \in Equalities(V) /\ Holds(v, e)
  /\ \A c \in a.cuts : c.from \subseteq Node
  /\ loop \/ a.choices # {}

(* A pair of concatenations is split by one axiom in force at most.        *)
UniqueSplits(axioms) ==
  \A a, b \in axioms :
    (/\ Splitting(a) /\ Splitting(b)
     /\ KeyOf(a.pair[1], a.pair[2]) = KeyOf(b.pair[1], b.pair[2])) => a = b

StateOK(l, v, eqs, axioms, table, count, loop) ==
  /\ l \in 0 .. MaxLevel /\ v \in Value /\ loop \in BOOLEAN
  /\ TableOK(table, count)
  /\ \A e \in eqs : e.level \in 0 .. l /\ EqOK(e, v, Known(axioms, table, e.level))
  /\ \A a \in axioms : a.level \in 0 .. l /\ AxiomOK(a, v, Known(axioms, table, a.level), loop)
  /\ UniqueSplits(axioms)

-----------------------------------------------------------------------------
LEMMA KnownGrows ==
  ASSUME NEW axioms, NEW new, axioms \subseteq new, NEW table, NEW wider,
         \A k \in DOMAIN table : k \in DOMAIN wider /\ wider[k] = table[k],
         NEW l \in Int, NEW d \in Int, l <= d, \A a \in axioms : a.level \in Int
  PROVE  Known(axioms, table, l) \subseteq Known(new, wider, d)
<1> SUFFICES ASSUME NEW n \in Known(axioms, table, l), n \notin 0 .. NumVars
             PROVE  n \in Known(new, wider, d)
  BY DEF Known
<1>1. PICK a \in axioms : a.level <= l /\ n \in MadeBy(a, table)
  BY DEF Known
<1>2. n \in MadeBy(a, wider)
  BY <1>1 DEF MadeBy
<1>3. a \in new /\ a.level <= d
  BY <1>1
<1> QED
  BY <1>2, <1>3 DEF Known

LEMMA KnownVars ==
  ASSUME NEW axioms, NEW table, NEW count, TableOK(table, count), NEW l
  PROVE  Vars(Known(axioms, table, l))
<1>1. NumVars \in 0 .. MaxNode
  BY ConstantsAssumption, MaxNodeAssumption DEF Node
<1>2. 0 .. NumVars \subseteq 0 .. MaxNode /\ 0 \in 0 .. NumVars
  BY <1>1, MaxNodeAssumption
<1>3. ASSUME NEW a PROVE MadeBy(a, table) \subseteq 0 .. MaxNode
  <2> DEFINE k == KeyOf(a.pair[1], a.pair[2])
  <2>1. CASE k \in DOMAIN table
    <3>1. table[k] \in [t1 : 0 .. count, t2 : 0 .. count] /\ count \in 0 .. MaxNode
      BY <1>1, <2>1 DEF TableOK, EntryOK
    <3>2. table[k].t1 \in 0 .. count /\ table[k].t2 \in 0 .. count
      BY <3>1
    <3>3. table[k].t1 \in 0 .. MaxNode /\ table[k].t2 \in 0 .. MaxNode
      BY <3>1, <3>2, MaxNodeAssumption
    <3> QED
      BY <3>3 DEF MadeBy
  <2>2. CASE k \notin DOMAIN table
    BY <2>2 DEF MadeBy
  <2> QED
    BY <2>1, <2>2
<1> QED
  BY <1>2, <1>3 DEF Vars, Known

(* Axioms and equalities stay right when more variables are known and the  *)
(* solution is changed outside those that were.                            *)
Extends(v, V, w, W) == Vars(V) /\ V \subseteq W /\ \A n \in V \ {0} : w[n] = v[n]

StillOK(v, V, loop, w, W, later) ==
  /\ \A e : EqOK(e, v, V) => EqOK(e, w, W)
  /\ \A a : AxiomOK(a, v, V, loop) => AxiomOK(a, w, W, later)

LEMMA StaysOK ==
  ASSUME NEW V, NEW W, NEW v, NEW w, Extends(v, V, w, W),
         NEW loop \in BOOLEAN, NEW later \in BOOLEAN, loop => later
  PROVE  StillOK(v, V, loop, w, W, later)
<1>0. Vars(V) /\ V \subseteq W /\ \A n \in V \ {0} : v[n] = w[n]
  BY DEF Extends
<1>1. /\ \A a \in Atoms(V) : StrOf(w, a) = StrOf(v, a)
      /\ \A t \in Terms(V) : StrOfTerm(w, t) = StrOfTerm(v, t)
  BY <1>0, Agreeing
<1>2. Atoms(V) \subseteq Atoms(W) /\ Terms(V) \subseteq Terms(W) /\ Equalities(V) \subseteq Equalities(W)
  BY <1>0, Widening
<1>3. \A e : EqOK(e, v, V) => EqOK(e, w, W)
  BY <1>1, <1>2 DEF EqOK, Holds
<1>4. \A e \in Equalities(V) : Holds(v, e) => Holds(w, e)
  BY <1>1 DEF Equalities, Holds
<1>5. \A a : CutsConst(a, v, V) => CutsConst(a, w, W)
  BY <1>1, <1>2 DEF CutsConst, LenOf
<1>6. ASSUME NEW a, AxiomOK(a, v, V, loop) PROVE AxiomOK(a, w, W, later)
  <2>1. (a.pair = <<>> /\ a.xor = {}) \/ Splitting(a) \/ CutsConst(a, w, W)
    BY <1>5, <1>6, Zenon DEF AxiomOK
  <2>2. \A e \in a.eqs : e \in Equalities(W) /\ Holds(w, e)
    BY <1>2, <1>4, <1>6 DEF AxiomOK
  <2>3. later \/ a.choices # {}
    BY <1>6 DEF AxiomOK
  <2> QED
    BY <1>6, <2>1, <2>2, <2>3 DEF AxiomOK
<1> QED
  BY <1>3, <1>6 DEF StillOK

(* A step that adds axioms.                                                *)
TableGrows(table, wider) == \A k \in DOMAIN table : k \in DOMAIN wider /\ wider[k] = table[k]

ValueKept(v, w, V) == w \in Value /\ \A n \in V \ {0} : w[n] = v[n]

AxiomsOK(axioms, l, v, V, loop) == \A a \in axioms : a.level = l /\ AxiomOK(a, v, V, loop)

LEMMA StateGrows ==
  ASSUME NEW l, NEW v, NEW eqs, NEW axioms, NEW table, NEW count, NEW loop,
         StateOK(l, v, eqs, axioms, table, count, loop),
         NEW w, ValueKept(v, w, Known(axioms, table, l)),
         NEW new, NEW wider, NEW last, TableOK(wider, last), TableGrows(table, wider),
         NEW later \in BOOLEAN, loop => later,
         AxiomsOK(new, l, w, Known(axioms \cup new, wider, l), later),
         UniqueSplits(axioms \cup new)
  PROVE  StateOK(l, w, eqs, axioms \cup new, wider, last, later)
<1> DEFINE V(d) == Known(axioms, table, d)
           W(d) == Known(axioms \cup new, wider, d)
<1>1. /\ l \in 0 .. MaxLevel /\ v \in Value /\ loop \in BOOLEAN /\ TableOK(table, count)
      /\ \A e \in eqs : e.level \in 0 .. l /\ EqOK(e, v, V(e.level))
      /\ \A a \in axioms : a.level \in 0 .. l /\ AxiomOK(a, v, V(a.level), loop)
  BY DEF StateOK
<1>2. \A d \in 0 .. l : V(d) \subseteq W(d) /\ V(d) \subseteq V(l)
  <2> TAKE d \in 0 .. l
  <2>1. d \in Int /\ l \in Int /\ d <= l /\ \A a \in axioms : a.level \in Int
    BY <1>1, ConstantsAssumption
  <2> QED
    BY <2>1, KnownGrows DEF TableGrows
<1>3. \A d : Vars(V(d))
  BY <1>1, KnownVars
<1>4. \A d \in 0 .. l : \A n \in V(d) \ {0} : w[n] = v[n]
  BY <1>2 DEF ValueKept
<1> HIDE DEF V, W
<1>5. \A d \in 0 .. l : /\ \A e : EqOK(e, v, V(d)) => EqOK(e, w, W(d))
                        /\ \A a : AxiomOK(a, v, V(d), loop) => AxiomOK(a, w, W(d), later)
  <2> TAKE d \in 0 .. l
  <2>1. Vars(V(d)) /\ V(d) \subseteq W(d) /\ \A n \in V(d) \ {0} : w[n] = v[n]
    BY <1>2, <1>3, <1>4
  <2>2. StillOK(v, V(d), loop, w, W(d), later)
    BY <1>1, <2>1, StaysOK, Zenon DEF Extends
  <2> QED
    BY <2>2 DEF StillOK
<1>6. \A e \in eqs : e.level \in 0 .. l /\ EqOK(e, w, W(e.level))
  BY <1>1, <1>5
<1>7. \A a \in axioms : a.level \in 0 .. l /\ AxiomOK(a, w, W(a.level), later)
  BY <1>1, <1>5
<1>8. \A a \in new : a.level \in 0 .. l /\ AxiomOK(a, w, W(a.level), later)
  <2>1. l \in 0 .. l
    BY <1>1, ConstantsAssumption
  <2> QED
    BY <2>1 DEF W, AxiomsOK
<1> QED
  BY <1>1, <1>6, <1>7, <1>8 DEF StateOK, W, ValueKept

-----------------------------------------------------------------------------
(* The invariant: what the core holds is true in the solution, and every   *)
(* axiom in force leaves it an outcome.                                    *)
Here == Known(inForce, varForBreakConcat, sLevel)

Sound ==
  StateOK(sLevel, val, equalities, inForce, varForBreakConcat, tmpStringVarCount, loopDetected)

LEMMA SoundFacts ==
  ASSUME Sound
  PROVE  /\ sLevel \in Int /\ Vars(Here) /\ val \in Value /\ loopDetected \in BOOLEAN
         /\ HeldTrue(val, Here)
         /\ \A a \in inForce : a.level \in Int /\ a.level <= sLevel
         /\ \A e \in equalities : e.level \in Int /\ e.level <= sLevel
<1>1. /\ sLevel \in 0 .. MaxLevel /\ val \in Value /\ loopDetected \in BOOLEAN
      /\ TableOK(varForBreakConcat, tmpStringVarCount)
      /\ \A e \in equalities : /\ e.level \in 0 .. sLevel
                               /\ EqOK(e, val, Known(inForce, varForBreakConcat, e.level))
      /\ \A a \in inForce : a.level \in 0 .. sLevel
  BY DEF Sound, StateOK
<1>2. sLevel \in Int
  BY <1>1, ConstantsAssumption
<1>3. /\ \A a \in inForce : a.level \in Int /\ a.level <= sLevel
      /\ \A e \in equalities : e.level \in Int /\ e.level <= sLevel
  BY <1>1, <1>2
<1>4. Vars(Here)
  BY <1>1, KnownVars DEF Here
<1>5. HeldTrue(val, Here)
  <2> SUFFICES ASSUME NEW e \in equalities
               PROVE  e.lhs \in Atoms(Here) /\ e.rhs \in Terms(Here) /\ Holds(val, e)
    BY DEF HeldTrue
  <2> DEFINE V == Known(inForce, varForBreakConcat, e.level)
  <2>1. V \subseteq Here
    BY <1>2, <1>3, KnownGrows DEF Here
  <2>2. EqOK(e, val, V)
    BY <1>1
  <2> HIDE DEF V
  <2> QED
    BY <2>1, <2>2, Widening DEF EqOK
<1> QED
  BY <1>1, <1>2, <1>3, <1>4, <1>5

LEMMA SameEqc ==
  ASSUME Sound, NEW a \in Atoms(Here), NEW b \in Atoms(Here), InSameEqc(a, b)
  PROVE  StrOf(val, a) = StrOf(val, b)
<1>1. Vars(Here) /\ HeldTrue(val, Here)
  BY SoundFacts
<1>2. CASE EqcValue(a) = EqcValue(b)
  <2>1. StrOf(val, EqcValue(a)) = StrOf(val, a) /\ StrOf(val, EqcValue(b)) = StrOf(val, b)
    BY <1>1, EqcValueIs
  <2> QED
    BY <1>2, <2>1
<1>3. ASSUME NEW e \in equalities, NEW c, NEW d, e.lhs = c, e.rhs = <<d>>
      PROVE  StrOf(val, c) = StrOf(val, d)
  BY <1>1, <1>3, TermStrings DEF HeldTrue, Holds
<1>4. CASE \E e \in equalities : <<e.lhs, e.rhs>> \in {<<a, <<b>>>>, <<b, <<a>>>>}
  BY <1>3, <1>4
<1> QED
  BY <1>2, <1>4 DEF InSameEqc

(* A concatenation the core holds equal to an atom, and its simpler form.  *)
LEMMA ConcatIs ==
  ASSUME Sound, NEW e \in Concats
  PROVE  /\ e.lhs \in Atoms(Here) /\ e.rhs \in Pairs(Here)
         /\ e.rhs[1] \in Atoms(Here) /\ e.rhs[2] \in Atoms(Here) /\ e.rhs = <<e.rhs[1], e.rhs[2]>>
         /\ StrOfTerm(val, e.rhs) = Cat(StrOf(val, e.rhs[1]), StrOf(val, e.rhs[2]))
         /\ StrOf(val, e.lhs) = StrOfTerm(val, e.rhs)
         /\ SimplifyConcat(e.rhs) \in Terms(Here)
         /\ StrOfTerm(val, SimplifyConcat(e.rhs)) = StrOfTerm(val, e.rhs)
<1>1. Vars(Here) /\ val \in Value /\ HeldTrue(val, Here)
  BY SoundFacts
<1>2. e.lhs \in Atoms(Here) /\ e.rhs \in Terms(Here) /\ Len(e.rhs) = 2 /\ Holds(val, e)
  BY <1>1 DEF Concats, HeldTrue
<1>3. PICK a \in Atoms(Here), b \in Atoms(Here) : e.rhs = <<a, b>>
  BY <1>2 DEF Terms, Pairs
<1>4. e.rhs[1] = a /\ e.rhs[2] = b
  BY <1>3
<1>5. /\ MkConcat(a, b) \in Terms(Here)
      /\ StrOfTerm(val, MkConcat(a, b)) = Cat(StrOf(val, a), StrOf(val, b))
  BY <1>1, MkConcatIs
<1>6. StrOfTerm(val, e.rhs) = Cat(StrOf(val, a), StrOf(val, b))
  BY <1>3, TermStrings
<1>7. e.rhs \in Pairs(Here)
  BY <1>3 DEF Pairs
<1> QED
  BY <1>2, <1>3, <1>4, <1>5, <1>6, <1>7 DEF Holds, SimplifyConcat

LEMMA ReportedEqual ==
  ASSUME Sound, NEW e1 \in Concats, NEW e2 \in Concats, Reported(e1, e2)
  PROVE  StrOfTerm(val, e1.rhs) = StrOfTerm(val, e2.rhs)
<1>1. InSameEqc(e1.lhs, e2.lhs)
  BY DEF Reported
<1>2. StrOf(val, e1.lhs) = StrOf(val, e2.lhs)
  BY <1>1, SameEqc, ConcatIs
<1> QED
  BY <1>2, ConcatIs

-----------------------------------------------------------------------------
(* Axioms that split nothing, and cut nothing.                             *)
Plain(axioms) ==
  \A a \in axioms : /\ a.level = sLevel /\ a.pair = <<>> /\ a.cuts = {}
                    /\ AxiomOK(a, val, Here, loopDetected)

LEMMA PlainSingle ==
  ASSUME Sound, NEW eqs, \A e \in eqs : e \in Equalities(Here) /\ Holds(val, e)
  PROVE  Plain({Single(val, <<>>, eqs)})
<1> DEFINE a == Axiom(val, {}, <<>>, <<Option(eqs, {})>>, {})
<1>1. /\ DOMAIN a = Fields /\ a.level = sLevel /\ a.remembered \in BOOLEAN
      /\ a.pair = <<>> /\ a.xor = {} /\ a.cuts = {}
  BY AxiomIs
<1>2. a.choices = {1} /\ \A e \in a.eqs : e \in Equalities(Here) /\ Holds(val, e)
  BY OneOption
<1>3. Single(val, <<>>, eqs) = a
  BY DEF Single
<1> HIDE DEF a
<1>4. AxiomOK(a, val, Here, loopDetected)
  <2>1. loopDetected \/ a.choices # {}
    BY <1>2
  <2> QED
    BY <1>1, <1>2, <2>1 DEF AxiomOK
<1> QED
  BY <1>1, <1>3, <1>4 DEF Plain

LEMMA PlainEq ==
  ASSUME Sound, NEW a \in Atoms(Here), NEW t \in Terms(Here), StrOf(val, a) = StrOfTerm(val, t)
  PROVE  Eq(a, t) \in Equalities(Here) /\ Holds(val, Eq(a, t))
<1>1. Eq(a, t).lhs = a /\ Eq(a, t).rhs = t /\ Eq(a, t) \in Equalities(Here)
  BY DEF Eq, Equalities
<1> QED
  BY <1>1 DEF Holds

LEMMA PlainUnion ==
  /\ Plain({})
  /\ \A S, T : Plain(S) /\ Plain(T) => Plain(S \cup T)
  BY DEF Plain

LEMMA AddOnlySound ==
  ASSUME Sound, NEW axioms, Plain(axioms), AddOnly(axioms)
  PROVE  Sound'
<1>1. /\ inForce' = inForce \cup axioms
      /\ sLevel' = sLevel /\ val' = val /\ equalities' = equalities
      /\ varForBreakConcat' = varForBreakConcat /\ tmpStringVarCount' = tmpStringVarCount
      /\ loopDetected' = loopDetected
  BY DEF AddOnly, AddAxiom, theory
<1>2. /\ val \in Value /\ loopDetected \in BOOLEAN /\ sLevel \in Int
      /\ \A a \in inForce : a.level \in Int
  BY SoundFacts
<1>3. TableOK(varForBreakConcat, tmpStringVarCount) /\ UniqueSplits(inForce)
  BY DEF Sound, StateOK
<1>4. UniqueSplits(inForce \cup axioms)
  <2>1. \A a \in axioms : ~ Splitting(a)
    BY DEF Plain, Splitting
  <2> QED
    BY <1>3, <2>1 DEF UniqueSplits
<1> DEFINE W == Known(inForce \cup axioms, varForBreakConcat, sLevel)
<1>5. Here \subseteq W
  BY <1>2, KnownGrows DEF Here
<1>6. AxiomsOK(axioms, sLevel, val, W, loopDetected)
  <2>1. Extends(val, Here, val, W)
    BY <1>5, SoundFacts DEF Extends
  <2>2. StillOK(val, Here, loopDetected, val, W, loopDetected)
    BY <1>2, <2>1, StaysOK, Zenon
  <2> QED
    BY <2>2 DEF StillOK, Plain, AxiomsOK
<1>7. TableGrows(varForBreakConcat, varForBreakConcat) /\ ValueKept(val, val, Here)
  BY <1>2 DEF TableGrows, ValueKept
<1>8. StateOK(sLevel, val, equalities, inForce \cup axioms, varForBreakConcat,
              tmpStringVarCount, loopDetected)
  BY <1>2, <1>3, <1>4, <1>6, <1>7, StateGrows DEF Sound, Here
<1> QED
  BY <1>1, <1>8 DEF Sound

-----------------------------------------------------------------------------
(* Equal terms never conflict.                                             *)
LEMMA ConstAgree ==
  ASSUME NEW V, Vars(V), NEW v \in Value, NEW a \in Atoms(V), NEW b \in Atoms(V),
         NEW s \in Text, Cat(StrOf(v, a), StrOf(v, b)) = s
  PROVE  CanConcatEqStr(<<a, b>>, s)
<1>1. StrOf(v, a) \in Text /\ StrOf(v, b) \in Text
  BY StringOfAtom
<1>2. ASSUME IsConstStr(a) PROVE IsPrefix(a.str, s)
  <2>1. StrOf(v, a) = a.str
    BY <1>2 DEF StrOf
  <2> QED
    BY <1>1, <2>1, PrefixFound
<1>3. ASSUME IsConstStr(b) PROVE IsSuffix(b.str, s)
  <2>1. StrOf(v, b) = b.str
    BY <1>3 DEF StrOf
  <2> QED
    BY <1>1, <2>1, SuffixFound
<1> QED
  BY <1>2, <1>3 DEF CanConcatEqStr

LEMMA ConcatsAgree ==
  ASSUME NEW V, Vars(V), NEW v \in Value, NEW a \in Atoms(V), NEW b \in Atoms(V),
         NEW c \in Atoms(V), NEW d \in Atoms(V),
         Cat(StrOf(v, a), StrOf(v, b)) = Cat(StrOf(v, c), StrOf(v, d))
  PROVE  CanConcatEqConcat(<<a, b>>, <<c, d>>)
<1> DEFINE s == StrOf(v, a)
           t == StrOf(v, b)
           u == StrOf(v, c)
           w == StrOf(v, d)
<1>1. s \in Text /\ t \in Text /\ u \in Text /\ w \in Text
  BY StringOfAtom
<1>2. /\ IsConstStr(a) => a.str = s
      /\ IsConstStr(b) => b.str = t
      /\ IsConstStr(c) => c.str = u
      /\ IsConstStr(d) => d.str = w
  BY DEF StrOf
<1>3. Len(s) \in Nat /\ Len(u) \in Nat
  BY <1>1, LenProperties DEF Text
<1> HIDE DEF s, t, u, w
<1>4. Cat(s, t) = Cat(u, w)
  BY DEF s, t, u, w
<1>5. /\ Len(s) <= Len(u) => IsPrefix(s, u) /\ IsSuffix(w, t)
      /\ Len(u) <= Len(s) => IsPrefix(u, s) /\ IsSuffix(t, w)
  BY <1>1, <1>4, EqualBegins
<1>6. (IsPrefix(s, u) \/ IsPrefix(u, s)) /\ (IsSuffix(t, w) \/ IsSuffix(w, t))
  BY <1>3, <1>5
<1> QED
  BY <1>2, <1>6 DEF CanConcatEqConcat

LEMMA NoConflict ==
  ASSUME NEW V, Vars(V), NEW v \in Value, NEW t1 \in Terms(V), NEW t2 \in Terms(V),
         StrOfTerm(v, t1) = StrOfTerm(v, t2)
  PROVE  ~ Conflict(t1, t2)
<1>1. CASE \E a, b, c, d \in Atoms(V) : t1 = <<a, b>> /\ t2 = <<c, d>>
  <2>1. PICK a \in Atoms(V), b \in Atoms(V), c \in Atoms(V), d \in Atoms(V) :
          t1 = <<a, b>> /\ t2 = <<c, d>>
    BY <1>1
  <2>2. CanConcatEqConcat(<<a, b>>, <<c, d>>)
    BY <2>1, TermStrings, ConcatsAgree
  <2> QED
    BY <2>1, <2>2 DEF Conflict
<1>2. ASSUME NEW a \in Atoms(V), NEW b \in Atoms(V), NEW c \in Atoms(V), IsConstStr(c),
             StrOfTerm(v, <<a, b>>) = StrOfTerm(v, <<c>>)
      PROVE  CanConcatEqStr(<<a, b>>, c.str)
  <2>1. c.str \in Text /\ StrOf(v, c) = c.str
    BY <1>2, ConstString
  <2>2. Cat(StrOf(v, a), StrOf(v, b)) = c.str
    BY <1>2, <2>1, TermStrings
  <2> QED
    BY <2>1, <2>2, ConstAgree
<1>3. CASE \E a, b, c \in Atoms(V) : t1 = <<a, b>> /\ t2 = <<c>>
  <2>1. PICK a \in Atoms(V), b \in Atoms(V), c \in Atoms(V) : t1 = <<a, b>> /\ t2 = <<c>>
    BY <1>3
  <2>2. IsConstStr(c) => CanConcatEqStr(t1, c.str)
    BY <1>2, <2>1
  <2>3. Len(t1) = 2 /\ Len(t2) = 1 /\ t2[1] = c
    BY <2>1
  <2> QED
    BY <2>2, <2>3 DEF Conflict
<1>4. CASE \E a, b, c \in Atoms(V) : t1 = <<c>> /\ t2 = <<a, b>>
  <2>1. PICK a \in Atoms(V), b \in Atoms(V), c \in Atoms(V) : t1 = <<c>> /\ t2 = <<a, b>>
    BY <1>4
  <2>2. IsConstStr(c) => CanConcatEqStr(t2, c.str)
    BY <1>2, <2>1
  <2>3. Len(t1) = 1 /\ Len(t2) = 2 /\ t1[1] = c
    BY <2>1
  <2> QED
    BY <2>2, <2>3 DEF Conflict
<1>5. CASE \E a, c \in Atoms(V) : t1 = <<a>> /\ t2 = <<c>>
  <2>1. PICK a \in Atoms(V), c \in Atoms(V) : t1 = <<a>> /\ t2 = <<c>>
    BY <1>5
  <2>2. ASSUME IsConstStr(a), IsConstStr(c) PROVE a = c
    <3>1. a = Str(a.str) /\ c = Str(c.str) /\ StrOf(v, a) = a.str /\ StrOf(v, c) = c.str
      BY <2>2, AtomFacts, ConstString
    <3>2. StrOf(v, a) = StrOf(v, c)
      BY <2>1, TermStrings
    <3> QED
      BY <3>1, <3>2
  <2>3. Len(t1) = 1 /\ Len(t2) = 1 /\ t1[1] = a /\ t2[1] = c
    BY <2>1
  <2> QED
    BY <2>1, <2>2, <2>3 DEF Conflict
<1> QED
  BY <1>1, <1>3, <1>4, <1>5 DEF Terms, Pairs

-----------------------------------------------------------------------------
(* The quick paths of simplifyConcatEq, and the replacement of arguments   *)
(* known as constants.                                                     *)
LEMMA QuickPlain ==
  ASSUME Sound, NEW e1 \in Concats, NEW e2 \in Concats, Reported(e1, e2), QuickPath(e1.rhs, e2.rhs)
  PROVE  Plain(QuickAxioms(e1.rhs, e2.rhs))
<1> DEFINE c1 == e1.rhs
           c2 == e2.rhs
           other == IF InSameEqc(c1[1], c2[1]) THEN 2 ELSE 1
<1>1. /\ c1[1] \in Atoms(Here) /\ c1[2] \in Atoms(Here)
      /\ c2[1] \in Atoms(Here) /\ c2[2] \in Atoms(Here)
      /\ Cat(StrOf(val, c1[1]), StrOf(val, c1[2])) = Cat(StrOf(val, c2[1]), StrOf(val, c2[2]))
  BY ConcatIs, ReportedEqual
<1>2. Vars(Here) /\ val \in Value
  BY SoundFacts
<1> HIDE DEF c1, c2
<1>3. StrOf(val, c1[1]) = StrOf(val, c2[1]) <=> StrOf(val, c1[2]) = StrOf(val, c2[2])
  <2>1. /\ StrOf(val, c1[1]) \in Text /\ StrOf(val, c1[2]) \in Text
        /\ StrOf(val, c2[1]) \in Text /\ StrOf(val, c2[2]) \in Text
    BY <1>1, <1>2, StringOfAtom
  <2>2. /\ Len(StrOf(val, c1[1])) \in Nat /\ Len(StrOf(val, c1[2])) \in Nat
        /\ Len(StrOf(val, c2[1])) \in Nat /\ Len(StrOf(val, c2[2])) \in Nat
    BY <2>1, LenProperties DEF Text
  <2>3. /\ Len(StrOf(val, c1[1])) + Len(StrOf(val, c1[2])) = Len(StrOf(val, c2[1])) + Len(StrOf(val, c2[2]))
        /\ Len(StrOf(val, c1[1])) = Len(StrOf(val, c2[1])) =>
             StrOf(val, c1[1]) = StrOf(val, c2[1]) /\ StrOf(val, c1[2]) = StrOf(val, c2[2])
    BY <1>1, <2>1, SameCut
  <2> QED
    BY <2>2, <2>3
<1>4. other \in {1, 2} /\ StrOf(val, c1[other]) = StrOf(val, c2[other])
  <2>1. CASE InSameEqc(c1[1], c2[1])
    BY <1>1, <1>3, <2>1, SameEqc
  <2>2. CASE ~ InSameEqc(c1[1], c2[1])
    <3>1. InSameEqc(c1[2], c2[2])
      BY <2>2 DEF QuickPath, c1, c2
    <3> QED
      BY <1>1, <1>3, <2>2, <3>1, SameEqc
  <2> QED
    BY <2>1, <2>2
<1> HIDE DEF other
<1>5. c1[other] \in Atoms(Here) /\ c2[other] \in Atoms(Here)
  BY <1>1, <1>4
<1>6. \A e \in {Eq(c1[other], <<c2[other]>>)} : e \in Equalities(Here) /\ Holds(val, e)
  BY <1>4, <1>5, EqAtom
<1>7. Plain({Single(val, <<>>, {Eq(c1[other], <<c2[other]>>)})})
  BY <1>6, PlainSingle
<1> QED
  BY <1>7, PlainUnion DEF QuickAxioms, other, c1, c2

LEMMA LengthPlain ==
  ASSUME Sound, NEW e1 \in Concats, NEW e2 \in Concats, Reported(e1, e2),
         NEW known, SameLength(e1.rhs, e2.rhs, known)
  PROVE  Plain({LengthAxiom(e1.rhs, e2.rhs)})
<1> DEFINE c1 == e1.rhs
           c2 == e2.rhs
<1>1. /\ c1[1] \in Atoms(Here) /\ c1[2] \in Atoms(Here)
      /\ c2[1] \in Atoms(Here) /\ c2[2] \in Atoms(Here)
      /\ Aligned(val, c1[1], c1[2], c2[1], c2[2])
  BY ConcatIs, ReportedEqual DEF Aligned
<1>2. Vars(Here) /\ val \in Value
  BY SoundFacts
<1>3. PICK i \in 1 .. 2 : LenOf(val, c1[i]) = LenOf(val, c2[i])
  BY KnownLength DEF SameLength
<1> HIDE DEF c1, c2
<1> DEFINE eqs == {Eq(c1[1], <<c2[1]>>), Eq(c1[2], <<c2[2]>>)}
<1>4. /\ LenOf(val, c1[1]) \in Nat /\ LenOf(val, c1[2]) \in Nat
      /\ LenOf(val, c2[1]) \in Nat /\ LenOf(val, c2[2]) \in Nat
  BY <1>1, <1>2, StringOfAtom
<1>5. /\ eqs \subseteq Equalities(Here)
      /\ LenOf(val, c1[1]) = LenOf(val, c2[1]) => EqsTrue(val, eqs)
      /\ LenOf(val, c1[1]) + LenOf(val, c1[2]) = LenOf(val, c2[1]) + LenOf(val, c2[2])
  BY <1>1, <1>2, SameWay
<1>6. LenOf(val, c1[1]) = LenOf(val, c2[1])
  BY <1>3, <1>4, <1>5
<1>7. \A e \in eqs : e \in Equalities(Here) /\ Holds(val, e)
  BY <1>5, <1>6 DEF EqsTrue
<1> HIDE DEF eqs
<1>8. Plain({Single(val, <<>>, eqs)})
  BY <1>7, PlainSingle
<1> QED
  BY <1>8 DEF LengthAxiom, c1, c2, eqs

LEMMA SimplifiedPlain == ASSUME Sound, NEW e \in Concats PROVE Plain(Simplified(e))
<1>1. Eq(e.lhs, SimplifyConcat(e.rhs)) \in Equalities(Here) /\ Holds(val, Eq(e.lhs, SimplifyConcat(e.rhs)))
  BY ConcatIs, PlainEq
<1>2. Plain({Single(val, <<>>, {Eq(e.lhs, SimplifyConcat(e.rhs))})})
  BY <1>1, PlainSingle
<1> QED
  BY <1>2, PlainUnion DEF Simplified

-----------------------------------------------------------------------------
(* A concatenation that equals a constant (solve_concat_eq_str).           *)
LEMMA PartsEq ==
  ASSUME NEW V, Vars(V), NEW v \in Value, NEW a \in Atoms(V), NEW b \in Atoms(V), NEW s \in Text,
         Cat(StrOf(v, a), StrOf(v, b)) = s
  PROVE  /\ LenOf(v, a) \in 0 .. Len(s) /\ LenOf(v, b) = Len(s) - LenOf(v, a)
         /\ StrOf(v, a) = Prefix(s, LenOf(v, a)) /\ StrOf(v, b) = Suffix(s, LenOf(v, a))
         /\ Prefix(s, LenOf(v, a)) \in Text /\ Suffix(s, LenOf(v, a)) \in Text
         /\ Eq(a, <<Str(Prefix(s, LenOf(v, a)))>>) \in Equalities(V)
         /\ Holds(v, Eq(a, <<Str(Prefix(s, LenOf(v, a)))>>))
         /\ Eq(b, <<Str(Suffix(s, LenOf(v, a)))>>) \in Equalities(V)
         /\ Holds(v, Eq(b, <<Str(Suffix(s, LenOf(v, a)))>>))
<1>1. StrOf(v, a) \in Text /\ StrOf(v, b) \in Text /\ LenOf(v, a) \in Nat /\ LenOf(v, b) \in Nat
  BY StringOfAtom
<1>2. Len(s) = LenOf(v, a) + LenOf(v, b)
  BY <1>1, Concatenating DEF LenOf
<1>3. LenOf(v, a) \in 0 .. Len(s) /\ LenOf(v, b) = Len(s) - LenOf(v, a)
  BY <1>1, <1>2
<1>4. StrOf(v, a) = Prefix(s, LenOf(v, a)) /\ StrOf(v, b) = Suffix(s, LenOf(v, a))
  BY <1>1, Parts DEF LenOf
<1> DEFINE p == Prefix(s, LenOf(v, a))
           q == Suffix(s, LenOf(v, a))
<1>5. p \in Text /\ q \in Text
  BY <1>1, <1>4
<1>6. Str(p) \in Atoms(V) /\ Str(q) \in Atoms(V) /\ StrOf(v, Str(p)) = p /\ StrOf(v, Str(q)) = q
  BY <1>5, AtomFacts
<1>7. StrOf(v, a) = StrOf(v, Str(p)) /\ StrOf(v, b) = StrOf(v, Str(q))
  BY <1>4, <1>6
<1> HIDE DEF p, q
<1>8. /\ Eq(a, <<Str(p)>>) \in Equalities(V) /\ Holds(v, Eq(a, <<Str(p)>>))
      /\ Eq(b, <<Str(q)>>) \in Equalities(V) /\ Holds(v, Eq(b, <<Str(q)>>))
  BY <1>6, <1>7, EqAtom
<1> QED
  BY <1>3, <1>4, <1>5, <1>8 DEF p, q

LEMMA ConstIs ==
  ASSUME Sound, NEW e \in Concats, IsConstStr(EqcValue(e.lhs))
  PROVE  /\ EqcValue(e.lhs).str \in Text
         /\ StrOfTerm(val, e.rhs) = EqcValue(e.lhs).str
         /\ StrOfTerm(val, SimplifyConcat(e.rhs)) = EqcValue(e.lhs).str
<1>1. Vars(Here) /\ HeldTrue(val, Here) /\ e.lhs \in Atoms(Here)
  BY SoundFacts, ConcatIs
<1>2. EqcValue(e.lhs) \in Atoms(Here) /\ StrOf(val, EqcValue(e.lhs)) = StrOf(val, e.lhs)
  BY <1>1, EqcValueIs
<1>3. EqcValue(e.lhs).str \in Text /\ StrOf(val, EqcValue(e.lhs)) = EqcValue(e.lhs).str
  BY <1>1, <1>2, ConstString
<1> QED
  BY <1>2, <1>3, ConcatIs

LEMMA EmptyPlain ==
  ASSUME Sound, NEW e \in Concats, StrOfTerm(val, e.rhs) = <<>>
  PROVE  Plain({Single(val, <<>>, {Eq(e.rhs[i], <<Empty>>) : i \in 1 .. 2})})
<1> DEFINE a == e.rhs[1]
           b == e.rhs[2]
<1>1. /\ Vars(Here) /\ val \in Value /\ a \in Atoms(Here) /\ b \in Atoms(Here)
      /\ Cat(StrOf(val, a), StrOf(val, b)) = <<>>
  BY SoundFacts, ConcatIs
<1>2. <<>> \in Text /\ Len(<<>>) = 0 /\ \A s \in Text : Len(s) = 0 => s = <<>>
  BY EmptyText DEF Text
<1>3. Empty \in Atoms(Here) /\ StrOf(val, Empty) = <<>>
  BY <1>1, <1>2, AtomFacts DEF Empty
<1> HIDE DEF a, b
<1>4. StrOf(val, a) = <<>> /\ StrOf(val, b) = <<>>
  <2>1. StrOf(val, a) \in Text /\ StrOf(val, b) \in Text
    BY <1>1, StringOfAtom
  <2>2. Len(<<>>) = Len(StrOf(val, a)) + Len(StrOf(val, b))
    BY <1>1, <2>1, Concatenating
  <2>3. Len(StrOf(val, a)) \in Nat /\ Len(StrOf(val, b)) \in Nat
    BY <2>1, LenProperties DEF Text
  <2>4. Len(StrOf(val, a)) = 0 /\ Len(StrOf(val, b)) = 0
    BY <1>2, <2>2, <2>3
  <2> QED
    BY <1>2, <2>1, <2>4
<1> DEFINE eqs == {Eq(e.rhs[i], <<Empty>>) : i \in 1 .. 2}
<1>5. \A i \in 1 .. 2 : e.rhs[i] \in Atoms(Here) /\ StrOf(val, e.rhs[i]) = StrOf(val, Empty)
  BY <1>1, <1>3, <1>4 DEF a, b
<1>6. \A i \in 1 .. 2 : /\ Eq(e.rhs[i], <<Empty>>) \in Equalities(Here)
                        /\ Holds(val, Eq(e.rhs[i], <<Empty>>))
  BY <1>3, <1>5, EqAtom
<1>7. \A f \in eqs : f \in Equalities(Here) /\ Holds(val, f)
  BY <1>6
<1> HIDE DEF eqs
<1>8. Plain({Single(val, <<>>, eqs)})
  BY <1>7, PlainSingle
<1> QED
  BY <1>8 DEF eqs

LEMMA FromConstPlain ==
  ASSUME Sound, NEW t \in Terms(Here), NEW s \in Text, StrOfTerm(val, t) = s, NEW known
  PROVE  Plain(FromConst(t, s, known))
<1>1. Vars(Here) /\ val \in Value
  BY SoundFacts
<1>2. ASSUME NEW eqs, \A e \in eqs : e \in Equalities(Here) /\ Holds(val, e)
      PROVE  Plain({Single(val, <<>>, eqs)})
  BY <1>2, PlainSingle
<1>3. CASE \E a \in Atoms(Here) : t = <<a>>
  <2>1. Len(t) = 1
    BY <1>3
  <2> QED
    BY <2>1, PlainUnion DEF FromConst
<1>4. CASE t \in Pairs(Here)
  <2> DEFINE a == t[1]
             b == t[2]
  <2>1. t = <<a, b>> /\ a \in Atoms(Here) /\ b \in Atoms(Here) /\ Len(t) = 2
    BY <1>4, PairIs
  <2> HIDE DEF a, b
  <2>2. Cat(StrOf(val, a), StrOf(val, b)) = s
    BY <2>1, TermStrings
  <2>3. CanConcatEqStr(t, s)
    BY <1>1, <2>1, <2>2, ConstAgree
  <2> DEFINE k == LenOf(val, a)
             p == Eq(a, <<Str(Prefix(s, k))>>)
             q == Eq(b, <<Str(Suffix(s, k))>>)
  <2>4. /\ k \in 0 .. Len(s) /\ LenOf(val, b) = Len(s) - k /\ LenOf(val, b) \in Nat
        /\ p \in Equalities(Here) /\ Holds(val, p) /\ q \in Equalities(Here) /\ Holds(val, q)
    BY <1>1, <2>1, <2>2, PartsEq, StringOfAtom
  <2>5. Len(s) \in Nat
    BY LenProperties DEF Text
  <2>6. k = Len(s) - LenOf(val, b)
    BY <2>4, <2>5
  <2> DEFINE i == IF a \in known THEN LenOf(val, a) ELSE Len(s) - LenOf(val, b)
  <2>7. i = k
    BY <2>6
  <2> HIDE DEF p, q, k, i
  <2>8. Plain({Single(val, <<>>, {p})}) /\ Plain({Single(val, <<>>, {q})})
        /\ Plain({Single(val, <<>>, {p, q})})
    BY <1>2, <2>4
  <2> DEFINE Pb == {Single(val, <<>>, {Eq(a, <<Str(Prefix(s, Len(s) - Len(b.str)))>>)})}
             Qa == {Single(val, <<>>, {Eq(b, <<Str(Suffix(s, Len(a.str)))>>)})}
  <2>9. ASSUME IsConstStr(b) PROVE Plain(Pb)
    <3>1. b.str = StrOf(val, b)
      BY <2>9 DEF StrOf
    <3>2. Len(b.str) = LenOf(val, b)
      BY <3>1 DEF LenOf
    <3> QED
      BY <2>6, <2>8, <3>2 DEF p
  <2>10. ASSUME IsConstStr(a) PROVE Plain(Qa)
    <3>1. a.str = StrOf(val, a)
      BY <2>10 DEF StrOf
    <3>2. Len(a.str) = k
      BY <3>1 DEF LenOf, k
    <3> QED
      BY <2>8, <3>2 DEF q
  <2>11. CASE ~ IsConstStr(b) /\ ~ IsConstStr(a)
    <3>1. FromConst(t, s, known) = {Single(val, <<>>, ConstEqs(t, s, i))}
      BY <2>1, <2>3, <2>11 DEF FromConst, a, b, i
    <3>2. ConstEqs(t, s, k) = {p, q}
      BY DEF ConstEqs, a, b, p, q
    <3> QED
      BY <2>7, <2>8, <3>1, <3>2
  <2>12. CASE IsConstStr(b) /\ IsConstStr(a)
    <3>1. FromConst(t, s, known) \in {Pb, Qa}
      BY <2>1, <2>3, <2>12 DEF FromConst, a, b
    <3> QED
      BY <2>9, <2>10, <2>12, <3>1
  <2>13. CASE IsConstStr(b) /\ ~ IsConstStr(a)
    <3>1. FromConst(t, s, known) = Pb
      BY <2>1, <2>3, <2>13 DEF FromConst, a, b
    <3> QED
      BY <2>9, <2>13, <3>1
  <2>14. CASE ~ IsConstStr(b) /\ IsConstStr(a)
    <3>1. FromConst(t, s, known) = Qa
      BY <2>1, <2>3, <2>14 DEF FromConst, a, b
    <3> QED
      BY <2>10, <2>14, <3>1
  <2> QED
    BY <2>11, <2>12, <2>13, <2>14
<1> QED
  BY <1>3, <1>4 DEF Terms

-----------------------------------------------------------------------------
(* Every cut of a constant: the solution makes one place's two statements  *)
(* true, and those of every other place false.                             *)
LEMMA OnePlace ==
  ASSUME NEW V, Vars(V), NEW v \in Value, NEW a \in Atoms(V), NEW b \in Atoms(V), NEW s \in Text,
         Cat(StrOf(v, a), StrOf(v, b)) = s, NEW t, t = <<a, b>>
  PROVE  /\ XorValues(v, EveryCut(t, s)) = {LenOf(v, a) + 1}
         /\ \A k \in DOMAIN EveryCut(t, s) : \A e \in EveryCut(t, s)[k].eqs :
              Holds(v, e) => e \in Equalities(V)
<1> DEFINE options == EveryCut(t, s)
           k == LenOf(v, a) + 1
           P(i) == Eq(a, <<Str(Prefix(s, i))>>)
           Q(i) == Eq(b, <<Str(Suffix(s, i))>>)
<1>1. DOMAIN options = 1 .. Len(s) + 1 /\ Len(s) \in Nat
  BY LenProperties DEF EveryCut, Text
<1>2. \A i \in DOMAIN options : options[i].eqs = {P(i - 1), Q(i - 1)} /\ options[i].lens = {}
  <2>1. t[1] = a /\ t[2] = b
    OBVIOUS
  <2> QED
    BY <2>1 DEF EveryCut, Option, ConstEqs
<1>3. /\ LenOf(v, a) \in 0 .. Len(s) /\ LenOf(v, b) = Len(s) - LenOf(v, a)
      /\ Holds(v, P(LenOf(v, a))) /\ Holds(v, Q(LenOf(v, a)))
  BY PartsEq
<1>4. \A i \in 0 .. Len(s) :
        /\ P(i) \in Equalities(V) /\ Q(i) \in Equalities(V)
        /\ i # LenOf(v, a) => ~ Holds(v, P(i)) /\ ~ Holds(v, Q(i))
  <2> TAKE i \in 0 .. Len(s)
  <2>1. /\ Prefix(s, i) \in Text /\ Len(Prefix(s, i)) = i
        /\ Suffix(s, i) \in Text /\ Len(Suffix(s, i)) = Len(s) - i
    BY Cutting
  <2>2. /\ Str(Prefix(s, i)) \in Atoms(V) /\ StrOf(v, Str(Prefix(s, i))) = Prefix(s, i)
        /\ Str(Suffix(s, i)) \in Atoms(V) /\ StrOf(v, Str(Suffix(s, i))) = Suffix(s, i)
    BY <2>1, AtomFacts
  <2>3. /\ P(i) \in Equalities(V) /\ Q(i) \in Equalities(V)
        /\ Holds(v, P(i)) <=> StrOf(v, a) = StrOf(v, Str(Prefix(s, i)))
        /\ Holds(v, Q(i)) <=> StrOf(v, b) = StrOf(v, Str(Suffix(s, i)))
    BY <2>2, EqAtom
  <2>4. ASSUME i # LenOf(v, a)
        PROVE  StrOf(v, a) # Prefix(s, i) /\ StrOf(v, b) # Suffix(s, i)
    BY <1>1, <1>3, <2>1, <2>4 DEF LenOf
  <2> QED
    BY <2>2, <2>3, <2>4
<1> HIDE DEF options, P, Q
<1>5. k \in DOMAIN options /\ k - 1 = LenOf(v, a)
  BY <1>1, <1>3
<1>6. AllTrue(v, options[k])
  <2>1. options[k].eqs = {P(LenOf(v, a)), Q(LenOf(v, a))} /\ options[k].lens = {}
    BY <1>2, <1>5
  <2> QED
    BY <1>3, <2>1 DEF AllTrue
<1>7. \A j \in DOMAIN options \ {k} : AllFalse(v, options[j])
  <2> TAKE j \in DOMAIN options \ {k}
  <2>1. j - 1 \in 0 .. Len(s) /\ j - 1 # LenOf(v, a)
    BY <1>1, <1>3
  <2>2. ~ Holds(v, P(j - 1)) /\ ~ Holds(v, Q(j - 1))
    BY <1>4, <2>1
  <2>3. options[j].eqs = {P(j - 1), Q(j - 1)} /\ options[j].lens = {}
    BY <1>2
  <2> QED
    BY <2>2, <2>3 DEF AllFalse
<1> HIDE DEF k
<1>8. k \in XorValues(v, options)
  BY <1>5, <1>6, <1>7, Chosen
<1>9. ASSUME NEW j \in XorValues(v, options) PROVE j = k
  <2>1. j \in DOMAIN options /\ Truths(v, options[k]) \subseteq {k = j}
    BY <1>5 DEF XorValues
  <2>2. PICK e \in options[k].eqs : Holds(v, e)
    BY <1>2, <1>5, <1>6 DEF AllTrue
  <2>3. (StrOf(v, e.lhs) = StrOfTerm(v, e.rhs)) \in {k = j}
    BY <2>1, <2>2 DEF Truths
  <2> QED
    BY <2>2, <2>3 DEF Holds
<1>10. \A i \in DOMAIN options : \A e \in options[i].eqs : e \in Equalities(V)
  <2> TAKE i \in DOMAIN options
  <2>1. i - 1 \in 0 .. Len(s)
    BY <1>1
  <2> QED
    BY <1>2, <1>4, <2>1
<1> QED
  BY <1>8, <1>9, <1>10 DEF options, k

-----------------------------------------------------------------------------
LEMMA CutConstSound ==
  ASSUME Sound, NEW e \in Concats, NEW s \in Text,
         NEW t, t = SimplifyConcat(e.rhs), Len(t) = 2, StrOfTerm(val, t) = s, CutConst(t, s)
  PROVE  Sound'
<1>1. /\ sLevel \in Int /\ Vars(Here) /\ val \in Value /\ loopDetected \in BOOLEAN
      /\ \A a \in inForce : a.level \in Int
      /\ TableOK(varForBreakConcat, tmpStringVarCount) /\ UniqueSplits(inForce)
  BY SoundFacts DEF Sound, StateOK
<1>2. PICK p \in Atoms(Here), q \in Atoms(Here) : t = <<p, q>>
  BY ConcatIs DEF Terms, Pairs
<1>3. t[1] = p /\ t[2] = q
  BY <1>2
<1> DEFINE key == KeyOf(<<p>>, <<q>>)
           pair == <<<<p>>, <<q>>>>
           a == Axiom(val, key, pair, EveryCut(t, s), {})
           table == Entered(key, [t1 |-> 0, t2 |-> 0])
           W == Known(inForce \cup {a}, table, sLevel)
<1>4. /\ inForce' = inForce \cup {a} /\ varForBreakConcat' = table
      /\ sLevel' = sLevel /\ val' = val /\ equalities' = equalities
      /\ tmpStringVarCount' = tmpStringVarCount /\ loopDetected' = loopDetected
  BY <1>3 DEF CutConst, AddAxiom
<1>5. Cat(StrOf(val, p), StrOf(val, q)) = s
  BY <1>2, TermStrings
<1>6. /\ XorValues(val, EveryCut(t, s)) = {LenOf(val, p) + 1}
      /\ \A k \in DOMAIN EveryCut(t, s) : \A f \in EveryCut(t, s)[k].eqs :
           Holds(val, f) => f \in Equalities(Here)
  BY <1>1, <1>2, <1>5, OnePlace
<1>7. \A f \in a.eqs : f \in Equalities(Here) /\ Holds(val, f)
  BY <1>6, EqsOfAxiom
<1>8. /\ DOMAIN a = Fields /\ a.level = sLevel /\ a.remembered \in BOOLEAN
      /\ a.pair = pair /\ a.xor = key /\ a.cuts = {} /\ a.choices = {LenOf(val, p) + 1}
  BY <1>6, AxiomIs
<1> HIDE DEF a
<1>9. AxiomOK(a, val, Here, loopDetected)
  <2>1. CutsConst(a, val, Here)
    BY <1>8 DEF CutsConst
  <2> QED
    BY <1>7, <1>8, <2>1 DEF AxiomOK
<1>10. UniqueSplits(inForce \cup {a})
  <2>1. ~ Splitting(a)
    BY <1>8 DEF Splitting
  <2> QED
    BY <1>1, <2>1 DEF UniqueSplits
<1>11. \A c \in key : Len(c) = 1
  BY DEF KeyOf
<1> DEFINE none == [t1 |-> 0, t2 |-> 0]
<1>12. /\ DOMAIN table = {key} \cup DOMAIN varForBreakConcat
       /\ key \in DOMAIN varForBreakConcat \/ table[key] = none
       /\ TableGrows(varForBreakConcat, table)
  BY DEF Entered, TableGrows
<1>13. EntryOK(key, none, tmpStringVarCount)
  <2>1. tmpStringVarCount \in Nat
    BY <1>1, ConstantsAssumption, MaxNodeAssumption DEF TableOK, Node
  <2>2. 0 \in 0 .. tmpStringVarCount
    BY <2>1
  <2> QED
    BY <1>11, <2>2 DEF EntryOK
<1> HIDE DEF key
<1> HIDE DEF table
<1>14. table[key].t1 = 0 /\ table[key].t2 = 0
  <2>1. CASE key \in DOMAIN varForBreakConcat
    <3>1. EntryOK(key, varForBreakConcat[key], tmpStringVarCount)
      BY <1>1, <2>1 DEF TableOK
    <3>2. ~ \A c \in key : Len(c) = 2
      BY <1>11 DEF key, KeyOf
    <3> QED
      BY <1>12, <2>1, <3>1, <3>2 DEF EntryOK, TableGrows
  <2> QED
    BY <1>12, <2>1
<1>15. TableOK(table, tmpStringVarCount)
  <2>1. \A k \in DOMAIN table : EntryOK(k, table[k], tmpStringVarCount)
    <3> SUFFICES ASSUME NEW k \in DOMAIN table PROVE EntryOK(k, table[k], tmpStringVarCount)
      OBVIOUS
    <3>1. CASE k \in DOMAIN varForBreakConcat
      BY <1>1, <1>12, <3>1 DEF TableOK, TableGrows
    <3>2. CASE k \notin DOMAIN varForBreakConcat
      <4>1. k = key /\ table[k] = none
        BY <1>12, <3>2
      <4> QED
        BY <1>13, <4>1
    <3> QED
      BY <3>1, <3>2
  <2>2. ASSUME NEW k \in DOMAIN table, NEW j \in DOMAIN table, k # j
        PROVE  {table[k].t1, table[k].t2} \cap {table[j].t1, table[j].t2} \subseteq {0}
    <3>1. CASE k = key
      <4>1. table[k].t1 = 0 /\ table[k].t2 = 0
        BY <1>14, <3>1
      <4> QED
        BY <4>1
    <3>2. CASE j = key
      <4>1. table[j].t1 = 0 /\ table[j].t2 = 0
        BY <1>14, <3>2
      <4> QED
        BY <4>1
    <3>3. CASE k # key /\ j # key
      BY <1>1, <1>12, <2>2, <3>3 DEF TableOK, TableGrows
    <3> QED
      BY <3>1, <3>2, <3>3
  <2> QED
    BY <1>1, <2>1, <2>2 DEF TableOK
<1>16. Here \subseteq W
  BY <1>1, <1>12, KnownGrows DEF Here, TableGrows
<1>17. AxiomsOK({a}, sLevel, val, W, loopDetected)
  <2>1. Extends(val, Here, val, W)
    BY <1>1, <1>16 DEF Extends
  <2>2. StillOK(val, Here, loopDetected, val, W, loopDetected)
    BY <1>1, <2>1, StaysOK, Zenon
  <2> QED
    BY <1>8, <1>9, <2>2 DEF StillOK, AxiomsOK
<1>18. ValueKept(val, val, Here)
  BY <1>1 DEF ValueKept
<1>19. StateOK(sLevel, val, equalities, inForce \cup {a}, table, tmpStringVarCount, loopDetected)
  BY <1>1, <1>10, <1>12, <1>15, <1>17, <1>18, StateGrows DEF Sound, Here
<1> QED
  BY <1>4, <1>19 DEF Sound

-----------------------------------------------------------------------------
(* A pair that no axiom in force splits: its made variables are not yet    *)
(* known.                                                                  *)
Unsplit(c1, c2) ==
  /\ c1 \in Pairs(Here) /\ c2 \in Pairs(Here) /\ c1 # c2
  /\ \A a \in inForce : a.pair \notin {<<c1, c2>>, <<c2, c1>>}

LEMMA PairLength == ASSUME NEW V, NEW c \in Pairs(V) PROVE Len(c) = 2
  BY DEF Pairs

LEMMA KeyUnused ==
  ASSUME Sound, NEW c1, NEW c2, Unsplit(c1, c2), NEW a \in inForce
  PROVE  a.pair # <<>> => KeyOf(a.pair[1], a.pair[2]) # KeyOf(c1, c2)
<1>1. AxiomOK(a, val, Known(inForce, varForBreakConcat, a.level), loopDetected)
  BY DEF Sound, StateOK
<1>2. CASE \E p, q : a.pair = <<p, q>>
  BY <1>2 DEF Unsplit, KeyOf
<1>3. CASE a.pair = <<>>
  BY <1>3
<1> QED
  BY <1>1, <1>2, <1>3 DEF AxiomOK, Splitting, CutsConst

LEMMA HereBelow == ASSUME Sound PROVE Here \subseteq 0 .. tmpStringVarCount
<1>1. TableOK(varForBreakConcat, tmpStringVarCount) /\ NumVars \in Nat
  BY ConstantsAssumption, MaxNodeAssumption DEF Sound, StateOK, Node
<1>2. tmpStringVarCount \in NumVars .. MaxNode /\ MaxNode \in Nat
  BY <1>1, MaxNodeAssumption DEF TableOK
<1>3. 0 .. NumVars \subseteq 0 .. tmpStringVarCount
  BY <1>1, <1>2
<1>4. ASSUME NEW a PROVE MadeBy(a, varForBreakConcat) \subseteq 0 .. tmpStringVarCount
  <2> DEFINE k == KeyOf(a.pair[1], a.pair[2])
  <2>1. CASE k \in DOMAIN varForBreakConcat
    <3>1. varForBreakConcat[k] \in [t1 : 0 .. tmpStringVarCount, t2 : 0 .. tmpStringVarCount]
      BY <1>1, <2>1 DEF TableOK, EntryOK
    <3> QED
      BY <3>1 DEF MadeBy
  <2>2. CASE k \notin DOMAIN varForBreakConcat
    BY <2>2 DEF MadeBy
  <2> QED
    BY <2>1, <2>2
<1> QED
  BY <1>3, <1>4 DEF Here, Known

LEMMA EntryIs ==
  ASSUME NEW key, NEW made, NEW count, EntryOK(key, made, count), NEW c \in key, Len(c) = 2
  PROVE  /\ made \in [t1 : 0 .. count, t2 : 0 .. count]
         /\ made.t1 > NumVars /\ (made.t2 > NumVars \/ made.t2 = 0) /\ made.t1 # made.t2
         /\ made.t2 = 0 => \E d \in key : Sorts(d)
  BY DEF EntryOK

(* The variables of a pair that is split, new or entered before.           *)
LEMMA MadeForSplit ==
  ASSUME Sound, NEW c1, NEW c2, Unsplit(c1, c2),
         NewKey(c1, c2) => tmpStringVarCount + 2 <= MaxNode
  PROVE  /\ MadeNew(MadeFor(c1, c2), Here)
         /\ MadeFor(c1, c2).t2 = 0 => Sorts(c1) \/ Sorts(c2)
         /\ NewKey(c1, c2) =>
              LET last == IF MadeFor(c1, c2).t2 = 0 THEN MadeFor(c1, c2).t1 ELSE MadeFor(c1, c2).t2
              IN /\ last \in NumVars .. MaxNode /\ last > tmpStringVarCount
                 /\ EntryOK(KeyOf(c1, c2), MadeFor(c1, c2), last)
                 /\ MadeFor(c1, c2).t1 > tmpStringVarCount
                 /\ MadeFor(c1, c2).t2 = 0 \/ MadeFor(c1, c2).t2 > tmpStringVarCount
<1> DEFINE made == MadeFor(c1, c2)
           key == KeyOf(c1, c2)
           n == tmpStringVarCount
<1>1. /\ TableOK(varForBreakConcat, n) /\ NumVars \in Nat /\ MaxNode \in Nat
      /\ NumVars \in 1 .. MaxNode
  BY ConstantsAssumption, MaxNodeAssumption DEF Sound, StateOK, Node
<1>2. n \in NumVars .. MaxNode /\ n \in Nat
  BY <1>1 DEF TableOK
<1>3. c1 \in Pairs(Here) /\ c2 \in Pairs(Here) /\ Len(c1) = 2 /\ Len(c2) = 2
  BY PairLength DEF Unsplit
<1>4. Here \subseteq 0 .. n
  BY HereBelow
<1>5. made = IF NewKey(c1, c2)
             THEN [t1 |-> n + 1, t2 |-> IF Sorts(c1) \/ Sorts(c2) THEN 0 ELSE n + 2]
             ELSE varForBreakConcat[key]
  BY <1>3, MadeForIs
<1>6. \A c : c \in key <=> c = c1 \/ c = c2
  BY DEF KeyOf
<1> HIDE DEF made, key, n
<1>7. CASE NewKey(c1, c2)
  <2>1. n + 2 <= MaxNode
    BY <1>7 DEF n
  <2>2. made.t1 = n + 1 /\ made.t2 = (IF Sorts(c1) \/ Sorts(c2) THEN 0 ELSE n + 2)
        /\ DOMAIN made = {"t1", "t2"}
    BY <1>5, <1>7
  <2>3. /\ made.t1 \in Node \ Here /\ (made.t2 = 0 \/ made.t2 \in Node \ Here)
        /\ made.t1 # made.t2
    BY <1>2, <1>4, <2>1, <2>2, <1>1 DEF Node
  <2>4. made.t2 = 0 => Sorts(c1) \/ Sorts(c2)
    BY <1>2, <2>2
  <2> DEFINE last == IF made.t2 = 0 THEN made.t1 ELSE made.t2
  <2>5. last \in {n + 1, n + 2} /\ made.t1 \in 0 .. last /\ made.t2 \in 0 .. last
    BY <1>2, <2>2
  <2> HIDE DEF last
  <2>6. last \in NumVars .. MaxNode /\ last > n
    BY <1>1, <1>2, <2>1, <2>5
  <2>7. made \in [t1 : 0 .. last, t2 : 0 .. last]
    <3>1. made = [t1 |-> made.t1, t2 |-> made.t2]
      BY <1>5, <1>7
    <3> QED
      BY <2>5, <3>1
  <2>8. made.t1 > NumVars /\ (made.t2 > NumVars \/ made.t2 = 0)
    BY <1>1, <1>2, <2>2
  <2>9. EntryOK(key, made, last)
    BY <1>3, <1>6, <2>3, <2>4, <2>7, <2>8 DEF EntryOK
  <2>10. made.t1 > n /\ (made.t2 = 0 \/ made.t2 > n)
    BY <1>2, <2>2
  <2> QED
    BY <2>3, <2>4, <2>6, <2>9, <2>10 DEF MadeNew, made, key, n, last
<1>8. CASE ~ NewKey(c1, c2)
  <2>1. key \in DOMAIN varForBreakConcat /\ made = varForBreakConcat[key]
    BY <1>5, <1>8 DEF NewKey, key
  <2>2. EntryOK(key, made, n)
    BY <1>1, <2>1 DEF TableOK
  <2>3. /\ made \in [t1 : 0 .. n, t2 : 0 .. n]
        /\ made.t1 > NumVars /\ (made.t2 > NumVars \/ made.t2 = 0) /\ made.t1 # made.t2
        /\ made.t2 = 0 => \E d \in key : Sorts(d)
    BY <1>3, <1>6, <2>2, EntryIs
  <2>4. made.t1 \in 0 .. n /\ made.t2 \in 0 .. n
    BY <2>3
  <2>5. made.t1 \in Node /\ (made.t2 = 0 \/ made.t2 \in Node)
    BY <1>1, <1>2, <2>3, <2>4 DEF Node
  <2>6. ASSUME NEW m \in {made.t1, made.t2}, m > NumVars, m \in Here PROVE FALSE
    <3>1. m \notin 0 .. NumVars
      BY <1>1, <2>4, <2>6
    <3>2. PICK a \in inForce : m \in MadeBy(a, varForBreakConcat)
      BY <2>6, <3>1 DEF Here, Known
    <3> DEFINE j == KeyOf(a.pair[1], a.pair[2])
    <3>3. /\ a.pair # <<>> /\ j \in DOMAIN varForBreakConcat
          /\ m \in {varForBreakConcat[j].t1, varForBreakConcat[j].t2}
      BY <3>2 DEF MadeBy
    <3>4. j # key
      BY <3>3, KeyUnused DEF key
    <3> HIDE DEF j
    <3>5. {made.t1, made.t2} \cap {varForBreakConcat[j].t1, varForBreakConcat[j].t2} \subseteq {0}
      BY <1>1, <2>1, <3>3, <3>4 DEF TableOK
    <3>6. m = 0
      BY <2>6, <3>3, <3>5
    <3> QED
      BY <1>1, <2>6, <3>6
  <2>7. made.t1 \in Node \ Here /\ (made.t2 = 0 \/ made.t2 \in Node \ Here)
    BY <2>3, <2>5, <2>6
  <2>8. made.t2 = 0 => Sorts(c1) \/ Sorts(c2)
    BY <1>6, <2>3
  <2> QED
    BY <1>8, <2>3, <2>7, <2>8 DEF MadeNew, made
<1> QED
  BY <1>7, <1>8

-----------------------------------------------------------------------------
(* The table of made variables after a split.                              *)
LEMMA TableEntered ==
  ASSUME NEW table, NEW count, TableOK(table, count), NEW key, key \notin DOMAIN table,
         NEW made, NEW last \in NumVars .. MaxNode, last > count, EntryOK(key, made, last),
         made.t1 > count, made.t2 = 0 \/ made.t2 > count,
         NEW wider, wider = [k \in DOMAIN table \cup {key} |->
                               IF k \in DOMAIN table THEN table[k] ELSE made]
  PROVE  TableOK(wider, last) /\ TableGrows(table, wider) /\ wider[key] = made
<1>1. /\ count \in NumVars .. MaxNode /\ \A k \in DOMAIN table : EntryOK(k, table[k], count)
      /\ \A k, j \in DOMAIN table :
           k # j => {table[k].t1, table[k].t2} \cap {table[j].t1, table[j].t2} \subseteq {0}
      /\ NumVars \in Int /\ MaxNode \in Int
  BY ConstantsAssumption, MaxNodeAssumption DEF TableOK, Node
<1>2. /\ DOMAIN wider = DOMAIN table \cup {key} /\ wider[key] = made
      /\ \A k \in DOMAIN table : wider[k] = table[k] /\ k # key
  OBVIOUS
<1>3. ASSUME NEW k \in DOMAIN table PROVE EntryOK(k, table[k], last)
  <2>1. EntryOK(k, table[k], count)
    BY <1>1
  <2>2. table[k] \in [t1 : 0 .. count, t2 : 0 .. count]
    BY <2>1 DEF EntryOK
  <2>3. 0 .. count \subseteq 0 .. last
    BY <1>1
  <2>4. table[k] \in [t1 : 0 .. last, t2 : 0 .. last]
    BY <2>2, <2>3
  <2> QED
    BY <2>1, <2>4 DEF EntryOK
<1>4. \A k \in DOMAIN wider : EntryOK(k, wider[k], last)
  BY <1>2, <1>3
<1>5. ASSUME NEW k \in DOMAIN table
      PROVE  /\ table[k].t1 \in 0 .. count /\ table[k].t2 \in 0 .. count
             /\ {made.t1, made.t2} \cap {table[k].t1, table[k].t2} \subseteq {0}
  <2>1. table[k] \in [t1 : 0 .. count, t2 : 0 .. count]
    BY <1>1 DEF EntryOK
  <2>2. table[k].t1 \in 0 .. count /\ table[k].t2 \in 0 .. count
    BY <2>1
  <2>3. /\ made.t1 # table[k].t1 /\ made.t1 # table[k].t2
        /\ made.t2 # 0 => made.t2 # table[k].t1 /\ made.t2 # table[k].t2
    BY <1>1, <2>2
  <2> QED
    BY <2>2, <2>3
<1>6. ASSUME NEW k \in DOMAIN wider, NEW j \in DOMAIN wider, k # j
      PROVE  {wider[k].t1, wider[k].t2} \cap {wider[j].t1, wider[j].t2} \subseteq {0}
  <2>1. CASE k = key
    <3>1. j \in DOMAIN table /\ wider[j] = table[j] /\ wider[k] = made
      BY <1>2, <1>6, <2>1
    <3> QED
      BY <1>5, <3>1
  <2>2. CASE j = key
    <3>1. k \in DOMAIN table /\ wider[k] = table[k] /\ wider[j] = made
      BY <1>2, <1>6, <2>2
    <3> QED
      BY <1>5, <3>1
  <2>3. CASE k # key /\ j # key
    BY <1>1, <1>2, <1>6, <2>3
  <2> QED
    BY <2>1, <2>2, <2>3
<1> QED
  BY <1>2, <1>4, <1>6 DEF TableOK, TableGrows

(* Register.                                                               *)
LEMMA Registered ==
  ASSUME Sound, NEW c1, NEW c2, Unsplit(c1, c2), Register(c1, c2),
         MakesVariables(c1, c2) /\ NewKey(c1, c2) => tmpStringVarCount + 2 <= MaxNode
  PROVE  /\ TableOK(varForBreakConcat', tmpStringVarCount')
         /\ TableGrows(varForBreakConcat, varForBreakConcat')
         /\ MakesVariables(c1, c2) => /\ KeyOf(c1, c2) \in DOMAIN varForBreakConcat'
                                      /\ varForBreakConcat'[KeyOf(c1, c2)] = MadeFor(c1, c2)
<1> DEFINE made == MadeFor(c1, c2)
           key == KeyOf(c1, c2)
           last == IF made.t2 = 0 THEN made.t1 ELSE made.t2
<1>1. TableOK(varForBreakConcat, tmpStringVarCount)
  BY DEF Sound, StateOK
<1>2. CASE NewKey(c1, c2) /\ MakesVariables(c1, c2)
  <2>1. varForBreakConcat' = Entered(key, made) /\ tmpStringVarCount' = last
    BY <1>2 DEF Register
  <2>2. /\ last \in NumVars .. MaxNode /\ last > tmpStringVarCount /\ EntryOK(key, made, last)
        /\ made.t1 > tmpStringVarCount /\ (made.t2 = 0 \/ made.t2 > tmpStringVarCount)
    BY <1>2, MadeForSplit
  <2>3. key \notin DOMAIN varForBreakConcat
    BY <1>2 DEF NewKey
  <2> HIDE DEF made, key, last
  <2>4. /\ TableOK(varForBreakConcat', last) /\ TableGrows(varForBreakConcat, varForBreakConcat')
        /\ varForBreakConcat'[key] = made
    BY <1>1, <2>1, <2>2, <2>3, TableEntered DEF Entered
  <2>5. key \in DOMAIN varForBreakConcat'
    BY <2>1 DEF Entered
  <2> QED
    BY <2>1, <2>4, <2>5 DEF made, key
<1>3. CASE ~ (NewKey(c1, c2) /\ MakesVariables(c1, c2))
  <2>1. varForBreakConcat' = varForBreakConcat /\ tmpStringVarCount' = tmpStringVarCount
    BY <1>3 DEF Register
  <2>2. MakesVariables(c1, c2) => key \in DOMAIN varForBreakConcat /\ made = varForBreakConcat[key]
    BY <1>3 DEF NewKey, MadeFor
  <2>3. TableGrows(varForBreakConcat, varForBreakConcat)
    BY DEF TableGrows
  <2> QED
    BY <1>1, <2>1, <2>2, <2>3
<1> QED
  BY <1>2, <1>3

-----------------------------------------------------------------------------
(* What a good outcome adds is right of the state after the step.          *)
LEMMA OutcomeOK ==
  ASSUME NEW o, NEW c1, NEW c2, NEW V, NEW U, NEW W, GoodOutcome(o, c1, c2, V, U),
         Len(c1) = 2, Len(c2) = 2, o.axioms # {} => U \subseteq W,
         NEW later, later = (loopDetected \/ o.refused)
  PROVE  AxiomsOK(o.axioms, sLevel, o.val, W, later)
<1> SUFFICES ASSUME NEW a \in o.axioms
             PROVE  a.level = sLevel /\ AxiomOK(a, o.val, W, later)
  BY DEF AxiomsOK
<1>1. GoodAxiom(a, c1, c2, o.val, U) /\ (o.refused \/ a.choices # {})
  BY DEF GoodOutcome
<1>2. Equalities(U) \subseteq Equalities(W)
  BY Widening
<1>3. Splitting(a)
  <2>1. CASE a.pair = <<c1, c2>>
    BY <1>1, <2>1 DEF GoodAxiom, Splitting
  <2>2. CASE a.pair = <<c2, c1>>
    <3>1. KeyOf(c2, c1) = KeyOf(c1, c2)
      BY DEF KeyOf
    <3> QED
      BY <1>1, <2>2, <3>1 DEF GoodAxiom, Splitting
  <2> QED
    BY <1>1, <2>1, <2>2 DEF GoodAxiom
<1>4. later \/ a.choices # {}
  BY <1>1
<1> QED
  BY <1>1, <1>2, <1>3, <1>4 DEF GoodAxiom, AxiomOK

LEMMA SplitSound ==
  ASSUME Sound, NEW c1, NEW c2, Unsplit(c1, c2), StrOfTerm(val, c1) = StrOfTerm(val, c2),
         NEW known, NEW axioms, Plain(axioms), SplitConcats(c1, c2, known, axioms)
  PROVE  Sound'
<1> DEFINE outcome(nodes) == Split(CheckandInit(cutVARMap, nodes), c1, c2, known)
<1>1. PICK nodes : /\ inForce' = inForce \cup (axioms \cup outcome(nodes).axioms)
                   /\ loopDetected' = (loopDetected \/ outcome(nodes).refused)
                   /\ val' = outcome(nodes).val
  BY Zenon DEF SplitConcats, AddAxiom
<1>2. /\ MakesVariables(c1, c2) /\ NewKey(c1, c2) => tmpStringVarCount + 2 <= MaxNode
      /\ Register(c1, c2) /\ sLevel' = sLevel /\ equalities' = equalities
  BY DEF SplitConcats
<1> DEFINE o == outcome(nodes)
           U == Usable(Here, c1, c2)
<1>3. /\ sLevel \in Int /\ Vars(Here) /\ val \in Value /\ loopDetected \in BOOLEAN
      /\ HeldTrue(val, Here) /\ \A a \in inForce : a.level \in Int
      /\ UniqueSplits(inForce)
  BY SoundFacts DEF Sound, StateOK
<1>4. Splits(c1, c2, Here) /\ Len(c1) = 2 /\ Len(c2) = 2
  BY <1>3, PairLength DEF Splits, Unsplit
<1>5. MakesVariables(c1, c2) => /\ MadeNew(MadeFor(c1, c2), Here)
                                /\ MadeFor(c1, c2).t2 = 0 => Sorts(c1) \/ Sorts(c2)
  BY <1>2, MadeForSplit
<1>6. GoodOutcome(o, c1, c2, Here, U)
  BY <1>4, <1>5, SplitGood
<1>7. /\ TableOK(varForBreakConcat', tmpStringVarCount')
      /\ TableGrows(varForBreakConcat, varForBreakConcat')
      /\ MakesVariables(c1, c2) => /\ KeyOf(c1, c2) \in DOMAIN varForBreakConcat'
                                   /\ varForBreakConcat'[KeyOf(c1, c2)] = MadeFor(c1, c2)
  BY <1>2, Registered
<1> HIDE DEF outcome
<1> HIDE DEF o
<1> DEFINE new == axioms \cup o.axioms
           table == varForBreakConcat'
           later == loopDetected'
           W == Known(inForce \cup new, table, sLevel)
<1>8. later = (loopDetected \/ o.refused) /\ later \in BOOLEAN /\ (loopDetected => later)
      /\ val' = o.val /\ inForce' = inForce \cup new
  BY <1>1, <1>3 DEF o
<1>9. ValueKept(val, val', Here)
  BY <1>6, <1>8 DEF GoodOutcome, ValueKept
<1>10. Here \subseteq W
  BY <1>3, <1>7, KnownGrows DEF Here, TableGrows
<1>11. ASSUME NEW a \in o.axioms PROVE U \subseteq W
  <2>1. a.level = sLevel /\ a.pair \in {<<c1, c2>>, <<c2, c1>>}
    BY <1>6 DEF GoodOutcome, GoodAxiom
  <2>2. CASE ~ MakesVariables(c1, c2)
    BY <1>10, <2>2 DEF Usable
  <2>3. CASE MakesVariables(c1, c2)
    <3>1. a.pair # <<>> /\ KeyOf(a.pair[1], a.pair[2]) = KeyOf(c1, c2)
      <4>1. KeyOf(c2, c1) = KeyOf(c1, c2)
        BY DEF KeyOf
      <4> QED
        BY <2>1, <4>1
    <3>2. MadeBy(a, table) = {MadeFor(c1, c2).t1, MadeFor(c1, c2).t2}
      BY <1>7, <2>3, <3>1 DEF MadeBy
    <3>3. a \in {b \in inForce \cup new : b.level <= sLevel}
      BY <1>3, <2>1
    <3>4. MadeBy(a, table) \subseteq W
      BY <3>3 DEF Known
    <3> HIDE DEF W
    <3> QED
      BY <1>10, <2>3, <3>2, <3>4 DEF Usable, WithMade
  <2> QED
    BY <2>2, <2>3
<1> HIDE DEF U
<1>12. AxiomsOK(o.axioms, sLevel, val', W, later)
  <2>1. o.axioms # {} => U \subseteq W
    BY <1>11
  <2> HIDE DEF W, later
  <2>2. AxiomsOK(o.axioms, sLevel, o.val, W, later)
    BY <1>4, <1>6, <1>8, <2>1, OutcomeOK
  <2> QED
    BY <1>8, <2>2
<1>13. AxiomsOK(axioms, sLevel, val', W, later)
  <2>1. Extends(val, Here, val', W)
    BY <1>3, <1>9, <1>10 DEF Extends, ValueKept
  <2>2. StillOK(val, Here, loopDetected, val', W, later)
    <3> HIDE DEF W, later
    <3> QED
      BY <1>3, <1>8, <2>1, StaysOK
  <2> QED
    BY <2>2 DEF StillOK, Plain, AxiomsOK
<1>14. AxiomsOK(new, sLevel, val', W, later)
  BY <1>12, <1>13 DEF AxiomsOK
<1>15. UniqueSplits(inForce \cup new)
  <2> SUFFICES ASSUME NEW a \in inForce \cup new, NEW b \in inForce \cup new,
                      Splitting(a), Splitting(b),
                      KeyOf(a.pair[1], a.pair[2]) = KeyOf(b.pair[1], b.pair[2])
               PROVE  a = b
    BY DEF UniqueSplits
  <2>1. \A c \in axioms : ~ Splitting(c)
    BY DEF Plain, Splitting
  <2>2. \A c \in o.axioms : KeyOf(c.pair[1], c.pair[2]) = KeyOf(c1, c2)
    <3>1. KeyOf(c2, c1) = KeyOf(c1, c2)
      BY DEF KeyOf
    <3> QED
      BY <1>6, <3>1 DEF GoodOutcome, GoodAxiom
  <2>3. \A c \in inForce : Splitting(c) => KeyOf(c.pair[1], c.pair[2]) # KeyOf(c1, c2)
    BY KeyUnused DEF Splitting
  <2>4. \A c, d \in o.axioms : c = d
    BY <1>6 DEF GoodOutcome
  <2>5. /\ a \in inForce \/ a \in o.axioms
        /\ b \in inForce \/ b \in o.axioms
    BY <2>1
  <2> QED
    BY <1>3, <2>2, <2>3, <2>4, <2>5 DEF UniqueSplits
<1> HIDE DEF new
<1>16. StateOK(sLevel, val', equalities, inForce \cup new, table, tmpStringVarCount', later)
  <2> DEFINE w == val'
             last == tmpStringVarCount'
             K == Known(inForce, varForBreakConcat, sLevel)
  <2>1. /\ TableOK(table, last) /\ TableGrows(varForBreakConcat, table) /\ ValueKept(val, w, K)
        /\ AxiomsOK(new, sLevel, w, Known(inForce \cup new, table, sLevel), later)
        /\ UniqueSplits(inForce \cup new)
        /\ later \in BOOLEAN /\ (loopDetected => later)
        /\ StateOK(sLevel, val, equalities, inForce, varForBreakConcat, tmpStringVarCount, loopDetected)
    BY <1>7, <1>8, <1>9, <1>14, <1>15 DEF Sound, Here
  <2> HIDE DEF table, later, w, last
  <2>2. StateOK(sLevel, w, equalities, inForce \cup new, table, last, later)
    BY <2>1, StateGrows
  <2> QED
    BY <2>2 DEF w, last
<1> QED
  BY <1>2, <1>8, <1>16 DEF Sound

-----------------------------------------------------------------------------
(* The invariant holds at first, and every step keeps it.                  *)

(* The first state.                                                        *)
LEMMA SoundInit == Init => Sound
<1> SUFFICES ASSUME Init PROVE Sound
  OBVIOUS
<1>1. PICK input \in Inputs, world \in Worlds :
        /\ val = [n \in Node |-> IF n <= NumVars THEN world[n] ELSE <<>>]
        /\ \A e \in input : StrOf(val, e.lhs) = StrOfTerm(val, e.rhs)
        /\ equalities = {[level |-> 0, lhs |-> e.lhs, rhs |-> e.rhs] : e \in input}
  BY Zenon DEF Init
<1>2. /\ sLevel = 0 /\ inForce = {} /\ varForBreakConcat = <<>>
      /\ tmpStringVarCount = NumVars /\ loopDetected = FALSE
  BY DEF Init
<1>3. NumVars \in 1 .. MaxNode /\ MaxNode \in Nat /\ MaxLevel \in Nat
  BY ConstantsAssumption, MaxNodeAssumption DEF Node
<1>4. val \in Value
  <2>1. <<>> \in Text
    BY EmptyText
  <2>2. ASSUME NEW n \in Node PROVE val[n] \in Text
    <3>1. CASE n <= NumVars
      <4>1. n \in 1 .. NumVars
        BY <1>3, <3>1 DEF Node
      <4>2. world[n] \in Seq(Char)
        BY <4>1, InputsAssumption
      <4> QED
        BY <1>1, <3>1, <4>2 DEF Text
    <3>2. CASE ~ n <= NumVars
      BY <1>1, <2>1, <3>2
    <3> QED
      BY <3>1, <3>2
  <2> QED
    BY <1>1, <2>2 DEF Value
<1>5. TableOK(varForBreakConcat, tmpStringVarCount)
  <2>1. DOMAIN varForBreakConcat = {} /\ tmpStringVarCount \in NumVars .. MaxNode
    BY <1>2, <1>3
  <2> QED
    BY <2>1 DEF TableOK
<1>6. Known(inForce, varForBreakConcat, 0) = 0 .. NumVars
  BY <1>2 DEF Known
<1>7. ASSUME NEW e \in equalities
      PROVE  e.level \in 0 .. sLevel /\ EqOK(e, val, Known(inForce, varForBreakConcat, e.level))
  <2>1. PICK f \in input : e = [level |-> 0, lhs |-> f.lhs, rhs |-> f.rhs]
    BY <1>1
  <2>2. /\ f.lhs \in Atoms(0 .. NumVars) /\ f.rhs \in Seq(Atoms(0 .. NumVars))
        /\ Len(f.rhs) \in 1 .. 2
    BY InputsAssumption
  <2> DEFINE A == Atoms(0 .. NumVars)
  <2> HIDE DEF A
  <2>3. f.rhs \in Seq(A) /\ Len(f.rhs) \in 1 .. 2
    BY <2>2 DEF A
  <2>4. (\E a \in A : f.rhs = <<a>>) \/ (\E a, b \in A : f.rhs = <<a, b>>)
    BY <2>3
  <2>5. f.rhs \in Terms(0 .. NumVars)
    <3>1. Terms(0 .. NumVars) = {<<a>> : a \in A} \cup {<<a, b>> : a, b \in A}
      BY DEF Terms, Pairs, A
    <3>2. CASE \E a \in A : f.rhs = <<a>>
      BY <3>1, <3>2
    <3>3. CASE \E a, b \in A : f.rhs = <<a, b>>
      BY <3>1, <3>3
    <3> QED
      BY <2>4, <3>2, <3>3
  <2>6. Holds(val, e)
    BY <1>1, <2>1 DEF Holds
  <2>7. e.level = 0 /\ e.lhs = f.lhs /\ e.rhs = f.rhs
    BY <2>1
  <2> QED
    BY <1>2, <1>6, <2>2, <2>5, <2>6, <2>7 DEF EqOK
<1>8. UniqueSplits(inForce)
  BY <1>2 DEF UniqueSplits
<1>9. sLevel \in 0 .. MaxLevel /\ loopDetected \in BOOLEAN /\ \A a \in inForce : FALSE
  <2>1. sLevel \in 0 .. MaxLevel
    BY <1>2, <1>3
  <2>2. loopDetected \in BOOLEAN
    BY <1>2, Zenon
  <2>3. \A a \in inForce : FALSE
    BY <1>2, Zenon
  <2> QED
    BY <2>1, <2>2, <2>3
<1> QED
  BY <1>4, <1>5, <1>7, <1>8, <1>9 DEF Sound, StateOK

-----------------------------------------------------------------------------
(* The core's own steps.                                                   *)
LEMMA AdoptSound == ASSUME Sound, NEW a \in inForce, Adopt(a) PROVE Sound'
<1> DEFINE V(l) == Known(inForce, varForBreakConcat, l)
<1>1. /\ equalities' = equalities \cup
                         {[level |-> sLevel, lhs |-> q.lhs, rhs |-> q.rhs] : q \in {r \in a.eqs : ~ Held(r)}}
      /\ sLevel' = sLevel /\ val' = val /\ inForce' = inForce
      /\ varForBreakConcat' = varForBreakConcat /\ tmpStringVarCount' = tmpStringVarCount
      /\ loopDetected' = loopDetected
  BY DEF Adopt, theory
<1>2. /\ sLevel \in 0 .. MaxLevel /\ val \in Value /\ loopDetected \in BOOLEAN
      /\ TableOK(varForBreakConcat, tmpStringVarCount) /\ UniqueSplits(inForce)
      /\ \A e \in equalities : e.level \in 0 .. sLevel /\ EqOK(e, val, V(e.level))
      /\ \A b \in inForce : b.level \in 0 .. sLevel /\ AxiomOK(b, val, V(b.level), loopDetected)
  BY DEF Sound, StateOK
<1>3. sLevel \in Int /\ \A b \in inForce : b.level \in Int /\ b.level <= sLevel
  BY SoundFacts
<1>4. V(a.level) \subseteq V(sLevel)
  BY <1>3, KnownGrows
<1>5. sLevel \in 0 .. sLevel
  BY <1>2, ConstantsAssumption
<1> HIDE DEF V
<1>6. ASSUME NEW q \in a.eqs
      PROVE  EqOK([level |-> sLevel, lhs |-> q.lhs, rhs |-> q.rhs], val, V(sLevel))
  <2>1. q \in Equalities(V(a.level)) /\ Holds(val, q)
    BY <1>2 DEF AxiomOK
  <2>2. q \in Equalities(V(sLevel))
    BY <1>4, <2>1, Widening
  <2> QED
    BY <2>1, <2>2 DEF EqOK, Equalities, Holds
<1>7. \A e \in equalities' : e.level \in 0 .. sLevel /\ EqOK(e, val, V(e.level))
  BY <1>1, <1>2, <1>5, <1>6
<1>8. StateOK(sLevel, val, equalities', inForce, varForBreakConcat, tmpStringVarCount, loopDetected)
  BY <1>2, <1>7 DEF StateOK, V
<1> QED
  BY <1>1, <1>8 DEF Sound

LEMMA PushSound == ASSUME Sound, CbPush PROVE Sound'
<1>1. /\ sLevel' = sLevel + 1 /\ sLevel < MaxLevel
      /\ val' = val /\ inForce' = inForce /\ equalities' = equalities
      /\ varForBreakConcat' = varForBreakConcat /\ tmpStringVarCount' = tmpStringVarCount
      /\ loopDetected' = loopDetected
  BY DEF CbPush, theory
<1>2. sLevel \in 0 .. MaxLevel /\ MaxLevel \in Nat
  BY ConstantsAssumption DEF Sound, StateOK
<1>3. sLevel + 1 \in 0 .. MaxLevel /\ 0 .. sLevel \subseteq 0 .. sLevel + 1
  BY <1>1, <1>2
<1>4. StateOK(sLevel + 1, val, equalities, inForce, varForBreakConcat, tmpStringVarCount,
              loopDetected)
  BY <1>3 DEF Sound, StateOK
<1> QED
  BY <1>1, <1>4 DEF Sound

LEMMA PopSound == ASSUME Sound, CbPop PROVE Sound'
<1> DEFINE l == sLevel'
           left == AxiomsLeft(inForce, l)
           V(d) == Known(inForce, varForBreakConcat, d)
           W(d) == Known(left, varForBreakConcat, d)
           Kept(a) == IF a.level < l \/ a.level = 0 THEN a ELSE Forgotten(a)
<1>1. /\ l = sLevel - 1 /\ sLevel > 0
      /\ val' = val /\ inForce' = left /\ equalities' = {e \in equalities : e.level <= l}
      /\ varForBreakConcat' = varForBreakConcat /\ tmpStringVarCount' = tmpStringVarCount
      /\ loopDetected' = loopDetected
  BY DEF CbPop, theory, AxiomsLeft
<1>2. /\ sLevel \in 0 .. MaxLevel /\ val \in Value /\ loopDetected \in BOOLEAN
      /\ TableOK(varForBreakConcat, tmpStringVarCount) /\ UniqueSplits(inForce)
      /\ \A e \in equalities : e.level \in 0 .. sLevel /\ EqOK(e, val, V(e.level))
      /\ \A b \in inForce : b.level \in 0 .. sLevel /\ AxiomOK(b, val, V(b.level), loopDetected)
  BY DEF Sound, StateOK
<1>3. l \in 0 .. MaxLevel /\ l \in Int /\ \A i \in 0 .. sLevel : i <= l => i \in 0 .. l
  BY <1>1, <1>2, ConstantsAssumption
<1>4. \A a \in inForce :
        /\ DOMAIN Kept(a) = Fields /\ Kept(a).level = a.level /\ Kept(a).xor = a.xor
        /\ Kept(a).pair = a.pair /\ Kept(a).cuts = a.cuts /\ Kept(a).choices = a.choices
        /\ Kept(a).eqs = a.eqs /\ Kept(a).remembered \in BOOLEAN
  BY <1>2, ForgottenIs DEF AxiomOK
<1>5. \A b : b \in left <=> \E a \in inForce : a.level <= l /\ b = Kept(a)
  BY DEF AxiomsLeft
<1> HIDE DEF l, left, Kept
<1>6. ASSUME NEW d \in 0 .. l PROVE V(d) \subseteq W(d)
  <2> SUFFICES ASSUME NEW n \in V(d), n \notin 0 .. NumVars PROVE n \in W(d)
    BY DEF Known
  <2>1. PICK a \in inForce : a.level <= d /\ n \in MadeBy(a, varForBreakConcat)
    BY DEF Known
  <2>2. a.level \in 0 .. sLevel
    BY <1>2
  <2>3. a.level <= l
    BY <1>2, <1>3, <2>1, <2>2, ConstantsAssumption
  <2>4. /\ Kept(a) \in left /\ Kept(a).level <= d /\ n \in MadeBy(Kept(a), varForBreakConcat)
    BY <1>4, <1>5, <2>1, <2>3 DEF MadeBy
  <2> QED
    BY <2>4 DEF Known
<1> HIDE DEF V, W
<1>7. ASSUME NEW d \in 0 .. l PROVE StillOK(val, V(d), loopDetected, val, W(d), loopDetected)
  <2>1. Vars(V(d))
    BY <1>2, KnownVars DEF V
  <2>2. Extends(val, V(d), val, W(d))
    BY <1>6, <2>1 DEF Extends
  <2> QED
    BY <1>2, <2>2, StaysOK
<1>8. \A e \in equalities' : e.level \in 0 .. l /\ EqOK(e, val, W(e.level))
  BY <1>1, <1>2, <1>3, <1>7 DEF StillOK
<1>9. ASSUME NEW b \in left PROVE b.level \in 0 .. l /\ AxiomOK(b, val, W(b.level), loopDetected)
  <2>1. PICK a \in inForce : a.level <= l /\ b = Kept(a)
    BY <1>5
  <2>2. a.level \in 0 .. l /\ AxiomOK(a, val, V(a.level), loopDetected)
    BY <1>2, <1>3, <2>1
  <2>3. AxiomOK(a, val, W(a.level), loopDetected)
    BY <1>7, <2>2 DEF StillOK
  <2> DEFINE X == W(a.level)
  <2> HIDE DEF X
  <2>4. /\ DOMAIN b = Fields /\ b.level = a.level /\ b.xor = a.xor /\ b.pair = a.pair
        /\ b.cuts = a.cuts /\ b.choices = a.choices /\ b.eqs = a.eqs /\ b.remembered \in BOOLEAN
    BY <1>4, <2>1
  <2>5. Splitting(b) <=> Splitting(a)
    BY <2>4 DEF Splitting
  <2>6. CutsConst(b, val, X) <=> CutsConst(a, val, X)
    BY <2>4 DEF CutsConst
  <2>7. AxiomOK(b, val, X, loopDetected)
    BY <2>3, <2>4, <2>5, <2>6 DEF AxiomOK, X
  <2> QED
    BY <2>2, <2>4, <2>7 DEF X
<1>10. UniqueSplits(left)
  <2> SUFFICES ASSUME NEW b \in left, NEW c \in left, Splitting(b), Splitting(c),
                      KeyOf(b.pair[1], b.pair[2]) = KeyOf(c.pair[1], c.pair[2])
               PROVE  b = c
    BY DEF UniqueSplits
  <2>1. PICK a \in inForce : b = Kept(a)
    BY <1>5
  <2>2. PICK d \in inForce : c = Kept(d)
    BY <1>5
  <2>3. Splitting(a) /\ Splitting(d) /\ a.pair = b.pair /\ d.pair = c.pair
    BY <1>4, <2>1, <2>2 DEF Splitting
  <2>4. a = d
    BY <1>2, <2>3 DEF UniqueSplits
  <2> QED
    BY <2>1, <2>2, <2>4
<1>11. StateOK(l, val, equalities', left, varForBreakConcat, tmpStringVarCount, loopDetected)
  BY <1>2, <1>3, <1>8, <1>9, <1>10 DEF StateOK, W
<1> QED
  BY <1>1, <1>11 DEF Sound, l

-----------------------------------------------------------------------------
(* Past the quick paths, axioms that split nothing are added, and a pair   *)
(* that no axiom splits may be split with them.                            *)
Splittable(c1, c2) == Unsplit(c1, c2) /\ StrOfTerm(val, c1) = StrOfTerm(val, c2)

LEMMA SimplifyCases ==
  ASSUME Sound, NEW e1 \in Concats, NEW e2 \in Concats, NEW known, SimplifyEq(e1, e2, known)
  PROVE  \E axioms : /\ Plain(axioms)
                     /\ \/ AddOnly(axioms)
                        \/ \E c1, c2 : Splittable(c1, c2) /\ SplitConcats(c1, c2, known, axioms)
<1> DEFINE t1 == SimplifyConcat(e1.rhs)
           t2 == SimplifyConcat(e2.rhs)
           axioms == Simplified(e1) \cup Simplified(e2)
<1>1. /\ t1 \in Terms(Here) /\ t2 \in Terms(Here)
      /\ StrOfTerm(val, t1) = StrOfTerm(val, t2)
  BY ConcatIs, ReportedEqual DEF SimplifyEq
<1>2. ~ Conflict(t1, t2)
  BY <1>1, NoConflict, SoundFacts
<1>3. Plain(axioms) /\ Plain(axioms \cup {})
  BY SimplifiedPlain, PlainUnion
<1>4. \A a \in inForce : a.pair \notin {<<t1, t2>>, <<t2, t1>>}
  BY DEF SimplifyEq, Reported
<1>5. \/ AddOnly(axioms \cup {})
      \/ t1 # t2 /\ Len(t1) = 2 /\ Len(t2) = 2 /\ SplitConcats(t1, t2, known, axioms)
  BY <1>2, Zenon DEF SimplifyEq
<1> HIDE DEF t1, t2, axioms
<1>6. ASSUME t1 # t2, Len(t1) = 2, Len(t2) = 2 PROVE Splittable(t1, t2)
  <2>1. t1 \in Pairs(Here) /\ t2 \in Pairs(Here)
    BY <1>1, <1>6 DEF Terms
  <2> QED
    BY <1>1, <1>4, <1>6, <2>1 DEF Unsplit, Splittable
<1> QED
  BY <1>3, <1>5, <1>6

LEMMA SimplifySound ==
  ASSUME Sound, NEW e1 \in Concats, NEW e2 \in Concats, NEW known, SimplifyEq(e1, e2, known)
  PROVE  Sound'
  BY SimplifyCases, AddOnlySound, SplitSound DEF Splittable

LEMMA SolveSound ==
  ASSUME Sound, NEW e \in Concats, NEW known, SolveConcatEqStr(e, known)
  PROVE  Sound'
<1> DEFINE t == SimplifyConcat(e.rhs)
           s == EqcValue(e.lhs).str
           simpler == IF t = <<Str(s)>> THEN {} ELSE Simplified(e)
           empty == {Single(val, <<>>, {Eq(e.rhs[i], <<Empty>>) : i \in 1 .. 2})}
<1>1. IsConstStr(EqcValue(e.lhs))
  BY DEF SolveConcatEqStr
<1>2. s \in Text /\ StrOfTerm(val, e.rhs) = s /\ StrOfTerm(val, t) = s /\ t \in Terms(Here)
  BY <1>1, ConstIs, ConcatIs
<1>3. \/ s = <<>> /\ AddOnly(empty)
      \/ AddOnly(simpler \cup FromConst(t, s, known))
      \/ Len(t) = 2 /\ CutConst(t, s)
  BY Zenon DEF SolveConcatEqStr
<1>4. Plain(simpler)
  BY SimplifiedPlain, PlainUnion
<1> HIDE DEF s, simpler
<1>5. CASE s = <<>> /\ AddOnly(empty)
  <2>1. Plain(empty)
    BY <1>2, <1>5, EmptyPlain
  <2> HIDE DEF empty
  <2> QED
    BY <1>5, <2>1, AddOnlySound
<1>6. CASE AddOnly(simpler \cup FromConst(t, s, known))
  <2>1. Plain(FromConst(t, s, known))
    BY <1>2, FromConstPlain
  <2>2. Plain(simpler \cup FromConst(t, s, known))
    BY <1>4, <2>1, PlainUnion
  <2> QED
    BY <1>6, <2>2, AddOnlySound
<1>7. CASE Len(t) = 2 /\ CutConst(t, s)
  BY <1>2, <1>7, CutConstSound
<1> QED
  BY <1>3, <1>5, <1>6, <1>7

LEMMA SoundNext == Sound /\ [Next]_vars => Sound'
<1> SUFFICES ASSUME Sound, [Next]_vars PROVE Sound'
  OBVIOUS
<1>1. ASSUME NEW e1 \in Concats, NEW e2 \in Concats, QuickEq(e1, e2) PROVE Sound'
  <2>1. Plain(QuickAxioms(e1.rhs, e2.rhs))
    BY <1>1, QuickPlain DEF QuickEq
  <2> QED
    BY <1>1, <2>1, AddOnlySound DEF QuickEq
<1>2. ASSUME NEW e1 \in Concats, NEW e2 \in Concats, NEW known, SameLengthEq(e1, e2, known)
      PROVE  Sound'
  <2>1. Plain({LengthAxiom(e1.rhs, e2.rhs)})
    BY <1>2, LengthPlain DEF SameLengthEq
  <2> QED
    BY <1>2, <2>1, AddOnlySound DEF SameLengthEq
<1>3. CASE UNCHANGED vars
  BY <1>3 DEF vars, theory, Sound
<1> QED
  BY <1>1, <1>2, <1>3, SimplifySound, SolveSound, AdoptSound, PushSound, PopSound DEF Next

(* An answer UNSAT is right, for every input, every solution of it and     *)
(* every order of reports, splits and scopes: the axioms never rule out a  *)
(* solution, with no cut refused, unless the same two arguments are cut by *)
(* constants in either order and share an xor variable.                    *)
THEOREM SolutionsKept == Spec => [](Swapped \/ NoSolutionLost)
<1>1. Sound => Swapped \/ NoSolutionLost
  <2> SUFFICES ASSUME Sound, ~ Swapped, ~ loopDetected, NEW a \in inForce
               PROVE  /\ a.choices # {}
                      /\ a.xor # {} => \E k \in a.choices :
                           \A b \in {c \in inForce : c.xor = a.xor} : k \in b.choices
    BY DEF NoSolutionLost
  <2>1. \A b \in inForce : AxiomOK(b, val, Known(inForce, varForBreakConcat, b.level), loopDetected)
    BY DEF Sound, StateOK
  <2>2. a.choices # {}
    BY <2>1 DEF AxiomOK
  <2>3. ASSUME a.xor # {} PROVE \A b \in inForce : b.xor = a.xor => b.choices = a.choices
    <3> SUFFICES ASSUME NEW b \in inForce, b.xor = a.xor PROVE b.choices = a.choices
      OBVIOUS
    <3>1. a.pair = b.pair
      BY <2>3 DEF Swapped
    <3>2. CASE Splitting(a)
      <4>1. Splitting(b)
        BY <2>3, <3>1, <3>2 DEF Splitting
      <4>2. a = b
        BY <3>1, <3>2, <4>1 DEF Sound, StateOK, UniqueSplits
      <4> QED
        BY <4>2
    <3>3. CASE ~ Splitting(a)
      <4>1. PICK p, q : a.pair = <<<<p>>, <<q>>>> /\ a.choices = {LenOf(val, p) + 1}
        BY <2>1, <2>3, <3>3 DEF AxiomOK, CutsConst
      <4>2. ~ Splitting(b)
        BY <3>1, <4>1 DEF Splitting
      <4>3. PICK m, n : b.pair = <<<<m>>, <<n>>>> /\ b.choices = {LenOf(val, m) + 1}
        BY <2>1, <2>3, <4>2 DEF AxiomOK, CutsConst
      <4>4. <<p>> = <<m>>
        <5> DEFINE P == <<p>>
                   Q == <<q>>
                   M == <<m>>
                   N == <<n>>
        <5>1. a.pair = <<P, Q>> /\ b.pair = <<M, N>>
          BY <4>1, <4>3
        <5> HIDE DEF P, Q, M, N
        <5>2. a.pair[1] = P /\ b.pair[1] = M
          BY <5>1
        <5>3. P = M
          BY <3>1, <5>2
        <5> QED
          BY <5>3 DEF P, M
      <4>5. p = m
        BY <4>4
      <4> QED
        BY <4>1, <4>3, <4>5
    <3> QED
      BY <3>2, <3>3
  <2> QED
    BY <2>2, <2>3
<1> QED
  BY SoundInit, SoundNext, <1>1, PTL DEF Spec

-----------------------------------------------------------------------------
(* Types.                                                                  *)

(* The cut information holds sets of variables.                            *)
MapOK == \A n \in Node : cutVARMap[n] \subseteq Entry

LEMMA TopVarsIn ==
  ASSUME NEW S, NEW stack, \A e \in stack : e.vars \subseteq S
  PROVE  TopVars(stack) \subseteq S
  BY DEF TopVars

LEMMA WithCutEntry ==
  ASSUME NEW stack, stack \subseteq Entry, NEW l \in Int, NEW S, S \subseteq Node
  PROVE  WithCut(stack, l, S) \subseteq Entry
<1>1. \A e \in stack : e.vars \subseteq Node
  BY DEF Entry
<1>2. TopVars(stack) \subseteq Node
  BY <1>1, TopVarsIn
<1> DEFINE T == TopVars(stack) \cup S
<1>3. T \in SUBSET Node
  BY <1>2
<1> HIDE DEF T
<1>4. [level |-> l, vars |-> T] \in Entry
  BY <1>3 DEF Entry
<1> QED
  BY <1>4 DEF WithCut, T

(* The variables cut by a split are variables.                             *)
LEMMA CutsFromNodes ==
  ASSUME Sound, NEW c1, NEW c2, Splittable(c1, c2),
         MakesVariables(c1, c2) /\ NewKey(c1, c2) => tmpStringVarCount + 2 <= MaxNode,
         NEW map, NEW known
  PROVE  \A c \in Split(map, c1, c2, known).cuts : c.from \subseteq Node
<1> DEFINE o == Split(map, c1, c2, known)
           U == Usable(Here, c1, c2)
<1>1. Splits(c1, c2, Here)
  BY SoundFacts DEF Splits, Splittable, Unsplit
<1>2. GoodOutcome(o, c1, c2, Here, U)
  BY <1>1, MadeForSplit, SplitGood DEF Splittable
<1>3. o.cuts \subseteq CutsOf(o.axioms)
  BY SplitRecorded DEF Recorded
<1> HIDE DEF o
<1>4. \A a \in o.axioms : \A c \in a.cuts : c.from \subseteq Node
  BY <1>2 DEF GoodOutcome, GoodAxiom
<1>5. \A c \in o.cuts : c.from \subseteq Node
  BY <1>3, <1>4 DEF CutsOf
<1> QED
  BY <1>5 DEF o

LEMMA CheckandInitEntry ==
  ASSUME NEW map, NEW nodes, \A n \in Node : map[n] \subseteq Entry
  PROVE  \A n \in Node : CheckandInit(map, nodes)[n] \subseteq Entry
<1> TAKE n \in Node
<1>1. WithCut({}, -1, {n}) \subseteq Entry
  BY WithCutEntry
<1> QED
  BY <1>1 DEF CheckandInit

LEMMA MergeCutsEntry ==
  ASSUME NEW map, NEW cuts, sLevel \in Int, \A n \in Node : map[n] \subseteq Entry,
         \A c \in cuts : c.from \subseteq Node
  PROVE  \A n \in Node : MergeCuts(map, cuts)[n] \subseteq Entry
<1> TAKE n \in Node
<1> DEFINE from == UNION {c.from : c \in {d \in cuts : d.new = n}}
           S == UNION {TopVars(map[src]) : src \in from}
<1>1. \A m \in Node : TopVars(map[m]) \subseteq Node
  <2> TAKE m \in Node
  <2>1. \A e \in map[m] : e.vars \subseteq Node
    BY DEF Entry
  <2> QED
    BY <2>1, TopVarsIn
<1>2. S \subseteq Node
  BY <1>1
<1>3. WithCut(map[n], sLevel, S) \subseteq Entry
  BY <1>2, WithCutEntry
<1>4. MergeCuts(map, cuts)[n] = IF \E c \in cuts : c.new = n THEN WithCut(map[n], sLevel, S) ELSE map[n]
  BY DEF MergeCuts, AddCutInfoMerge
<1> QED
  BY <1>3, <1>4

LEMMA SplitMapOK ==
  ASSUME Sound, MapOK, NEW c1, NEW c2, Splittable(c1, c2),
         NEW known, NEW axioms, SplitConcats(c1, c2, known, axioms)
  PROVE  MapOK'
<1> DEFINE map(nodes) == CheckandInit(cutVARMap, nodes)
<1>1. PICK nodes : cutVARMap' = MergeCuts(map(nodes), Split(map(nodes), c1, c2, known).cuts)
  BY Zenon DEF SplitConcats
<1>2. MakesVariables(c1, c2) /\ NewKey(c1, c2) => tmpStringVarCount + 2 <= MaxNode
  BY DEF SplitConcats
<1>3. \A n \in Node : map(nodes)[n] \subseteq Entry
  BY CheckandInitEntry DEF MapOK
<1> HIDE DEF map
<1> DEFINE cuts == Split(map(nodes), c1, c2, known).cuts
<1>4. \A c \in cuts : c.from \subseteq Node
  BY <1>2, CutsFromNodes
<1>5. sLevel \in Int
  BY SoundFacts
<1> HIDE DEF cuts
<1>6. \A n \in Node : MergeCuts(map(nodes), cuts)[n] \subseteq Entry
  BY <1>3, <1>4, <1>5, MergeCutsEntry
<1> QED
  BY <1>1, <1>6 DEF MapOK, cuts

(* What a step may do to the cut information.                              *)
LEMMA CutInfoSteps ==
  ASSUME Sound, Next
  PROVE  \/ cutVARMap' = cutVARMap /\ sLevel' \in {sLevel, sLevel + 1} /\ inForce \subseteq inForce'
         \/ \E c1, c2, known, axioms :
              Splittable(c1, c2) /\ Plain(axioms) /\ SplitConcats(c1, c2, known, axioms)
         \/ CbPop
<1> DEFINE Same == /\ cutVARMap' = cutVARMap /\ sLevel' \in {sLevel, sLevel + 1}
                   /\ inForce \subseteq inForce'
<1>1. ASSUME NEW axioms, AddOnly(axioms) PROVE Same
  BY <1>1 DEF AddOnly, AddAxiom
<1>2. ASSUME NEW e1, NEW e2, QuickEq(e1, e2) PROVE Same
  BY <1>1, <1>2 DEF QuickEq
<1>3. ASSUME NEW e1, NEW e2, NEW known, SameLengthEq(e1, e2, known) PROVE Same
  BY <1>1, <1>3 DEF SameLengthEq
<1>4. ASSUME NEW t, NEW s, CutConst(t, s) PROVE Same
  BY <1>4 DEF CutConst, AddAxiom
<1>5. ASSUME NEW e, NEW known, SolveConcatEqStr(e, known) PROVE Same
  BY <1>1, <1>4, <1>5 DEF SolveConcatEqStr
<1>6. ASSUME NEW a, Adopt(a) PROVE Same
  BY <1>6 DEF Adopt
<1>7. CASE CbPush
  BY <1>7 DEF CbPush
<1> HIDE DEF Same
<1>8. ASSUME NEW e1 \in Concats, NEW e2 \in Concats, NEW known, SimplifyEq(e1, e2, known)
      PROVE  \/ Same
             \/ \E c1, c2, axioms :
                  Splittable(c1, c2) /\ Plain(axioms) /\ SplitConcats(c1, c2, known, axioms)
  BY <1>1, <1>8, SimplifyCases
<1> QED
  BY <1>2, <1>3, <1>5, <1>6, <1>7, <1>8 DEF Next, Same

LEMMA MapOKInit == Init => MapOK
  BY DEF Init, MapOK

LEMMA MapOKNext == Sound /\ MapOK /\ [Next]_vars => MapOK'
<1> SUFFICES ASSUME Sound, MapOK, [Next]_vars PROVE MapOK'
  OBVIOUS
<1>1. CASE cutVARMap' = cutVARMap
  BY <1>1 DEF MapOK
<1>2. ASSUME NEW c1, NEW c2, NEW known, NEW axioms, Splittable(c1, c2),
             SplitConcats(c1, c2, known, axioms)
      PROVE  MapOK'
  BY <1>2, SplitMapOK
<1>3. CASE CbPop
  <2>1. \A n \in Node : cutVARMap'[n] \subseteq cutVARMap[n]
    BY <1>3 DEF CbPop, CutsLeft
  <2> QED
    BY <2>1 DEF MapOK
<1>4. CASE UNCHANGED vars
  BY <1>1, <1>4 DEF vars
<1>5. CASE Next
  BY <1>1, <1>2, <1>3, <1>5, CutInfoSteps
<1> QED
  BY <1>4, <1>5

(* Every state has its type: the solution stays one, the made variables    *)
(* stay within their count, and what is added is of an open scope.         *)
THEOREM TypeCorrect == Spec => []TypeOK
<1>1. Sound /\ MapOK => TypeOK
  <2> SUFFICES ASSUME Sound, MapOK PROVE TypeOK
    OBVIOUS
  <2>1. /\ sLevel \in 0 .. MaxLevel /\ val \in Value /\ loopDetected \in BOOLEAN
        /\ TableOK(varForBreakConcat, tmpStringVarCount)
        /\ \A e \in equalities : e.level \in 0 .. sLevel
        /\ \A a \in inForce : a.level \in 0 .. sLevel /\ a.remembered \in BOOLEAN
    BY DEF Sound, StateOK, AxiomOK
  <2>2. \A k \in DOMAIN varForBreakConcat :
          \A t \in Range(varForBreakConcat[k]) : t \in 0 .. tmpStringVarCount
    <3> TAKE k \in DOMAIN varForBreakConcat
    <3>1. varForBreakConcat[k] \in [t1 : 0 .. tmpStringVarCount, t2 : 0 .. tmpStringVarCount]
      BY <2>1 DEF TableOK, EntryOK
    <3> QED
      BY <3>1 DEF Range
  <2>3. tmpStringVarCount \in NumVars .. MaxNode
    BY <2>1 DEF TableOK
  <2>4. val \in [Node -> Seq(Char)]
    BY <2>1 DEF Value, Text
  <2> QED
    BY <2>1, <2>2, <2>3, <2>4 DEF TypeOK, MapOK
<1> QED
  BY SoundInit, SoundNext, MapOKInit, MapOKNext, <1>1, PTL DEF Spec

(* The constants the splits cut are those of concatenations the core       *)
(* holds, and each is cut within its length: substr does not throw.        *)
THEOREM CutsStayWithinString == Spec => []SplitsWithinString
<1>1. Sound => SplitsWithinString
  <2> SUFFICES ASSUME Sound, NEW e \in Concats, NEW i \in {j \in 1 .. 2 : IsConstStr(e.rhs[j])},
                      NEW xLen \in -1 .. MaxLength, NEW yLen \in -1 .. MaxLength,
                      NEW mLen \in -1 .. MaxLength
               PROVE  CutWithinString(xLen, yLen, mLen, Len(e.rhs[i].str))
    BY DEF SplitsWithinString
  <2>1. e.rhs[i] \in Atoms(Here)
    BY ConcatIs
  <2>2. Len(e.rhs[i].str) \in Nat
    BY <2>1, LenProperties DEF Atoms
  <2>3. /\ xLen \in Int /\ yLen \in Int /\ mLen \in Int
        /\ xLen >= -1 /\ yLen >= -1 /\ mLen >= -1
    BY ConstantsAssumption
  <2> QED
    BY <2>2, <2>3, ConstantCutWithin
<1> QED
  BY SoundInit, SoundNext, <1>1, PTL DEF Spec

-----------------------------------------------------------------------------
(* The cut information.  First, that what it records is an ancestor.       *)

(* Ancestors without recursion: what lies in every set of variables that   *)
(* contains a variable and what its members were cut from.                 *)
Parents(cuts, n) == UNION {c.from : c \in {d \in cuts : d.new = n}}

Closed(cuts, n, S) ==
  S \subseteq Node /\ n \in S /\ \A m \in S : Parents(cuts, m) \subseteq S

Reached(cuts, n) == {m \in Node : \A S : Closed(cuts, n, S) => m \in S}

(* The cuts are of variables.                                              *)
OfNodes(cuts) == \A c \in cuts : c.from \subseteq Node

LEMMA ReachedSelf == ASSUME NEW cuts, NEW n \in Node PROVE n \in Reached(cuts, n)
  BY DEF Reached, Closed

LEMMA ReachedClosed ==
  ASSUME NEW cuts, OfNodes(cuts), NEW n \in Node
  PROVE  Closed(cuts, n, Reached(cuts, n))
<1>1. ASSUME NEW m \in Reached(cuts, n), NEW p \in Parents(cuts, m) PROVE p \in Reached(cuts, n)
  <2>1. p \in Node
    BY <1>1 DEF Parents, OfNodes
  <2>2. ASSUME NEW S, Closed(cuts, n, S) PROVE p \in S
    BY <1>1, <2>2 DEF Reached, Closed
  <2> QED
    BY <2>1, <2>2 DEF Reached
<1> QED
  BY <1>1, ReachedSelf DEF Closed, Reached

LEMMA ReachedStep ==
  ASSUME NEW cuts, OfNodes(cuts), NEW n \in Node, NEW m \in Parents(cuts, n)
  PROVE  Reached(cuts, m) \subseteq Reached(cuts, n)
<1> SUFFICES ASSUME NEW p \in Reached(cuts, m) PROVE p \in Reached(cuts, n)
  OBVIOUS
<1>1. ASSUME NEW S, Closed(cuts, n, S) PROVE p \in S
  <2>1. Closed(cuts, m, S)
    BY <1>1 DEF Closed
  <2> QED
    BY <2>1 DEF Reached
<1> QED
  BY <1>1 DEF Reached

LEMMA ReachedGrows ==
  ASSUME NEW cuts, NEW more, cuts \subseteq more, NEW n
  PROVE  Reached(cuts, n) \subseteq Reached(more, n)
<1>1. \A m : Parents(cuts, m) \subseteq Parents(more, m)
  BY DEF Parents
<1>2. \A S : Closed(more, n, S) => Closed(cuts, n, S)
  BY <1>1 DEF Closed
<1> QED
  BY <1>2 DEF Reached

(* The ancestors are their own definition: the sets of what is reached     *)
(* satisfy it, so some function does.                                      *)
LEMMA AncestorsAre ==
  ASSUME NEW cuts, OfNodes(cuts)
  PROVE  \A n \in Node :
           Ancestors(cuts)[n] = {n} \cup UNION {Ancestors(cuts)[m] : m \in Parents(cuts, n)}
<1> DEFINE Step(g) == [n \in Node |-> {n} \cup UNION {g[m] : m \in Parents(cuts, n)}]
           anc == CHOOSE g : g = Step(g)
           least == [n \in Node |-> Reached(cuts, n)]
<1>1. Ancestors(cuts) = anc
  BY DEF Ancestors, Parents
<1>2. least = Step(least)
  <2> SUFFICES ASSUME NEW n \in Node
               PROVE  Reached(cuts, n) = {n} \cup UNION {least[m] : m \in Parents(cuts, n)}
    OBVIOUS
  <2> DEFINE T == {n} \cup UNION {least[m] : m \in Parents(cuts, n)}
  <2>1. \A k \in Node : Parents(cuts, k) \subseteq Node
    BY DEF Parents, OfNodes
  <2>2. \A m \in Parents(cuts, n) : least[m] = Reached(cuts, m)
    BY <2>1
  <2>3. T \subseteq Reached(cuts, n)
    <3>1. \A m \in Parents(cuts, n) : least[m] \subseteq Reached(cuts, n)
      BY <2>2, ReachedStep
    <3>2. n \in Reached(cuts, n)
      BY ReachedSelf
    <3> HIDE DEF least
    <3> QED
      BY <3>1, <3>2
  <2>4. Closed(cuts, n, T)
    <3>1. T \subseteq Node
      BY <2>3 DEF Reached
    <3>2. ASSUME NEW m \in T PROVE Parents(cuts, m) \subseteq T
      <4>1. CASE m = n
        BY <2>1, <2>2, <4>1, ReachedSelf
      <4>2. CASE m # n
        <5>1. PICK p \in Parents(cuts, n) : m \in Reached(cuts, p)
          BY <2>2, <4>2
        <5>2. Parents(cuts, m) \subseteq Reached(cuts, p)
          BY <2>1, <5>1, ReachedClosed DEF Closed
        <5> QED
          BY <2>2, <5>2
      <4> QED
        BY <4>1, <4>2
    <3> QED
      BY <3>1, <3>2 DEF Closed
  <2>5. Reached(cuts, n) \subseteq T
    BY <2>4 DEF Reached
  <2> QED
    BY <2>3, <2>5
<1>3. anc = Step(anc)
  BY <1>2
<1> HIDE DEF anc
<1>4. \A n \in Node : anc[n] = {n} \cup UNION {anc[m] : m \in Parents(cuts, n)}
  BY <1>3
<1> QED
  BY <1>1, <1>4

(* What is reached is an ancestor.                                         *)
LEMMA AncestorsReached ==
  ASSUME NEW cuts, OfNodes(cuts)
  PROVE  \A n \in Node : Reached(cuts, n) \subseteq Ancestors(cuts)[n]
<1> DEFINE anc == Ancestors(cuts)
<1>1. \A n \in Node : anc[n] = {n} \cup UNION {anc[m] : m \in Parents(cuts, n)}
  BY AncestorsAre
<1> HIDE DEF anc
<1>2. ASSUME NEW n \in Node, NEW p \in Reached(cuts, n) PROVE p \in anc[n]
  <2> DEFINE S == {m \in Node : anc[m] \subseteq anc[n]}
  <2>1. ASSUME NEW m \in S, NEW q \in Parents(cuts, m) PROVE q \in S
    <3>1. q \in Node
      BY <2>1 DEF Parents, OfNodes
    <3>2. anc[q] \subseteq anc[m]
      BY <1>1, <2>1
    <3> QED
      BY <2>1, <3>1, <3>2
  <2>2. Closed(cuts, n, S)
    BY <2>1 DEF Closed
  <2>3. p \in S
    BY <2>2 DEF Reached
  <2> QED
    BY <1>1, <2>3
<1> QED
  BY <1>2 DEF anc

-----------------------------------------------------------------------------
(* The inductive form of CutInfoSound: an entry holds ancestors through    *)
(* cuts whose axioms last at least as long.                                *)
CutsUpTo(axioms, l) == CutsOf({a \in axioms : a.level <= l})

AncestorsIn(map, axioms) ==
  \A n \in Node : \A e \in map[n] : e.vars \subseteq Reached(CutsUpTo(axioms, e.level), n)

LEMMA UpToGrows ==
  ASSUME NEW axioms, NEW more, axioms \subseteq more, NEW l \in Int, NEW d \in Int, l <= d,
         \A a \in axioms : a.level \in Int
  PROVE  CutsUpTo(axioms, l) \subseteq CutsUpTo(more, d)
<1>1. {a \in axioms : a.level <= l} \subseteq {a \in more : a.level <= d}
  OBVIOUS
<1> QED
  BY <1>1 DEF CutsUpTo, CutsOf

LEMMA CheckandInitAncestors ==
  ASSUME NEW map, NEW axioms, NEW nodes, AncestorsIn(map, axioms)
  PROVE  AncestorsIn(CheckandInit(map, nodes), axioms)
<1> SUFFICES ASSUME NEW n \in Node, NEW e \in CheckandInit(map, nodes)[n]
             PROVE  e.vars \subseteq Reached(CutsUpTo(axioms, e.level), n)
  BY DEF AncestorsIn
<1>1. CASE e \in map[n]
  BY <1>1 DEF AncestorsIn
<1>2. CASE e \in WithCut({}, -1, {n})
  <2>1. e.vars = {n}
    BY <1>2 DEF WithCut, TopVars
  <2> QED
    BY <2>1, ReachedSelf
<1> QED
  BY <1>1, <1>2 DEF CheckandInit

LEMMA MergeCutsAncestors ==
  ASSUME NEW map, NEW axioms, NEW new, NEW cuts, sLevel \in Int, AncestorsIn(map, axioms),
         \A n \in Node : Levels(map[n], sLevel), \A a \in axioms : a.level \in Int,
         Fresh(new), cuts \subseteq CutsOf(new), \A a \in axioms \cup new : OfNodes(a.cuts)
  PROVE  AncestorsIn(MergeCuts(map, cuts), axioms \cup new)
<1> DEFINE all == CutsUpTo(axioms \cup new, sLevel)
<1>1. \A n \in Node : \A e \in map[n] :
        /\ e.vars \subseteq Reached(CutsUpTo(axioms \cup new, e.level), n)
        /\ e.vars \subseteq Reached(all, n)
  <2> TAKE n \in Node
  <2> TAKE e \in map[n]
  <2>1. e.level \in Int /\ e.level <= sLevel
    BY DEF Levels
  <2>2. CutsUpTo(axioms, e.level) \subseteq CutsUpTo(axioms \cup new, e.level)
        /\ CutsUpTo(axioms, e.level) \subseteq all
    BY <2>1, UpToGrows
  <2> HIDE DEF all
  <2>3. e.vars \subseteq Reached(CutsUpTo(axioms, e.level), n)
    BY DEF AncestorsIn
  <2> QED
    BY <2>2, <2>3, ReachedGrows
<1>2. cuts \subseteq all
  <2>1. new \subseteq {a \in axioms \cup new : a.level <= sLevel}
    BY DEF Fresh
  <2> QED
    BY <2>1 DEF CutsUpTo, CutsOf
<1>3. OfNodes(all)
  BY DEF CutsUpTo, CutsOf, OfNodes
<1> HIDE DEF all
<1>4. \A n \in Node : TopVars(map[n]) \subseteq Reached(all, n)
  BY <1>1, TopVarsIn
<1> SUFFICES ASSUME NEW n \in Node, NEW e \in MergeCuts(map, cuts)[n]
             PROVE  e.vars \subseteq Reached(CutsUpTo(axioms \cup new, e.level), n)
  BY DEF AncestorsIn
<1>5. CASE e \in map[n]
  BY <1>1, <1>5
<1>6. CASE e \notin map[n]
  <2> DEFINE from == UNION {c.from : c \in {d \in cuts : d.new = n}}
             S == UNION {TopVars(map[src]) : src \in from}
  <2>1. e = [level |-> sLevel, vars |-> TopVars(map[n]) \cup S]
    BY <1>6 DEF MergeCuts, AddCutInfoMerge, WithCut
  <2>2. e.level = sLevel /\ e.vars = TopVars(map[n]) \cup S
    BY <2>1
  <2>3. ASSUME NEW src \in from PROVE TopVars(map[src]) \subseteq Reached(all, n)
    <3>1. src \in Parents(all, n) /\ src \in Node
      BY <1>2, <1>3, <2>3 DEF Parents, OfNodes
    <3> QED
      BY <1>3, <1>4, <3>1, ReachedStep
  <2> QED
    BY <1>4, <2>2, <2>3 DEF all
<1> QED
  BY <1>5, <1>6

-----------------------------------------------------------------------------
CutInfoInv == LevelInv /\ AncestorsIn(cutVARMap, inForce)

CutVarsNodes == \A a \in inForce : OfNodes(a.cuts)

LEMMA SoundNodes == Sound => CutVarsNodes
  BY DEF Sound, StateOK, AxiomOK, OfNodes, CutVarsNodes

LEMMA AncestorsKept ==
  ASSUME NEW map, NEW axioms, NEW more, axioms \subseteq more,
         NEW d \in Int, \A n \in Node : Levels(map[n], d), \A a \in axioms : a.level \in Int,
         AncestorsIn(map, axioms)
  PROVE  AncestorsIn(map, more)
<1> SUFFICES ASSUME NEW n \in Node, NEW e \in map[n]
             PROVE  e.vars \subseteq Reached(CutsUpTo(more, e.level), n)
  BY DEF AncestorsIn
<1>1. e.level \in Int
  BY DEF Levels
<1>2. CutsUpTo(axioms, e.level) \subseteq CutsUpTo(more, e.level)
  BY <1>1, UpToGrows
<1>3. e.vars \subseteq Reached(CutsUpTo(axioms, e.level), n)
  BY DEF AncestorsIn
<1> QED
  BY <1>2, <1>3, ReachedGrows

LEMMA CutsUpToLeft ==
  ASSUME NEW axioms, NEW l \in Nat, NEW d \in Int, d <= l, \A a \in axioms : AxiomShape(a)
  PROVE  CutsUpTo(axioms, d) \subseteq CutsUpTo(AxiomsLeft(axioms, l), d)
<1> SUFFICES ASSUME NEW a \in axioms, a.level <= d, NEW c \in a.cuts
             PROVE  \E b \in AxiomsLeft(axioms, l) : b.level <= d /\ c \in b.cuts
  BY DEF CutsUpTo, CutsOf
<1>1. a.level \in Nat /\ a.level <= l
  BY DEF AxiomShape
<1>2. PICK b \in AxiomsLeft(axioms, l) : b.level = a.level /\ b.cuts = a.cuts
  BY <1>1, AxiomsLeftShape
<1> QED
  BY <1>2

LEMMA CutsLeftAncestors ==
  ASSUME NEW map, NEW axioms, NEW d \in Int, NEW l \in Nat, \A n \in Node : Levels(map[n], d),
         AncestorsIn(map, axioms), \A a \in axioms : AxiomShape(a)
  PROVE  AncestorsIn(CutsLeft(map, l), AxiomsLeft(axioms, l))
<1> SUFFICES ASSUME NEW n \in Node, NEW e \in CutsLeft(map, l)[n]
             PROVE  e.vars \subseteq Reached(CutsUpTo(AxiomsLeft(axioms, l), e.level), n)
  BY DEF AncestorsIn
<1>1. e \in map[n]
  BY DEF CutsLeft
<1>2. e.level \in Int /\ e.level <= l
  BY CutsLeftLevels DEF Levels
<1>3. CutsUpTo(axioms, e.level) \subseteq CutsUpTo(AxiomsLeft(axioms, l), e.level)
  BY <1>2, CutsUpToLeft
<1>4. e.vars \subseteq Reached(CutsUpTo(axioms, e.level), n)
  BY <1>1 DEF AncestorsIn
<1> QED
  BY <1>3, <1>4, ReachedGrows

LEMMA SplitAncestors ==
  ASSUME Sound, Sound', CutInfoInv, NEW c1, NEW c2, NEW known, NEW axioms, Plain(axioms),
         SplitConcats(c1, c2, known, axioms)
  PROVE  AncestorsIn(cutVARMap, inForce)'
<1> DEFINE map(nodes) == CheckandInit(cutVARMap, nodes)
           outcome(nodes) == Split(map(nodes), c1, c2, known)
<1>1. PICK nodes : /\ inForce' = inForce \cup axioms \cup outcome(nodes).axioms
                   /\ cutVARMap' = MergeCuts(map(nodes), outcome(nodes).cuts)
  BY Zenon DEF SplitConcats, AddAxiom
<1>2. Recorded(outcome(nodes))
  BY SplitRecorded
<1>3. sLevel \in Nat /\ sLevel \in Int /\ \A n \in Node : Levels(cutVARMap[n], sLevel)
  BY DEF CutInfoInv, LevelInv
<1>4. AncestorsIn(map(nodes), inForce) /\ \A n \in Node : Levels(map(nodes)[n], sLevel)
  BY <1>3, CheckandInitAncestors, CheckandInitLevels DEF CutInfoInv
<1> HIDE DEF map, outcome
<1> DEFINE new == axioms \cup outcome(nodes).axioms
<1>5. Fresh(axioms)
  BY DEF Plain, Fresh, AxiomOK, Fields
<1>6. Fresh(new) /\ outcome(nodes).cuts \subseteq CutsOf(new)
  BY <1>2, <1>5, FreshUnion DEF Recorded, CutsOf
<1>7. inForce' = inForce \cup new
  BY <1>1
<1>8. \A a \in inForce \cup new : OfNodes(a.cuts)
  <2>1. CutVarsNodes'
    BY SoundNodes, PTL
  <2> QED
    BY <1>7, <2>1 DEF CutVarsNodes
<1>9. \A a \in inForce : a.level \in Int
  BY SoundFacts
<1> HIDE DEF new
<1>10. AncestorsIn(MergeCuts(map(nodes), outcome(nodes).cuts), inForce \cup new)
  BY <1>3, <1>4, <1>6, <1>8, <1>9, MergeCutsAncestors
<1> QED
  BY <1>1, <1>7, <1>10

LEMMA CutInfoInit == Init => CutInfoInv
<1>1. Init => cutVARMap = [n \in Node |-> {}]
  BY DEF Init
<1> QED
  BY <1>1, LevelInit DEF CutInfoInv, AncestorsIn

LEMMA CutInfoNext ==
  ASSUME Sound, Sound', BackedInv, CutInfoInv, [Next]_vars PROVE CutInfoInv'
<1>1. LevelInv'
  BY LevelNext DEF CutInfoInv
<1> SUFFICES AncestorsIn(cutVARMap, inForce)'
  BY <1>1 DEF CutInfoInv
<1>2. sLevel \in Int /\ \A n \in Node : Levels(cutVARMap[n], sLevel)
  BY DEF CutInfoInv, LevelInv
<1>3. CASE cutVARMap' = cutVARMap /\ inForce \subseteq inForce'
  <2>1. \A a \in inForce : a.level \in Int
    BY SoundFacts
  <2>2. AncestorsIn(cutVARMap, inForce')
    BY <1>2, <1>3, <2>1, AncestorsKept DEF CutInfoInv
  <2> QED
    BY <1>3, <2>2
<1>4. ASSUME NEW c1, NEW c2, NEW known, NEW axioms, Plain(axioms),
             SplitConcats(c1, c2, known, axioms)
      PROVE  AncestorsIn(cutVARMap, inForce)'
  BY <1>4, SplitAncestors
<1>5. CASE CbPop
  <2> DEFINE l == sLevel - 1
  <2>1. cutVARMap' = CutsLeft(cutVARMap, l) /\ inForce' = AxiomsLeft(inForce, l)
    BY <1>5 DEF CbPop, AxiomsLeft
  <2>2. l \in Nat
    BY <1>5 DEF CbPop, CutInfoInv, LevelInv
  <2>3. AncestorsIn(CutsLeft(cutVARMap, l), AxiomsLeft(inForce, l))
    BY <1>2, <2>2, CutsLeftAncestors DEF CutInfoInv, BackedInv
  <2> QED
    BY <2>1, <2>3
<1>6. CASE UNCHANGED vars
  BY <1>3, <1>6 DEF vars
<1>7. CASE Next
  BY <1>3, <1>4, <1>5, <1>7, CutInfoSteps
<1> QED
  BY <1>6, <1>7

LEMMA EntriesReached ==
  ASSUME Sound, CutInfoInv
  PROVE  \A n \in Node : TopVars(cutVARMap[n]) \subseteq Ancestors(CutsOf(inForce))[n]
<1> TAKE n \in Node
<1> DEFINE cuts == CutsOf(inForce)
<1>1. OfNodes(cuts)
  BY SoundNodes DEF CutVarsNodes, OfNodes, CutsOf
<1>2. ASSUME NEW e \in cutVARMap[n] PROVE e.vars \subseteq Reached(cuts, n)
  <2>1. CutsUpTo(inForce, e.level) \subseteq cuts
    BY DEF CutsUpTo, CutsOf
  <2>2. e.vars \subseteq Reached(CutsUpTo(inForce, e.level), n)
    BY DEF CutInfoInv, AncestorsIn
  <2> HIDE DEF cuts
  <2> QED
    BY <2>1, <2>2, ReachedGrows
<1> HIDE DEF cuts
<1>3. TopVars(cutVARMap[n]) \subseteq Reached(cuts, n)
  BY <1>2, TopVarsIn
<1>4. Reached(cuts, n) \subseteq Ancestors(cuts)[n]
  BY <1>1, AncestorsReached
<1> QED
  BY <1>3, <1>4 DEF cuts

(* A cut is refused only where it would loop: the variables have a common  *)
(* ancestor through cuts whose axioms are in force.                        *)
THEOREM RefusedCutsLoop == Spec => []CutInfoSound
<1>1. Sound /\ CutInfoInv => CutInfoSound
  <2> SUFFICES ASSUME Sound, CutInfoInv, NEW m \in Node, NEW n \in Node,
                      HasSelfCut(cutVARMap, m, n)
               PROVE  Ancestors(CutsOf(inForce))[m] \cap Ancestors(CutsOf(inForce))[n] # {}
    BY DEF CutInfoSound
  <2>1. TopVars(cutVARMap[m]) \cap TopVars(cutVARMap[n]) # {}
    BY DEF HasSelfCut
  <2> QED
    BY <2>1, EntriesReached
<1> QED
  BY SoundInit, SoundNext, BackedInit, BackedNext, CutInfoInit, CutInfoNext, <1>1, PTL DEF Spec

-----------------------------------------------------------------------------
(* Then, that it records every ancestor.                                   *)

(* Made variables are numbered above what their pair has.                  *)
KeysBelow(table) ==
  \A k \in DOMAIN table : \A t \in {table[k].t1, table[k].t2} \ {0} :
    \A c \in k : \A i \in DOMAIN c : c[i].var < t

NoCuts(axioms) == \A a \in axioms : a.cuts = {}

LEMMA PlainNoCuts == \A axioms : Plain(axioms) => NoCuts(axioms)
  BY DEF Plain, NoCuts

(* A step that cuts no variable and leaves no scope.                       *)
Quiet ==
  /\ cutVARMap' = cutVARMap /\ sLevel' \in {sLevel, sLevel + 1}
  /\ \E new : NoCuts(new) /\ inForce' = inForce \cup new
  /\ TableGrows(varForBreakConcat, varForBreakConcat')
  /\ KeysBelow(varForBreakConcat) => KeysBelow(varForBreakConcat')

LEMMA QuietAdd == ASSUME NEW axioms, NoCuts(axioms), AddOnly(axioms) PROVE Quiet
  BY DEF AddOnly, AddAxiom, theory, Quiet, TableGrows

LEMMA QuietCutConst == ASSUME NEW c, NEW s, CutConst(c, s) PROVE Quiet
<1> DEFINE key == KeyOf(<<c[1]>>, <<c[2]>>)
           a == Axiom(val, key, <<<<c[1]>>, <<c[2]>>>>, EveryCut(c, s), {})
           none == [t1 |-> 0, t2 |-> 0]
<1>1. /\ cutVARMap' = cutVARMap /\ sLevel' = sLevel /\ inForce' = inForce \cup {a}
      /\ varForBreakConcat' = Entered(key, none)
  BY DEF CutConst, AddAxiom
<1>2. a.cuts = {}
  BY AxiomFields
<1> HIDE DEF a, key
<1>3. \A k \in DOMAIN varForBreakConcat' : k \in DOMAIN varForBreakConcat =>
        varForBreakConcat'[k] = varForBreakConcat[k]
  BY <1>1 DEF Entered
<1>4. \A k \in DOMAIN varForBreakConcat' : k \notin DOMAIN varForBreakConcat =>
        varForBreakConcat'[k] = none
  BY <1>1 DEF Entered
<1>5. TableGrows(varForBreakConcat, varForBreakConcat')
  BY <1>1 DEF Entered, TableGrows
<1>6. KeysBelow(varForBreakConcat) => KeysBelow(varForBreakConcat')
  BY <1>3, <1>4 DEF KeysBelow
<1>7. NoCuts({a})
  BY <1>2 DEF NoCuts
<1> QED
  BY <1>1, <1>5, <1>6, <1>7 DEF Quiet

LEMMA QuietSolve ==
  ASSUME Sound, NEW e \in Concats, NEW known, SolveConcatEqStr(e, known)
  PROVE  Quiet
<1> DEFINE t == SimplifyConcat(e.rhs)
           s == EqcValue(e.lhs).str
           simpler == IF t = <<Str(s)>> THEN {} ELSE Simplified(e)
           empty == {Single(val, <<>>, {Eq(e.rhs[i], <<Empty>>) : i \in 1 .. 2})}
<1>1. \/ AddOnly(empty)
      \/ AddOnly(simpler \cup FromConst(t, s, known))
      \/ CutConst(t, s)
  BY Zenon DEF SolveConcatEqStr
<1>2. /\ NoCuts({}) /\ \A v, pair, eqs : NoCuts({Single(v, pair, eqs)})
      /\ \A v : NoCuts({Negation(v)})
      /\ \A S, T : NoCuts(S) /\ NoCuts(T) => NoCuts(S \cup T)
  BY AxiomFields DEF NoCuts, Single, Negation
<1>3. \A f : NoCuts(Simplified(f))
  BY <1>2, Zenon DEF Simplified
<1>4. \A u, w : NoCuts(FromConst(u, w, known))
  BY <1>2, Zenon DEF FromConst
<1>5. NoCuts(simpler)
  BY <1>2, <1>3
<1>6. NoCuts(empty)
  BY <1>2
<1> HIDE DEF t, s, simpler, empty
<1>7. NoCuts(simpler \cup FromConst(t, s, known))
  BY <1>2, <1>4, <1>5
<1> QED
  BY <1>1, <1>6, <1>7, QuietAdd, QuietCutConst

LEMMA CutSteps ==
  ASSUME Sound, Next
  PROVE  \/ Quiet
         \/ \E c1, c2, known, axioms :
              Splittable(c1, c2) /\ NoCuts(axioms) /\ SplitConcats(c1, c2, known, axioms)
         \/ CbPop
<1>1. ASSUME NEW e1 \in Concats, NEW e2 \in Concats, QuickEq(e1, e2) PROVE Quiet
  <2>1. NoCuts(QuickAxioms(e1.rhs, e2.rhs))
    BY <1>1, QuickPlain, PlainNoCuts DEF QuickEq
  <2> QED
    BY <1>1, <2>1, QuietAdd DEF QuickEq
<1>2. ASSUME NEW e1 \in Concats, NEW e2 \in Concats, NEW known, SameLengthEq(e1, e2, known)
      PROVE  Quiet
  <2>1. NoCuts({LengthAxiom(e1.rhs, e2.rhs)})
    BY <1>2, LengthPlain, PlainNoCuts DEF SameLengthEq
  <2> QED
    BY <1>2, <2>1, QuietAdd DEF SameLengthEq
<1>3. ASSUME NEW a, Adopt(a) \/ CbPush PROVE Quiet
  <2>1. NoCuts({}) /\ inForce = inForce \cup {}
    BY DEF NoCuts
  <2> QED
    BY <1>3, <2>1 DEF Adopt, CbPush, theory, Quiet, TableGrows
<1>4. ASSUME NEW e1 \in Concats, NEW e2 \in Concats, NEW known, SimplifyEq(e1, e2, known)
      PROVE  \/ Quiet
             \/ \E c1, c2, axioms :
                  Splittable(c1, c2) /\ NoCuts(axioms) /\ SplitConcats(c1, c2, known, axioms)
  BY <1>4, SimplifyCases, PlainNoCuts, QuietAdd
<1> QED
  BY <1>1, <1>2, <1>3, <1>4, QuietSolve DEF Next

-----------------------------------------------------------------------------
(* The cuts a split records, and those of its axioms that are remembered,  *)
(* are of made variables, from variables of the pair.                      *)
CutsIn(cuts, made, sides) ==
  \A c \in cuts : c.new \in made /\ c.from \subseteq sides /\ c.from # {}

Drawn(o, made, sides) ==
  /\ CutsIn(o.cuts, made, sides)
  /\ \A a \in o.axioms : a.remembered => a.cuts \subseteq o.cuts

LEMMA CutsInFacts ==
  ASSUME NEW made, NEW sides
  PROVE  /\ CutsIn({}, made, sides)
         /\ \A t, a, b : t \in made /\ a.var \in sides /\ b.var \in sides =>
              CutsIn({Cut(t, a, b)}, made, sides)
         /\ \A S, T : CutsIn(S, made, sides) /\ CutsIn(T, made, sides) =>
              CutsIn(S \cup T, made, sides)
<1>1. \A t, a, b : Cut(t, a, b).new = t /\ Cut(t, a, b).from = {a.var, b.var}
  BY DEF Cut
<1>2. ASSUME NEW t \in made, NEW a, NEW b, a.var \in sides, b.var \in sides
      PROVE  CutsIn({Cut(t, a, b)}, made, sides)
  <2> DEFINE c == Cut(t, a, b)
  <2>1. c.new = t /\ c.from = {a.var, b.var}
    BY <1>1
  <2>2. c.from \subseteq sides /\ c.from # {}
    BY <1>2, <2>1
  <2> HIDE DEF c
  <2>3. CutsIn({c}, made, sides)
    BY <2>1, <2>2 DEF CutsIn
  <2> QED
    BY <2>3 DEF c
<1> QED
  BY <1>2 DEF CutsIn

LEMMA DrawnOutcomes ==
  ASSUME NEW made, NEW sides
  PROVE  /\ Drawn(Nothing, made, sides)
         /\ \A pair, eqs, cuts, v : CutsIn(cuts, made, sides) =>
              Drawn(OneCut(pair, eqs, cuts, v), made, sides)
         /\ \A pair, eqs, v : Drawn(Exactly(pair, eqs, v), made, sides)
         /\ \A pair, options, cuts, refused, v : CutsIn(cuts, made, sides) =>
              Drawn(AnyOf(pair, options, cuts, refused, v), made, sides)
         /\ \A v : Drawn(Outcome({Negation(v)}, {}, FALSE, v), made, sides)
         /\ \A pair, eq : Drawn(Derive(pair, eq), made, sides)
<1>1. ASSUME NEW v, NEW xor, NEW pair, NEW options, NEW cuts, NEW refused, NEW w,
             CutsIn(cuts, made, sides)
      PROVE  Drawn(Outcome({Axiom(v, xor, pair, options, cuts)}, cuts, refused, w), made, sides)
  <2> DEFINE a == Axiom(v, xor, pair, options, cuts)
  <2>1. a.cuts = cuts
    BY AxiomFields
  <2> HIDE DEF a
  <2> QED
    BY <1>1, <2>1, OutcomeIs DEF Drawn, a
<1>2. CutsIn({}, made, sides)
  BY CutsInFacts
<1>3. \A refused, w : Drawn(Outcome({}, {}, refused, w), made, sides)
  BY <1>2, OutcomeIs DEF Drawn
<1>4. \A pair, eqs, v, refused, w : Drawn(Outcome({Single(v, pair, eqs)}, {}, refused, w), made, sides)
  BY <1>1, <1>2, Zenon DEF Single
<1>5. \A v, refused, w : Drawn(Outcome({Negation(v)}, {}, refused, w), made, sides)
  BY <1>1, <1>2, Zenon DEF Negation
<1>6. Drawn(Nothing, made, sides)
  BY <1>3 DEF Nothing
<1>7. ASSUME NEW pair, NEW eqs, NEW cuts, NEW v, CutsIn(cuts, made, sides)
      PROVE  Drawn(OneCut(pair, eqs, cuts, v), made, sides)
  BY <1>1, <1>3, <1>7, Zenon DEF OneCut
<1>8. ASSUME NEW pair, NEW options, NEW cuts, NEW refused, NEW v, CutsIn(cuts, made, sides)
      PROVE  Drawn(AnyOf(pair, options, cuts, refused, v), made, sides)
  BY <1>1, <1>8, Zenon DEF AnyOf
<1>9. \A pair, eq : Drawn(Derive(pair, eq), made, sides)
  BY <1>4, <1>6, Zenon DEF Derive
<1> QED
  BY <1>4, <1>5, <1>6, <1>7, <1>8, <1>9 DEF Exactly

LEMMA BySplitTypeDrawn ==
  ASSUME NEW made, NEW sides, NEW k, NEW a, NEW b, NEW c, NEW d,
         Drawn(a, made, sides), Drawn(b, made, sides), Drawn(c, made, sides), Drawn(d, made, sides)
  PROVE  Drawn(BySplitType(k, a, b, c, d), made, sides)
  BY DEF BySplitType

VarsIn(c, sides) == c[1].var \in sides /\ c[2].var \in sides

LEMMA DrawnType1 ==
  ASSUME NEW sides, NEW map, NEW c1, NEW c2, NEW known, VarsIn(c1, sides), VarsIn(c2, sides)
  PROVE  Drawn(ProcessConcatEqType1(map, c1, c2, known),
               {MadeFor(c1, c2).t1, MadeFor(c1, c2).t2}, sides)
<1> DEFINE x == c1[1]
           y == c1[2]
           m == c2[1]
           n == c2[2]
           t1 == MadeFor(c1, c2).t1
           t2 == MadeFor(c1, c2).t2
           made == {t1, t2}
           Unlooped(t, a, b) == IF HasSelfCut(map, a.var, b.var) THEN {} ELSE {Cut(t, a, b)}
           yUnlooped == Unlooped(t1, m, y)
           nUnlooped == Unlooped(t2, x, n)
           yCuts == IF Allowed(map, m, y) THEN {Cut(t1, m, y)} ELSE {}
           nCuts == IF Allowed(map, x, n) THEN {Cut(t2, x, n)} ELSE {}
           v == Giving(Giving(val, t1, Piece(StrOf(val, m), StrOf(val, x))),
                       t2, Piece(StrOf(val, x), StrOf(val, m)))
           yCut == Overlap(m, x, y, n, t1)
           nCut == Overlap(x, m, n, y, t2)
           same == {Eq(x, <<m>>), Eq(y, <<n>>)}
           type == SplitType(LenValue(known, x), LenValue(known, y),
                             LenValue(known, m), LenValue(known, n))
           options ==
             OptionIf(yCuts, yCut, {LenOf(v, m) > LenOf(v, x), LenOf(v, y) > LenOf(v, n)})
             \o OptionIf(nCuts, nCut, {LenOf(v, x) > LenOf(v, m), LenOf(v, n) > LenOf(v, y)})
             \o <<Option(same, {LenOf(v, x) = LenOf(v, m), LenOf(v, y) = LenOf(v, n)})>>
           refused == {} \in {yCuts, nCuts}
<1>1. ProcessConcatEqType1(map, c1, c2, known) =
        BySplitType(type, OneCut(<<c1, c2>>, yCut, yUnlooped, v), Exactly(<<c1, c2>>, same, v),
                    OneCut(<<c1, c2>>, nCut, nUnlooped, v),
                    AnyOf(<<c1, c2>>, options, yCuts \cup nCuts, refused, v))
  BY Zenon DEF ProcessConcatEqType1
<1>2. /\ CutsIn({}, made, sides) /\ CutsIn({Cut(t1, m, y)}, made, sides)
      /\ CutsIn({Cut(t2, x, n)}, made, sides)
  BY CutsInFacts DEF VarsIn
<1>3. /\ CutsIn(yUnlooped, made, sides) /\ CutsIn(nUnlooped, made, sides)
      /\ CutsIn(yCuts, made, sides) /\ CutsIn(nCuts, made, sides)
  BY <1>2
<1> HIDE DEF yUnlooped, nUnlooped, yCuts, nCuts, v, yCut, nCut, same, type, options, refused
<1>4. CutsIn(yCuts \cup nCuts, made, sides)
  BY <1>3, CutsInFacts
<1> QED
  BY <1>1, <1>3, <1>4, DrawnOutcomes, BySplitTypeDrawn

LEMMA DrawnType2 ==
  ASSUME NEW sides, NEW map, NEW c1, NEW c2, NEW known, VarsIn(c1, sides), VarsIn(c2, sides)
  PROVE  Drawn(ProcessConcatEqType2(map, c1, c2, known), {MadeFor(c1, c2).t1}, sides)
<1> DEFINE m == c2[1]
           y == c1[2]
           made == {MadeFor(c1, c2).t1}
           cuts == IF Allowed(map, m, y) THEN {Cut(MadeFor(c1, c2).t1, m, y)} ELSE {}
<1>1. \E k, v, same, yCut, at, options, refused :
        ProcessConcatEqType2(map, c1, c2, known) =
          BySplitType(k, OneCut(<<c1, c2>>, yCut, cuts, v), Exactly(<<c1, c2>>, same, v),
                      Exactly(<<c1, c2>>, at, v), AnyOf(<<c1, c2>>, options, cuts, refused, v))
  BY ZenonT(60) DEF ProcessConcatEqType2
<1>2. CutsIn(cuts, made, sides)
  BY CutsInFacts DEF VarsIn
<1> HIDE DEF cuts
<1> QED
  BY <1>1, <1>2, DrawnOutcomes, BySplitTypeDrawn

LEMMA DrawnType3 ==
  ASSUME NEW sides, NEW map, NEW c1, NEW c2, NEW known, VarsIn(c1, sides), VarsIn(c2, sides)
  PROVE  Drawn(ProcessConcatEqType3(map, c1, c2, known), {MadeFor(c1, c2).t1}, sides)
<1> DEFINE x == c1[1]
           n == c2[2]
           made == {MadeFor(c1, c2).t1}
           cuts == IF Allowed(map, x, n) THEN {Cut(MadeFor(c1, c2).t1, x, n)} ELSE {}
<1>1. \E k, v, same, nCut, at, options, refused :
        ProcessConcatEqType3(map, c1, c2, known) =
          BySplitType(k, Exactly(<<c1, c2>>, at, v), Exactly(<<c1, c2>>, same, v),
                      OneCut(<<c1, c2>>, nCut, cuts, v), AnyOf(<<c1, c2>>, options, cuts, refused, v))
  BY ZenonT(60) DEF ProcessConcatEqType3
<1>2. CutsIn(cuts, made, sides)
  BY CutsInFacts DEF VarsIn
<1> HIDE DEF cuts
<1> QED
  BY <1>1, <1>2, DrawnOutcomes, BySplitTypeDrawn

LEMMA DrawnOthers ==
  ASSUME NEW made, NEW sides, NEW map, NEW c1, NEW c2
  PROVE  /\ Drawn(ProcessConcatEqType4(c1, c2), made, sides)
         /\ Drawn(ProcessConcatEqType5(c1, c2), made, sides)
         /\ Drawn(ProcessConcatEqType6(map, c1, c2), made, sides)
<1>1. Drawn(ProcessConcatEqType4(c1, c2), made, sides)
  BY DrawnOutcomes, Zenon DEF ProcessConcatEqType4
<1>2. Drawn(ProcessConcatEqType5(c1, c2), made, sides)
  BY DrawnOutcomes, Zenon DEF ProcessConcatEqType5
<1>3. Drawn(ProcessConcatEqType6(map, c1, c2), made, sides)
  <2>1. ASSUME NEW v, NEW xor, NEW pair, NEW options, NEW cuts, NEW refused
        PROVE  Drawn(Outcome({Forgotten(Axiom(v, xor, pair, options, cuts))}, {}, refused, v),
                     made, sides)
    <3> DEFINE a == Axiom(v, xor, pair, options, cuts)
    <3>1. DOMAIN a = Fields
      BY AxiomIs
    <3> HIDE DEF a
    <3>2. ~ Forgotten(a).remembered
      BY <3>1 DEF Forgotten, Fields
    <3> DEFINE b == Forgotten(a)
    <3>3. ~ b.remembered
      BY <3>2
    <3> HIDE DEF b
    <3>4. Drawn(Outcome({b}, {}, refused, v), made, sides)
      BY <3>3, CutsInFacts, OutcomeIs DEF Drawn
    <3> QED
      BY <3>4 DEF b, a
  <2> QED
    BY <2>1, Zenon DEF ProcessConcatEqType6
<1> QED
  BY <1>1, <1>2, <1>3

(* The variables a split may cut along.                                    *)
Along(c1, c2) ==
  IF MakesVariables(c1, c2) THEN {MadeFor(c1, c2).t1, MadeFor(c1, c2).t2} \ {0} ELSE {}

LEMMA SplitDrawn ==
  ASSUME NEW V, NEW c1 \in Pairs(V), NEW c2 \in Pairs(V), NEW map, NEW known, NEW sides,
         VarsIn(c1, sides), VarsIn(c2, sides),
         MakesVariables(c1, c2) => MadeFor(c1, c2).t1 # 0
                                   /\ (MadeFor(c1, c2).t2 = 0 => Sorts(c1) \/ Sorts(c2))
  PROVE  Drawn(Split(map, c1, c2, known), Along(c1, c2), sides)
<1> DEFINE kind == <<Const(c1), Const(c2)>>
           None == <<FALSE, FALSE>>
           Left == <<TRUE, FALSE>>
           Right == <<FALSE, TRUE>>
           t1 == MadeFor(c1, c2).t1
           t2 == MadeFor(c1, c2).t2
           made == Along(c1, c2)
           Is(a, b) == Const(c1) = a /\ Const(c2) = b
           T1 == ProcessConcatEqType1(map, c1, c2, known)
           T2(a, b) == ProcessConcatEqType2(map, a, b, known)
           T3(a, b) == ProcessConcatEqType3(map, a, b, known)
           T4 == ProcessConcatEqType4(c1, c2)
           T5 == ProcessConcatEqType5(c1, c2)
           T6(a, b) == ProcessConcatEqType6(map, a, b)
           Goal(o) == Drawn(o, made, sides)
<1>1. MadeFor(c2, c1) = MadeFor(c1, c2)
  BY MadeForIs
<1>2. None # Left /\ None # Right /\ Left # Right
  OBVIOUS
<1>3. MakesVariables(c1, c2) <=> ~ Is(Left, Left) /\ ~ Is(Right, Right)
  BY DEF MakesVariables
<1>4. Is(None, None) => ~ Sorts(c1) /\ ~ Sorts(c2)
  BY DEF Const, Sorts
<1>5. \A o, W : Drawn(o, W, sides) /\ W \subseteq made => Goal(o)
  BY DEF Drawn, CutsIn
<1>6. Is(None, None) => Goal(T1)
  <2> SUFFICES ASSUME Is(None, None) PROVE Goal(T1)
    OBVIOUS
  <2>1. t1 # 0 /\ t2 # 0
    BY <1>2, <1>3, <1>4
  <2>2. Drawn(T1, {t1, t2}, sides)
    BY DrawnType1
  <2> QED
    BY <1>2, <1>3, <1>5, <2>1, <2>2 DEF Along
<1>7. ASSUME MakesVariables(c1, c2)
      PROVE  Goal(T2(c1, c2)) /\ Goal(T2(c2, c1)) /\ Goal(T3(c1, c2)) /\ Goal(T3(c2, c1))
  <2>1. {t1} \subseteq made
    BY <1>7 DEF Along
  <2>2. /\ Drawn(T2(c1, c2), {t1}, sides) /\ Drawn(T2(c2, c1), {t1}, sides)
        /\ Drawn(T3(c1, c2), {t1}, sides) /\ Drawn(T3(c2, c1), {t1}, sides)
    BY <1>1, DrawnType2, DrawnType3
  <2> HIDE DEF T2, T3, made
  <2> QED
    BY <1>5, <2>1, <2>2
<1>8. Goal(T4) /\ Goal(T5) /\ Goal(T6(c1, c2)) /\ Goal(T6(c2, c1)) /\ Goal(Nothing)
  BY DrawnOthers, DrawnOutcomes
<1>9. Split(map, c1, c2, known) =
         CASE Is(None, None) -> T1
           [] Is(None, Right) -> T2(c1, c2)
           [] Is(Right, None) -> T2(c2, c1)
           [] Is(None, Left) -> T3(c1, c2)
           [] Is(Left, None) -> T3(c2, c1)
           [] Is(Left, Left) -> T4
           [] Is(Right, Right) -> T5
           [] Is(Left, Right) -> T6(c1, c2)
           [] Is(Right, Left) -> T6(c2, c1)
           [] OTHER -> Nothing
  BY DEF Split
<1>10. Is(None, Right) \/ Is(Right, None) \/ Is(None, Left) \/ Is(Left, None)
         => MakesVariables(c1, c2)
  BY <1>2, <1>3
<1> HIDE DEF T1, T2, T3, T4, T5, T6, Is, Goal
<1> DEFINE s == Split(map, c1, c2, known)
<1>11. Goal(s)
  BY <1>6, <1>7, <1>8, <1>9, <1>10
<1> QED
  BY <1>11 DEF Goal

-----------------------------------------------------------------------------
(* A non-empty set of numbers has a least one.                             *)
LEMMA LeastOf ==
  ASSUME NEW T, T \subseteq Nat, T # {}
  PROVE  \E x \in T : \A y \in T : x <= y
<1> DEFINE R == OpToRel(<, Nat)
<1>1. IsWellFoundedOn(R, Nat)
  BY NatLessThanWellFounded
<1>2. \A x, y \in Nat : y < x => <<y, x>> \in R
  BY DEF OpToRel
<1> HIDE DEF R
<1>3. PICK x \in T : \A y \in T : ~ (<<y, x>> \in R)
  BY <1>1, WFMin
<1>4. \A y \in T : x <= y
  <2> TAKE y \in T
  <2>1. x \in Nat /\ y \in Nat
    OBVIOUS
  <2>2. ~ (y < x)
    BY <1>2, <1>3, <2>1
  <2> QED
    BY <2>1, <2>2
<1> QED
  BY <1>4

-----------------------------------------------------------------------------
(* An entry is of some variables, and includes the entries below it.       *)
StackOK(stack) ==
  /\ \A e \in stack : e.level \in Int /\ e.level >= -1 /\ e.vars # {}
  /\ \A e, f \in stack : e.level <= f.level => e.vars \subseteq f.vars

LEMMA TopHolds ==
  ASSUME NEW stack, StackOK(stack), NEW d \in Int, Levels(stack, d)
  PROVE  \A e \in stack : e.vars \subseteq TopVars(stack)
<1> SUFFICES ASSUME NEW e \in stack PROVE e.vars \subseteq TopVars(stack)
  OBVIOUS
<1> DEFINE T == {d - f.level : f \in stack}
<1>1. \A f \in stack : f.level \in Int /\ f.level <= d
  BY DEF Levels
<1>2. T \subseteq Nat /\ T # {}
  BY <1>1
<1> HIDE DEF T
<1>3. PICK x \in T : \A y \in T : x <= y
  BY <1>2, LeastOf
<1>4. PICK top \in stack : x = d - top.level
  BY DEF T
<1>5. \A f \in stack : f.level <= top.level
  <2> TAKE f \in stack
  <2>1. d - f.level \in T
    BY DEF T
  <2>2. d - top.level <= d - f.level
    BY <1>3, <1>4, <2>1
  <2> QED
    BY <1>1, <2>2
<1>6. e.vars \subseteq top.vars
  BY <1>5 DEF StackOK
<1>7. top.vars \subseteq TopVars(stack)
  BY <1>5 DEF TopVars
<1> QED
  BY <1>6, <1>7

(* A cut is of a variable along a later one.                               *)
CutDown(c, V) == c.new \in Node /\ c.from \subseteq V \cap Node /\ \A x \in c.from : x < c.new

CutsDown(axioms, table) ==
  \A a \in axioms : a.remembered => \A c \in a.cuts : CutDown(c, Known(axioms, table, a.level))

(* What is known of a variable that was cut is known of what it was cut    *)
(* from, at the same levels, for as long as the cut is remembered.         *)
CutKept(map, c, l) ==
  \A x \in c.from :
    /\ \E e \in map[x] : e.level <= l
    /\ \A e \in map[x] : \E f \in map[c.new] :
         (f.level <= e.level \/ f.level <= l) /\ e.vars \subseteq f.vars

CutsKept(map, axioms) ==
  \A a \in axioms : a.remembered => \A c \in a.cuts : CutKept(map, c, a.level)

StacksOK(map) == \A n \in Node : StackOK(map[n])

-----------------------------------------------------------------------------
LEMMA InitStacks ==
  ASSUME NEW map, NEW nodes, StacksOK(map)
  PROVE  /\ StacksOK(CheckandInit(map, nodes))
         /\ \A n \in Node : n \in nodes => CheckandInit(map, nodes)[n] # {}
         /\ \A n \in Node : map[n] # {} => CheckandInit(map, nodes)[n] = map[n]
         /\ \A n \in Node : map[n] \subseteq CheckandInit(map, nodes)[n]
<1>1. \A n : WithCut({}, -1, {n}) = {[level |-> -1, vars |-> {n}]}
  BY DEF WithCut, TopVars
<1>2. ASSUME NEW n PROVE StackOK({[level |-> -1, vars |-> {n}]})
  BY DEF StackOK
<1>3. \A n \in Node : CheckandInit(map, nodes)[n] =
        IF n \in nodes /\ map[n] = {} THEN {[level |-> -1, vars |-> {n}]} ELSE map[n]
  BY <1>1 DEF CheckandInit
<1>4. StacksOK(CheckandInit(map, nodes))
  BY <1>2, <1>3 DEF StacksOK
<1> QED
  BY <1>3, <1>4

LEMMA InitKept ==
  ASSUME NEW map, NEW nodes, StacksOK(map), NEW c, NEW l, c.from \subseteq Node, c.new \in Node,
         CutKept(map, c, l)
  PROVE  CutKept(CheckandInit(map, nodes), c, l)
<1>1. \A x \in c.from : CheckandInit(map, nodes)[x] = map[x]
  BY InitStacks DEF CutKept
<1>2. map[c.new] \subseteq CheckandInit(map, nodes)[c.new]
  BY InitStacks
<1> QED
  BY <1>1, <1>2 DEF CutKept

(* The stack of a variable after cuts along made ones.                     *)
Gained(map, cuts, n) ==
  [level |-> sLevel,
   vars |-> TopVars(map[n]) \cup
              UNION {TopVars(map[src]) : src \in UNION {c.from : c \in {d \in cuts : d.new = n}}}]

LEMMA MergeIs ==
  ASSUME NEW map, NEW cuts, NEW n \in Node
  PROVE  /\ ~ (\E c \in cuts : c.new = n) => MergeCuts(map, cuts)[n] = map[n]
         /\ (\E c \in cuts : c.new = n) =>
              MergeCuts(map, cuts)[n] = {e \in map[n] : e.level # sLevel} \cup {Gained(map, cuts, n)}
  BY DEF MergeCuts, AddCutInfoMerge, WithCut, Gained

LEMMA GainedIs ==
  ASSUME NEW map, NEW cuts, NEW n
  PROVE  /\ Gained(map, cuts, n).level = sLevel
         /\ TopVars(map[n]) \subseteq Gained(map, cuts, n).vars
         /\ \A c \in cuts : c.new = n => \A x \in c.from : TopVars(map[x]) \subseteq Gained(map, cuts, n).vars
  BY DEF Gained

MapHere(map) == sLevel \in Nat /\ StacksOK(map) /\ \A n \in Node : Levels(map[n], sLevel)

LEMMA TopsHold ==
  ASSUME NEW map, MapHere(map)
  PROVE  \A n \in Node : \A e \in map[n] : e.vars \subseteq TopVars(map[n])
  BY TopHolds DEF MapHere, StacksOK

LEMMA MergeStacks ==
  ASSUME NEW map, MapHere(map), NEW cuts,
         \A c \in cuts : c.from \subseteq Node /\ c.from # {} /\ \A x \in c.from : map[x] # {}
  PROVE  StacksOK(MergeCuts(map, cuts))
<1> SUFFICES ASSUME NEW n \in Node PROVE StackOK(MergeCuts(map, cuts)[n])
  BY DEF StacksOK
<1>1. StackOK(map[n]) /\ \A e \in map[n] : e.level \in Int /\ e.level <= sLevel
  BY DEF MapHere, StacksOK, Levels
<1>2. CASE ~ (\E c \in cuts : c.new = n)
  BY <1>1, <1>2, MergeIs
<1>3. ASSUME NEW c \in cuts, c.new = n PROVE StackOK(MergeCuts(map, cuts)[n])
  <2> DEFINE g == Gained(map, cuts, n)
  <2>1. MergeCuts(map, cuts)[n] = {e \in map[n] : e.level # sLevel} \cup {g}
    BY <1>3, MergeIs
  <2>2. PICK x \in c.from : x \in Node /\ map[x] # {}
    BY <1>3
  <2>3. PICK e \in map[x] : e.vars # {} /\ e.vars \subseteq TopVars(map[x])
    BY <2>2, TopsHold DEF MapHere, StacksOK, StackOK
  <2>4. g.level = sLevel /\ g.vars # {} /\ TopVars(map[n]) \subseteq g.vars
    BY <1>3, <2>3, GainedIs
  <2>5. \A f \in map[n] : f.vars \subseteq g.vars
    BY <2>4, TopsHold
  <2> HIDE DEF g
  <2>6. \A f \in map[n] : f.level # sLevel => ~ (sLevel <= f.level)
    BY <1>1 DEF MapHere
  <2> QED
    BY <1>1, <2>1, <2>4, <2>5, <2>6 DEF StackOK, MapHere
<1> QED
  BY <1>2, <1>3

(* A remembered cut stays known, if no variable it was cut from is cut.    *)
LEMMA MergeKeeps ==
  ASSUME NEW map, MapHere(map), NEW cuts, NEW c, NEW l \in Int, l <= sLevel,
         c.from \subseteq Node, c.new \in Node, CutKept(map, c, l),
         \A d \in cuts : d.new \notin c.from
  PROVE  CutKept(MergeCuts(map, cuts), c, l)
<1> DEFINE more == MergeCuts(map, cuts)
<1>1. \A x \in c.from : more[x] = map[x]
  BY MergeIs
<1>2. \A f \in map[c.new] : \E h \in more[c.new] : h.level = f.level /\ f.vars \subseteq h.vars
  <2> TAKE f \in map[c.new]
  <2>1. CASE ~ (\E d \in cuts : d.new = c.new)
    BY <2>1, MergeIs
  <2>2. CASE \E d \in cuts : d.new = c.new
    <3> DEFINE g == Gained(map, cuts, c.new)
    <3>1. more[c.new] = {e \in map[c.new] : e.level # sLevel} \cup {g}
      BY <2>2, MergeIs
    <3>2. g.level = sLevel /\ f.vars \subseteq g.vars
      BY GainedIs, TopsHold
    <3> HIDE DEF g, more
    <3> QED
      BY <3>1, <3>2
  <2> QED
    BY <2>1, <2>2
<1> HIDE DEF more
<1>3. CutKept(more, c, l)
  <2> SUFFICES ASSUME NEW x \in c.from
               PROVE  /\ \E e \in more[x] : e.level <= l
                      /\ \A e \in more[x] : \E f \in more[c.new] :
                           (f.level <= e.level \/ f.level <= l) /\ e.vars \subseteq f.vars
    BY DEF CutKept
  <2>1. \E e \in more[x] : e.level <= l
    BY <1>1 DEF CutKept
  <2>2. ASSUME NEW e \in more[x]
        PROVE  \E f \in more[c.new] : (f.level <= e.level \/ f.level <= l) /\ e.vars \subseteq f.vars
    <3>1. PICK f \in map[c.new] : (f.level <= e.level \/ f.level <= l) /\ e.vars \subseteq f.vars
      BY <1>1, <2>2 DEF CutKept
    <3>2. PICK h \in more[c.new] : h.level = f.level /\ f.vars \subseteq h.vars
      BY <1>2
    <3> QED
      BY <3>1, <3>2
  <2> QED
    BY <2>1, <2>2
<1> QED
  BY <1>3 DEF more

(* A new cut is known.                                                     *)
LEMMA MergeRecords ==
  ASSUME NEW map, MapHere(map), NEW cuts, NEW c \in cuts,
         c.from \subseteq Node, c.new \in Node, \A x \in c.from : map[x] # {},
         \A d \in cuts : d.new \notin c.from
  PROVE  CutKept(MergeCuts(map, cuts), c, sLevel)
<1> DEFINE more == MergeCuts(map, cuts)
           g == Gained(map, cuts, c.new)
<1>1. \A x \in c.from : more[x] = map[x]
  BY MergeIs
<1>2. g \in more[c.new]
  BY MergeIs
<1>3. g.level = sLevel /\ \A x \in c.from : TopVars(map[x]) \subseteq g.vars
  BY GainedIs
<1>4. \A x \in c.from : \A e \in map[x] : e.level <= sLevel /\ e.vars \subseteq g.vars
  BY <1>3, TopsHold DEF MapHere, Levels
<1> HIDE DEF more, g
<1>5. sLevel <= sLevel
  BY DEF MapHere
<1>6. CutKept(more, c, sLevel)
  BY <1>1, <1>2, <1>3, <1>4, <1>5 DEF CutKept
<1> QED
  BY <1>6 DEF more

-----------------------------------------------------------------------------
(* The inductive form of CutInfoComplete.                                  *)
CompleteInv ==
  /\ KeysBelow(varForBreakConcat) /\ CutsDown(inForce, varForBreakConcat)
  /\ StacksOK(cutVARMap) /\ CutsKept(cutVARMap, inForce)

LEMMA CompleteInit == Init => CompleteInv
<1> SUFFICES ASSUME Init PROVE CompleteInv
  OBVIOUS
<1>1. inForce = {} /\ cutVARMap = [n \in Node |-> {}] /\ DOMAIN varForBreakConcat = {}
  BY DEF Init
<1> QED
  BY <1>1 DEF CompleteInv, KeysBelow, CutsDown, StacksOK, StackOK, CutsKept

(* The cuts of the axioms in force stay right when more is in force.       *)
LEMMA CutsDownKept ==
  ASSUME NEW axioms, NEW new, NEW table, NEW wider, TableGrows(table, wider),
         \A a \in axioms : a.level \in Int, CutsDown(axioms, table),
         \A a \in new : a.remembered =>
           \A c \in a.cuts : CutDown(c, Known(axioms \cup new, wider, a.level))
  PROVE  CutsDown(axioms \cup new, wider)
<1> SUFFICES ASSUME NEW a \in axioms, a.remembered, NEW c \in a.cuts
             PROVE  CutDown(c, Known(axioms \cup new, wider, a.level))
  BY DEF CutsDown
<1>1. Known(axioms, table, a.level) \subseteq Known(axioms \cup new, wider, a.level)
  BY KnownGrows DEF TableGrows
<1> QED
  BY <1>1 DEF CutsDown, CutDown

LEMMA QuietComplete == ASSUME Sound, CompleteInv, Quiet PROVE CompleteInv'
<1>1. PICK new : NoCuts(new) /\ inForce' = inForce \cup new
  BY DEF Quiet
<1>2. \A a \in inForce : a.level \in Int
  BY SoundFacts
<1>3. CutsDown(inForce \cup new, varForBreakConcat')
  <2> DEFINE wider == varForBreakConcat'
  <2>1. TableGrows(varForBreakConcat, wider)
    BY DEF Quiet
  <2> HIDE DEF wider
  <2>2. CutsDown(inForce \cup new, wider)
    BY <1>1, <1>2, <2>1, CutsDownKept DEF CompleteInv, NoCuts
  <2> QED
    BY <2>2 DEF wider
<1>4. CutsKept(cutVARMap, inForce \cup new)
  BY <1>1 DEF CompleteInv, CutsKept, NoCuts
<1> QED
  BY <1>1, <1>3, <1>4 DEF CompleteInv, Quiet

-----------------------------------------------------------------------------
(* The variables of a pair that is split.                                  *)
EndVars(c1, c2) == {c1[1].var, c1[2].var, c2[1].var, c2[2].var}

LEMMA EndVarsKnown ==
  ASSUME NEW V, NEW c1 \in Pairs(V), NEW c2 \in Pairs(V)
  PROVE  /\ EndVars(c1, c2) \subseteq V
         /\ EndVars(c1, c2) \ {0} \subseteq VarsOf(c1) \cup VarsOf(c2)
         /\ VarsIn(c1, EndVars(c1, c2)) /\ VarsIn(c2, EndVars(c1, c2))
         /\ \A c \in KeyOf(c1, c2) : \A i \in DOMAIN c : c[i].var \in EndVars(c1, c2)
<1>1. ASSUME NEW c \in Pairs(V)
      PROVE  /\ c[1].var \in V /\ c[2].var \in V /\ DOMAIN c = 1 .. 2
             /\ {c[1].var, c[2].var} \ {0} \subseteq VarsOf(c)
  <2>1. PICK a \in Atoms(V), b \in Atoms(V) : c = <<a, b>>
    BY <1>1 DEF Pairs
  <2>2. a.var \in V /\ b.var \in V
    BY DEF Atoms
  <2>3. DOMAIN c = 1 .. 2 /\ c[1] = a /\ c[2] = b
    BY <2>1
  <2>4. Range(c) = {a, b}
    BY <2>3 DEF Range
  <2> QED
    BY <2>2, <2>3, <2>4 DEF VarsOf, IsConstStr
<1>2. \A c \in KeyOf(c1, c2) : \A i \in DOMAIN c : c[i].var \in EndVars(c1, c2)
  <2> SUFFICES ASSUME NEW c \in {c1, c2}, NEW i \in DOMAIN c PROVE c[i].var \in EndVars(c1, c2)
    BY DEF KeyOf
  <2>1. i \in {1, 2}
    BY <1>1
  <2> QED
    BY <2>1 DEF EndVars
<1> QED
  BY <1>1, <1>2 DEF EndVars, VarsIn

LEMMA RegisterKeys ==
  ASSUME Sound, NEW c1, NEW c2, Splittable(c1, c2), Register(c1, c2), KeysBelow(varForBreakConcat),
         MakesVariables(c1, c2) /\ NewKey(c1, c2) => tmpStringVarCount + 2 <= MaxNode
  PROVE  KeysBelow(varForBreakConcat')
<1> DEFINE made == MadeFor(c1, c2)
           key == KeyOf(c1, c2)
<1>1. CASE NewKey(c1, c2) /\ MakesVariables(c1, c2)
  <2>1. varForBreakConcat' = Entered(key, made)
    BY <1>1 DEF Register
  <2>2. made.t1 > tmpStringVarCount /\ (made.t2 = 0 \/ made.t2 > tmpStringVarCount)
        /\ made.t1 \in Node /\ (made.t2 = 0 \/ made.t2 \in Node)
    BY <1>1, MadeForSplit DEF Splittable, MadeNew
  <2>3. EndVars(c1, c2) \subseteq 0 .. tmpStringVarCount
    BY EndVarsKnown, HereBelow DEF Splittable, Unsplit
  <2>4. \A c \in key : \A i \in DOMAIN c : c[i].var \in EndVars(c1, c2)
    BY EndVarsKnown DEF Splittable, Unsplit
  <2>5. tmpStringVarCount \in Nat
    BY ConstantsAssumption, MaxNodeAssumption DEF Sound, StateOK, TableOK, Node
  <2>6. \A t \in {made.t1, made.t2} \ {0} : \A c \in key : \A i \in DOMAIN c : c[i].var < t
    BY <2>2, <2>3, <2>4, <2>5, MaxNodeAssumption DEF Node
  <2> HIDE DEF made, key
  <2>7. \A k \in DOMAIN Entered(key, made) :
          \/ k \in DOMAIN varForBreakConcat /\ Entered(key, made)[k] = varForBreakConcat[k]
          \/ k = key /\ Entered(key, made)[k] = made
    BY DEF Entered
  <2> QED
    BY <2>1, <2>6, <2>7 DEF KeysBelow
<1>2. CASE ~ (NewKey(c1, c2) /\ MakesVariables(c1, c2))
  BY <1>2 DEF Register
<1> QED
  BY <1>1, <1>2

(* The cuts of a split: from variables known, in the cut information, and  *)
(* along variables not yet known.                                          *)
LEMMA SplitCuts ==
  ASSUME Sound, NEW c1, NEW c2, Splittable(c1, c2), Register(c1, c2), KeysBelow(varForBreakConcat),
         MakesVariables(c1, c2) /\ NewKey(c1, c2) => tmpStringVarCount + 2 <= MaxNode,
         NEW map, NEW known
  PROVE  /\ \A c \in Split(map, c1, c2, known).cuts :
              /\ CutDown(c, Here) /\ c.new \notin Here /\ c.from # {}
              /\ c.from \subseteq VarsOf(c1) \cup VarsOf(c2)
         /\ \A a \in Split(map, c1, c2, known).axioms :
              a.remembered => a.cuts \subseteq Split(map, c1, c2, known).cuts
<1> DEFINE o == Split(map, c1, c2, known)
           sides == EndVars(c1, c2)
           made == MadeFor(c1, c2)
           key == KeyOf(c1, c2)
<1>1. c1 \in Pairs(Here) /\ c2 \in Pairs(Here)
  BY DEF Splittable, Unsplit
<1>2. /\ VarsIn(c1, sides) /\ VarsIn(c2, sides) /\ sides \subseteq Here
      /\ sides \ {0} \subseteq VarsOf(c1) \cup VarsOf(c2)
  BY <1>1, EndVarsKnown
<1>3. MakesVariables(c1, c2) => /\ made.t1 \in Node \ Here /\ (made.t2 = 0 \/ made.t2 \in Node \ Here)
                                /\ made.t2 = 0 => Sorts(c1) \/ Sorts(c2)
  BY MadeForSplit DEF Splittable, MadeNew
<1>4. 0 \notin Node
  BY DEF Node
<1>5. Drawn(o, Along(c1, c2), sides)
  BY <1>1, <1>2, <1>3, <1>4, SplitDrawn
<1>6. \A c \in o.cuts : c.from \subseteq Node
  BY CutsFromNodes
<1>7. MakesVariables(c1, c2) =>
        \A t \in {made.t1, made.t2} \ {0} : \A c \in key : \A i \in DOMAIN c : c[i].var < t
  BY Registered, RegisterKeys DEF KeysBelow, Splittable
<1>8. \A x \in sides : \E c \in key : \E i \in DOMAIN c : c[i].var = x
  <2>1. DOMAIN c1 = 1 .. 2 /\ DOMAIN c2 = 1 .. 2
    BY <1>1 DEF Pairs
  <2>2. 1 \in DOMAIN c1 /\ 2 \in DOMAIN c1 /\ 1 \in DOMAIN c2 /\ 2 \in DOMAIN c2
    BY <2>1
  <2> QED
    BY <2>2 DEF EndVars, KeyOf
<1> HIDE DEF o, sides, made, key
<1>9. ASSUME NEW c \in o.cuts
      PROVE  /\ CutDown(c, Here) /\ c.new \notin Here /\ c.from # {}
             /\ c.from \subseteq VarsOf(c1) \cup VarsOf(c2)
  <2>1. c.new \in Along(c1, c2) /\ c.from \subseteq sides /\ c.from # {}
    BY <1>5, <1>9 DEF Drawn, CutsIn
  <2>2. MakesVariables(c1, c2) /\ c.new \in {made.t1, made.t2} \ {0}
    BY <2>1 DEF Along, made
  <2>3. c.new \in Node \ Here
    BY <1>3, <2>2
  <2>4. c.from \subseteq Node
    BY <1>6, <1>9
  <2>5. \A x \in c.from : x < c.new
    BY <1>7, <1>8, <2>1, <2>2
  <2> QED
    BY <1>2, <1>4, <2>1, <2>3, <2>4, <2>5 DEF CutDown
<1>10. \A a \in o.axioms : a.remembered => a.cuts \subseteq o.cuts
  BY <1>5 DEF Drawn
<1> QED
  BY <1>9, <1>10 DEF o

-----------------------------------------------------------------------------
LEMMA SplitComplete ==
  ASSUME Sound, CompleteInv, LevelInv, NEW c1, NEW c2, Splittable(c1, c2),
         NEW known, NEW axioms, NoCuts(axioms), SplitConcats(c1, c2, known, axioms)
  PROVE  CompleteInv'
<1> DEFINE map(nodes) == CheckandInit(cutVARMap, nodes)
           outcome(nodes) == Split(map(nodes), c1, c2, known)
<1>1. PICK nodes : /\ VarsOf(c1) \cup VarsOf(c2) \subseteq nodes
                   /\ inForce' = inForce \cup axioms \cup outcome(nodes).axioms
                   /\ cutVARMap' = MergeCuts(map(nodes), outcome(nodes).cuts)
  <2> DEFINE extra == IF MadeFor(c1, c2).t2 # 0 /\ NewKey(c1, c2)
                      THEN {MadeFor(c1, c2).t1, MadeFor(c1, c2).t2} ELSE {}
             nodes == VarsOf(c1) \cup VarsOf(c2) \cup extra
  <2>1. /\ inForce' = inForce \cup (axioms \cup outcome(nodes).axioms)
        /\ cutVARMap' = MergeCuts(map(nodes), outcome(nodes).cuts)
    BY Zenon DEF SplitConcats, AddAxiom
  <2>2. VarsOf(c1) \cup VarsOf(c2) \subseteq nodes
    OBVIOUS
  <2> HIDE DEF nodes, map, outcome
  <2> QED
    BY <2>1, <2>2
<1>2. /\ MakesVariables(c1, c2) /\ NewKey(c1, c2) => tmpStringVarCount + 2 <= MaxNode
      /\ Register(c1, c2)
  BY DEF SplitConcats
<1> DEFINE o == outcome(nodes)
           start == map(nodes)
           cuts == o.cuts
           new == axioms \cup o.axioms
           table == varForBreakConcat'
<1>3. KeysBelow(table) /\ TableGrows(varForBreakConcat, table)
  BY <1>2, RegisterKeys, Registered DEF CompleteInv, Splittable
<1>4. /\ \A c \in cuts : /\ CutDown(c, Here) /\ c.new \notin Here /\ c.from # {}
                         /\ c.from \subseteq nodes
      /\ \A a \in o.axioms : a.remembered => a.cuts \subseteq cuts
  BY <1>1, <1>2, SplitCuts DEF CompleteInv
<1>5. \A a \in o.axioms : a.level = sLevel
  BY SplitRecorded DEF Recorded, Fresh
<1>6. /\ StacksOK(start) /\ \A n \in Node : n \in nodes => start[n] # {}
      /\ \A n \in Node : Levels(start[n], sLevel)
  BY InitStacks, CheckandInitLevels DEF CompleteInv, LevelInv
<1>7. \A c, l : c.from \subseteq Node /\ c.new \in Node /\ CutKept(cutVARMap, c, l) =>
        CutKept(start, c, l)
  BY InitKept DEF CompleteInv
<1>8. inForce' = inForce \cup new /\ cutVARMap' = MergeCuts(start, cuts)
  BY <1>1
<1> HIDE DEF map, outcome
<1> HIDE DEF o, start, cuts, new, table
<1>9. MapHere(start)
  BY <1>6 DEF MapHere, LevelInv
<1>10. \A c \in cuts : c.new \in Node /\ c.from \subseteq Node /\ \A x \in c.from : start[x] # {}
  BY <1>4, <1>6 DEF CutDown
<1>11. \A a \in inForce : a.level \in Int /\ a.level <= sLevel
  BY SoundFacts
<1>12. sLevel \in Int
  BY SoundFacts
<1>13. \A a \in inForce : a.remembered => \A c \in a.cuts : CutDown(c, Here)
  <2> TAKE a \in inForce
  <2>1. Known(inForce, varForBreakConcat, a.level) \subseteq Here
    BY <1>11, <1>12, KnownGrows DEF Here
  <2> QED
    BY <2>1 DEF CompleteInv, CutsDown, CutDown
<1>14. Here \subseteq Known(inForce \cup new, table, sLevel)
  BY <1>3, <1>11, <1>12, KnownGrows DEF Here, TableGrows
<1>15. CutsDown(inForce \cup new, table)
  <2>1. \A a \in new : a.remembered =>
          \A c \in a.cuts : CutDown(c, Known(inForce \cup new, table, a.level))
    <3> SUFFICES ASSUME NEW a \in new, a.remembered, NEW c \in a.cuts
                 PROVE  CutDown(c, Known(inForce \cup new, table, a.level))
      OBVIOUS
    <3>1. a \in o.axioms
      BY DEF new, NoCuts
    <3> QED
      BY <1>4, <1>5, <1>14, <3>1 DEF CutDown
  <2> QED
    BY <1>3, <1>11, <2>1, CutsDownKept DEF CompleteInv
<1>16. StacksOK(MergeCuts(start, cuts))
  BY <1>4, <1>9, <1>10, MergeStacks
<1>17. CutsKept(MergeCuts(start, cuts), inForce \cup new)
  <2> DEFINE more == MergeCuts(start, cuts)
  <2> SUFFICES ASSUME NEW a \in inForce \cup new, a.remembered, NEW c \in a.cuts
               PROVE  CutKept(more, c, a.level)
    BY DEF CutsKept
  <2>1. CASE a \in inForce
    <3>1. CutDown(c, Here) /\ CutKept(cutVARMap, c, a.level)
      BY <1>13, <2>1 DEF CompleteInv, CutsKept
    <3>2. CutKept(start, c, a.level)
      BY <1>7, <3>1 DEF CutDown
    <3>3. \A d \in cuts : d.new \notin c.from
      BY <1>4, <3>1 DEF CutDown
    <3> QED
      BY <1>9, <1>11, <2>1, <3>1, <3>2, <3>3, MergeKeeps DEF CutDown
  <2>2. CASE a \notin inForce
    <3>1. a \in o.axioms
      BY <2>2 DEF new, NoCuts
    <3>2. c \in cuts /\ a.level = sLevel
      BY <1>4, <1>5, <3>1
    <3>3. \A d \in cuts : d.new \notin c.from
      BY <1>4, <3>2 DEF CutDown
    <3> QED
      BY <1>9, <1>10, <3>2, <3>3, MergeRecords
  <2> QED
    BY <2>1, <2>2
<1> QED
  BY <1>3, <1>8, <1>15, <1>16, <1>17 DEF CompleteInv, table

-----------------------------------------------------------------------------
(* What an axiom that is left makes known stays known.                     *)
LEMMA KnownLeft ==
  ASSUME NEW axioms, \A a \in axioms : DOMAIN a = Fields /\ a.level \in Int,
         NEW table, NEW l \in Int, NEW d \in Int, d <= l
  PROVE  Known(axioms, table, d) \subseteq Known(AxiomsLeft(axioms, l), table, d)
<1> SUFFICES ASSUME NEW n \in Known(axioms, table, d), n \notin 0 .. NumVars
             PROVE  n \in Known(AxiomsLeft(axioms, l), table, d)
  BY DEF Known
<1>1. PICK a \in axioms : a.level <= d /\ n \in MadeBy(a, table)
  BY DEF Known
<1> DEFINE b == IF a.level < l \/ a.level = 0 THEN a ELSE Forgotten(a)
<1>2. b.level = a.level /\ b.pair = a.pair
  BY ForgottenIs
<1>3. b \in AxiomsLeft(axioms, l)
  BY <1>1 DEF AxiomsLeft
<1> HIDE DEF b
<1>4. n \in MadeBy(b, table) /\ b.level <= d
  BY <1>1, <1>2 DEF MadeBy
<1> QED
  BY <1>3, <1>4 DEF Known

(* The axioms that stay remembered are of the scopes that cb_pop keeps the *)
(* cut information of.                                                     *)
LEMMA StillRemembered ==
  ASSUME NEW axioms, \A a \in axioms : DOMAIN a = Fields, NEW l,
         NEW a \in AxiomsLeft(axioms, l), a.remembered
  PROVE  a \in axioms /\ (a.level < l \/ a.level = 0)
<1>1. PICK b \in axioms : a = IF b.level < l \/ b.level = 0 THEN b ELSE Forgotten(b)
  BY DEF AxiomsLeft
<1>2. CASE b.level < l \/ b.level = 0
  BY <1>1, <1>2
<1>3. CASE ~ (b.level < l \/ b.level = 0)
  <2>1. DOMAIN b = Fields /\ a = [b EXCEPT !.remembered = FALSE]
    BY <1>1, <1>3 DEF Forgotten
  <2>2. a.remembered = FALSE
    BY <2>1 DEF Fields
  <2> QED
    BY <2>2
<1> QED
  BY <1>2, <1>3

(* An entry is left exactly if it is of such a scope.                      *)
LEMMA EntryLeft ==
  ASSUME NEW map, StacksOK(map), NEW l \in Nat, NEW n \in Node, NEW e
  PROVE  e \in CutsLeft(map, l)[n] <=> e \in map[n] /\ (e.level < l \/ e.level <= 0)
<1>1. \A f \in map[n] : f.level \in Int
  BY DEF StacksOK, StackOK
<1>2. CutsLeft(map, l)[n] =
        {f \in map[n] : \E g \in map[n] : f.level <= g.level /\ (g.level = 0 \/ g.level < l)}
  BY DEF CutsLeft
<1>3. ASSUME e \in map[n], e.level < l \/ e.level <= 0
      PROVE  \E g \in map[n] : e.level <= g.level /\ (g.level = 0 \/ g.level < l)
  <2>1. e.level \in Int
    BY <1>1, <1>3
  <2>2. e.level <= e.level /\ (e.level = 0 \/ e.level < l)
    BY <1>3, <2>1
  <2> QED
    BY <1>3, <2>2
<1>4. ASSUME NEW f \in map[n], NEW g \in map[n], f.level <= g.level, g.level = 0 \/ g.level < l
      PROVE  f.level < l \/ f.level <= 0
  BY <1>1, <1>4
<1> QED
  BY <1>2, <1>3, <1>4

LEMMA PopComplete == ASSUME Sound, CompleteInv, LevelInv, CbPop PROVE CompleteInv'
<1> DEFINE l == sLevel - 1
           left == AxiomsLeft(inForce, l)
           less == CutsLeft(cutVARMap, l)
<1>1. cutVARMap' = less /\ inForce' = left /\ varForBreakConcat' = varForBreakConcat
  BY DEF CbPop, AxiomsLeft, theory
<1>2. l \in Nat
  BY DEF CbPop, LevelInv
<1> HIDE DEF l
<1>3. \A a \in inForce : DOMAIN a = Fields /\ a.level \in Int
  BY SoundFacts DEF Sound, StateOK, AxiomOK
<1>4. \A a \in left : a.remembered => a \in inForce /\ (a.level < l \/ a.level = 0)
  BY <1>3, StillRemembered
<1>5. \A n \in Node : \A e : e \in less[n] <=> e \in cutVARMap[n] /\ (e.level < l \/ e.level <= 0)
  BY <1>2, EntryLeft DEF CompleteInv
<1>6. \A d \in Int : d <= l =>
        Known(inForce, varForBreakConcat, d) \subseteq Known(left, varForBreakConcat, d)
  BY <1>2, <1>3, KnownLeft
<1> HIDE DEF left, less
<1>7. CutsDown(left, varForBreakConcat)
  <2> SUFFICES ASSUME NEW a \in left, a.remembered, NEW c \in a.cuts
               PROVE  CutDown(c, Known(left, varForBreakConcat, a.level))
    BY DEF CutsDown
  <2>1. a \in inForce /\ a.level \in Int /\ a.level <= l
    BY <1>2, <1>3, <1>4
  <2>2. CutDown(c, Known(inForce, varForBreakConcat, a.level))
    BY <2>1 DEF CompleteInv, CutsDown
  <2> QED
    BY <1>6, <2>1, <2>2 DEF CutDown
<1>8. StacksOK(less)
  BY <1>5 DEF CompleteInv, StacksOK, StackOK
<1>9. CutsKept(less, left)
  <2> SUFFICES ASSUME NEW a \in left, a.remembered, NEW c \in a.cuts, NEW x \in c.from
               PROVE  /\ \E e \in less[x] : e.level <= a.level
                      /\ \A e \in less[x] : \E f \in less[c.new] :
                           (f.level <= e.level \/ f.level <= a.level) /\ e.vars \subseteq f.vars
    BY DEF CutsKept, CutKept
  <2>1. a \in inForce /\ a.level \in Int /\ (a.level < l \/ a.level = 0)
    BY <1>3, <1>4
  <2>2. x \in Node /\ c.new \in Node
    BY <2>1 DEF CompleteInv, CutsDown, CutDown
  <2>3. CutKept(cutVARMap, c, a.level)
    BY <2>1 DEF CompleteInv, CutsKept
  <2>4. /\ \A e \in cutVARMap[x] : e.level \in Int
        /\ \A e \in cutVARMap[c.new] : e.level \in Int
    BY <2>2 DEF CompleteInv, StacksOK, StackOK
  <2>5. \E e \in less[x] : e.level <= a.level
    <3>1. PICK e \in cutVARMap[x] : e.level <= a.level
      BY <2>3 DEF CutKept
    <3>2. e.level < l \/ e.level <= 0
      BY <1>2, <2>1, <2>4, <3>1
    <3> QED
      BY <1>5, <2>2, <3>1, <3>2
  <2>6. ASSUME NEW e \in less[x]
        PROVE  \E f \in less[c.new] :
                 (f.level <= e.level \/ f.level <= a.level) /\ e.vars \subseteq f.vars
    <3>1. e \in cutVARMap[x] /\ (e.level < l \/ e.level <= 0)
      BY <1>5, <2>2, <2>6
    <3>2. PICK f \in cutVARMap[c.new] :
            (f.level <= e.level \/ f.level <= a.level) /\ e.vars \subseteq f.vars
      BY <2>3, <3>1 DEF CutKept
    <3>3. f.level < l \/ f.level <= 0
      BY <1>2, <2>1, <2>4, <3>1, <3>2
    <3> QED
      BY <1>5, <2>2, <3>2, <3>3
  <2> QED
    BY <2>5, <2>6
<1> QED
  BY <1>1, <1>7, <1>8, <1>9 DEF CompleteInv

LEMMA CompleteNext == ASSUME Sound, CompleteInv, LevelInv, [Next]_vars PROVE CompleteInv'
<1>1. CASE UNCHANGED vars
  BY <1>1 DEF vars, theory, CompleteInv
<1>2. CASE Next
  BY <1>2, CutSteps, QuietComplete, SplitComplete, PopComplete
<1> QED
  BY <1>1, <1>2

-----------------------------------------------------------------------------
(* Ancestors through remembered cuts are known of: by induction on the     *)
(* number of the variable, which every cut lowers.                         *)
LEMMA AncestorsKnown ==
  ASSUME Sound, CompleteInv, LevelInv
  PROVE  LET anc == Ancestors(CutsOf({a \in inForce : a.remembered}))
         IN \A n \in Node : cutVARMap[n] # {} => \A m \in anc[n] :
              m \in Node /\ cutVARMap[m] # {} /\ TopVars(cutVARMap[m]) \subseteq TopVars(cutVARMap[n])
<1> DEFINE cuts == CutsOf({a \in inForce : a.remembered})
           anc == Ancestors(cuts)
           S(n) == {m \in Node : cutVARMap[m] # {}
                                 /\ TopVars(cutVARMap[m]) \subseteq TopVars(cutVARMap[n])}
           Bad == {n \in Node : cutVARMap[n] # {} /\ ~ (anc[n] \subseteq S(n))}
<1>1. OfNodes(cuts)
  BY SoundNodes DEF CutVarsNodes, OfNodes, CutsOf
<1>2. \A n \in Node : anc[n] = {n} \cup UNION {anc[m] : m \in Parents(cuts, n)}
  BY <1>1, AncestorsAre
<1>3. \A n \in Node : \A e \in cutVARMap[n] : e.vars \subseteq TopVars(cutVARMap[n])
  <2>1. MapHere(cutVARMap)
    BY DEF MapHere, LevelInv, CompleteInv
  <2> QED
    BY <2>1, TopsHold
<1>4. \A n \in Node : \A p \in Parents(cuts, n) : p \in S(n) /\ p < n
  <2> SUFFICES ASSUME NEW n \in Node, NEW p \in Parents(cuts, n) PROVE p \in S(n) /\ p < n
    OBVIOUS
  <2>0. PICK a \in inForce : a.remembered /\ \E c \in a.cuts : c.new = n /\ p \in c.from
    BY DEF Parents, CutsOf
  <2>1. PICK c \in a.cuts : a.remembered /\ c.new = n /\ p \in c.from
    BY <2>0
  <2>2. CutDown(c, Known(inForce, varForBreakConcat, a.level)) /\ CutKept(cutVARMap, c, a.level)
    BY <2>1 DEF CompleteInv, CutsDown, CutsKept
  <2>3. p \in Node /\ p < n
    BY <2>1, <2>2 DEF CutDown
  <2>4. cutVARMap[p] # {} /\ \A e \in cutVARMap[p] : \E f \in cutVARMap[n] : e.vars \subseteq f.vars
    BY <2>1, <2>2 DEF CutKept
  <2>5. \A e \in cutVARMap[p] : e.vars \subseteq TopVars(cutVARMap[n])
    BY <1>3, <2>4
  <2>6. TopVars(cutVARMap[p]) \subseteq TopVars(cutVARMap[n])
    BY <2>5, TopVarsIn
  <2> QED
    BY <2>3, <2>4, <2>6
<1> HIDE DEF anc, cuts
<1>5. Bad = {}
  <2> SUFFICES ASSUME Bad # {} PROVE FALSE
    OBVIOUS
  <2>1. Bad \subseteq Nat
    BY MaxNodeAssumption DEF Node
  <2> HIDE DEF Bad
  <2>2. PICK n \in Bad : \A y \in Bad : n <= y
    BY <2>1, LeastOf
  <2>3. n \in Node /\ cutVARMap[n] # {} /\ n \in S(n)
    BY <2>2 DEF Bad
  <2>4. ASSUME NEW p \in Parents(cuts, n) PROVE anc[p] \subseteq S(n)
    <3>1. p \in S(n) /\ p < n /\ p \in Node /\ p \in Int /\ n \in Int
      BY <1>4, <2>3 DEF Node
    <3>2. p \notin Bad
      BY <2>2, <3>1
    <3>3. anc[p] \subseteq S(p)
      BY <3>1, <3>2 DEF Bad
    <3> QED
      BY <3>1, <3>3
  <2>5. anc[n] \subseteq S(n)
    BY <1>2, <2>3, <2>4
  <2> QED
    BY <2>2, <2>5 DEF Bad
<1> QED
  BY <1>5 DEF anc, cuts

(* A cut that would loop is refused: variables with a common ancestor,     *)
(* through cuts that cb_pop has not forgotten, are found to have it.       *)
THEOREM LoopsAreFound == Spec => []CutInfoComplete
<1>1. Sound /\ CompleteInv /\ LevelInv => CutInfoComplete
  <2> DEFINE anc == Ancestors(CutsOf({a \in inForce : a.remembered}))
  <2> SUFFICES ASSUME Sound, CompleteInv, LevelInv, NEW m \in Node, NEW n \in Node,
                      cutVARMap[m] # {}, cutVARMap[n] # {}, anc[m] \cap anc[n] # {}
               PROVE  HasSelfCut(cutVARMap, m, n)
    BY DEF CutInfoComplete
  <2>1. \A i \in Node : cutVARMap[i] # {} => \A j \in anc[i] :
          j \in Node /\ cutVARMap[j] # {} /\ TopVars(cutVARMap[j]) \subseteq TopVars(cutVARMap[i])
    BY AncestorsKnown
  <2> HIDE DEF anc
  <2>2. PICK p \in anc[m] : p \in anc[n]
    OBVIOUS
  <2>3. /\ p \in Node /\ cutVARMap[p] # {}
        /\ TopVars(cutVARMap[p]) \subseteq TopVars(cutVARMap[m])
        /\ TopVars(cutVARMap[p]) \subseteq TopVars(cutVARMap[n])
    BY <2>1, <2>2
  <2>4. TopVars(cutVARMap[p]) # {}
    <3>1. MapHere(cutVARMap)
      BY DEF MapHere, LevelInv, CompleteInv
    <3>2. PICK e \in cutVARMap[p] : e.vars # {}
      BY <2>3 DEF CompleteInv, StacksOK, StackOK
    <3> QED
      BY <2>3, <3>1, <3>2, TopsHold
  <2> QED
    BY <2>3, <2>4 DEF HasSelfCut
<1> QED
  BY SoundInit, SoundNext, LevelInit, LevelNext, CompleteInit, CompleteNext, <1>1, PTL DEF Spec

=============================================================================

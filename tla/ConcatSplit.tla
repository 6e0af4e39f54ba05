---------------------------- MODULE ConcatSplit ----------------------------
(***************************************************************************)
(* How the string theory reasons from two equal concatenations             *)
(* (simplifyConcatEq) and from a concatenation that equals a constant      *)
(* (solve_concat_eq_str): it adds an axiom that lists the ways to line up  *)
(* the two sides, each tied to one value of an integer "xor" variable, and *)
(* cuts a variable along a made one where the sides overlap.               *)
(*                                                                         *)
(* The solver's core is not modelled.  It opens and closes scopes as it    *)
(* likes, forgets the axioms and equalities of a closed scope, and reports *)
(* equalities in any order.  One solution of the input is fixed (world),   *)
(* and the core is followed through the branch in which it holds: an axiom *)
(* is represented by what it demands of that solution, namely the values   *)
(* of its xor variable under which it is true.                             *)
(*                                                                         *)
(* Arguments of a concatenation are variables and constants: a nested      *)
(* concatenation is named by a variable, for which canTwoNodesEq is true.  *)
(***************************************************************************)
EXTENDS CutInfo, Sequences, SequencesExt, Functions

CONSTANTS
  Char,           (* characters                                            *)
  Inputs,         (* inputs to solve: sets of equalities                   *)
  NumVars,        (* variables 1 .. NumVars are the input's                *)
  Worlds,         (* values the input's variables may have                 *)
  MaxLevel,       (* bound on the depth of scopes                          *)
  MaxAxioms,      (* bound on the axioms in force                          *)
  MaxLength,      (* bound on the lengths reported of arguments            *)
  AvoidLoopCut    (* avoidLoopCut: not the option allowloopcut             *)

ASSUME ConstantsAssumption ==
  /\ NumVars \in Node /\ MaxLevel \in Nat /\ MaxAxioms \in Nat /\ MaxLength \in Nat
  /\ AvoidLoopCut \in BOOLEAN

(* An atom is a variable or a constant, a term one atom or a pair of them. *)
Atoms(V) == [var : V, str : Seq(Char)]
Var(n) == [var |-> n, str |-> <<>>]
Str(s) == [var |-> 0, str |-> s]
IsConstStr(a) == a.var = 0
Empty == Str(<<>>)

Eq(lhs, rhs) == [lhs |-> lhs, rhs |-> rhs]

(* An input is a set of equalities of an atom and a term over its          *)
(* variables; a solution gives each of these a string.                     *)
ASSUME InputsAssumption ==
  /\ Char # {}
  /\ \A world \in Worlds : world \in [1 .. NumVars -> Seq(Char)]
  /\ \A input \in Inputs : \A e \in input :
       /\ e.lhs \in Atoms(0 .. NumVars)
       /\ e.rhs \in Seq(Atoms(0 .. NumVars)) /\ Len(e.rhs) \in 1 .. 2

VARIABLES
  val,               (* world: the solution followed                       *)
  equalities,        (* what the core holds equal: [level, lhs, rhs]       *)
  inForce,           (* axioms in force                                    *)
  varForBreakConcat, (* made variables of a pair: [t1, t2], 0 for none     *)
  tmpStringVarCount, (* the last made variable                             *)
  loopDetected

theory == <<varForBreakConcat, tmpStringVarCount, loopDetected>>
vars == <<sLevel, cutVARMap, val, equalities, inForce, theory>>

-----------------------------------------------------------------------------
(* Strings of atoms and terms in the solution v.                           *)
StrOf(v, a) == IF IsConstStr(a) THEN a.str ELSE v[a.var]
StrOfTerm(v, t) == FlattenSeq([i \in DOMAIN t |-> StrOf(v, t[i])])
LenOf(v, a) == Len(StrOf(v, a))

Prefix(s, i) == SubSeq(s, 1, i)
Suffix(s, i) == SubSeq(s, i + 1, Len(s))

(* The piece by which the first string is longer than the second; a made   *)
(* variable is never empty.                                                *)
Piece(long, short) ==
  IF Len(long) > Len(short) THEN Suffix(long, Len(short)) ELSE <<CHOOSE c \in Char : TRUE>>

(* get_eqc_value                                                           *)
EqcValue(a) ==
  LET values == {b \in {e.rhs[1] : e \in {f \in equalities : f.lhs = a /\ Len(f.rhs) = 1}} :
                   IsConstStr(b)}
  IN IF values = {} THEN a ELSE CHOOSE b \in values : TRUE

InSameEqc(a, b) ==
  \/ EqcValue(a) = EqcValue(b)
  \/ \E e \in equalities : <<e.lhs, e.rhs>> \in {<<a, <<b>>>>, <<b, <<a>>>>}

(* mk_concat of two atoms.                                                 *)
MkConcat(a, b) ==
  LET l == EqcValue(a)
      r == EqcValue(b)
  IN CASE IsConstStr(l) /\ IsConstStr(r) -> <<Str(l.str \o r.str)>>
       [] l = Empty /\ ~ IsConstStr(r)   -> <<r>>
       [] r = Empty /\ ~ IsConstStr(l)   -> <<l>>
       [] OTHER                          -> <<l, r>>

SimplifyConcat(c) == MkConcat(c[1], c[2])

(* canConcatEqConcat: constants on the left, and on the right, must agree. *)
CanConcatEqConcat(c1, c2) ==
  /\ (IsConstStr(c1[1]) /\ IsConstStr(c2[1])) =>
       (IsPrefix(c1[1].str, c2[1].str) \/ IsPrefix(c2[1].str, c1[1].str))
  /\ (IsConstStr(c1[2]) /\ IsConstStr(c2[2])) =>
       (IsSuffix(c1[2].str, c2[2].str) \/ IsSuffix(c2[2].str, c1[2].str))

(* Prefix match of a constant and a concatenation (canConcatEqStr).        *)
CanConcatEqStr(c, s) ==
  /\ IsConstStr(c[1]) => IsPrefix(c[1].str, s)
  /\ IsConstStr(c[2]) => IsSuffix(c[2].str, s)

-----------------------------------------------------------------------------
(* One way to line up the two sides: equalities, and statements about      *)
(* lengths of which the solution makes each true or false.                 *)
Option(eqs, lens) == [eqs |-> eqs, lens |-> lens]

Truths(v, o) == {StrOf(v, e.lhs) = StrOfTerm(v, e.rhs) : e \in o.eqs} \cup o.lens

(* The values of the xor variable under which the axiom is true: value k   *)
(* makes every statement of option k true, every one of the others false.  *)
XorValues(v, options) ==
  {k \in DOMAIN options :
     \A j \in DOMAIN options : Truths(v, options[j]) \subseteq {j = k}}

(* An axiom.  xor: the key of the xor variable it ties, {} for one that    *)
(* states a single outcome.  pair: the terms it splits, in their order,    *)
(* <<>> for none.                                                          *)
(* cuts: the variables it cuts along made ones, for as long as the cut     *)
(* information remembers them.                                             *)
Axiom(v, xor, pair, options, cuts) ==
  [level |-> sLevel, xor |-> xor, pair |-> pair,
   choices |-> XorValues(v, options),
   eqs |-> UNION {options[k].eqs : k \in XorValues(v, options)},
   cuts |-> cuts, remembered |-> TRUE]

(* The cuts of this axiom are not, or no longer, in the cut information.   *)
Forgotten(a) == [a EXCEPT !.remembered = FALSE]

Single(v, pair, eqs) == Axiom(v, {}, pair, <<Option(eqs, {})>>, {})
Negation(v) == Axiom(v, {}, <<>>, <<>>, {})

-----------------------------------------------------------------------------
(* Which side's first argument is shorter, from the lengths known (-1 for  *)
(* an unknown one): 0 the left one's, 1 neither, 2 the right one's.        *)
Compare(a, b) == IF a < b THEN 0 ELSE IF a = b THEN 1 ELSE 2

SplitType(xLen, yLen, mLen, nLen) ==
  IF xLen # -1 /\ mLen # -1 THEN Compare(xLen, mLen)
  ELSE IF yLen # -1 /\ nLen # -1 THEN Compare(nLen, yLen)
  ELSE -1

(* Where the constant is cut: of x . y = m . "str" when x is longer than m *)
(* (lenDelta), of x . y = "str" . n when x is shorter than it (prefixLen). *)
LenDelta(xLen, yLen, mLen, strLen) ==
  IF xLen # -1 /\ mLen # -1 THEN xLen - mLen ELSE strLen - yLen

PrefixLen(xLen, yLen, strLen, nLen) ==
  IF xLen = -1 THEN strLen - (yLen - nLen) ELSE xLen

(* Faulty variant: of two concatenations of which one has an unknown       *)
(* length, the sum of the known lengths is not looked at.                  *)
LengthsAgreeIfFixed(xLen, yLen, mLen, nLen) ==
  -1 \notin {xLen, yLen, mLen, nLen} => xLen + yLen = mLen + nLen

(* checkLengthConcat2Concat, which newEqCheck makes before: the lengths    *)
(* known do not contradict the equality.                                   *)
LengthsAgree(xLen, yLen, mLen, nLen) ==
  LET Known(l) == IF l = -1 THEN 0 ELSE l
      sum1 == Known(xLen) + Known(yLen)
      sum2 == Known(mLen) + Known(nLen)
      fixed1 == xLen # -1 /\ yLen # -1
      fixed2 == mLen # -1 /\ nLen # -1
  IN /\ (fixed1 /\ fixed2) => sum1 = sum2
     /\ (~ fixed1 /\ fixed2) => sum1 <= sum2
     /\ (fixed1 /\ ~ fixed2) => sum1 >= sum2

-----------------------------------------------------------------------------
(* The key of a pair in varForBreakConcat: found in either order.          *)
KeyOf(c1, c2) == {c1, c2}

NewKey(c1, c2) == KeyOf(c1, c2) \notin DOMAIN varForBreakConcat

(* The variables made for a pair of concatenations: two when all four      *)
(* arguments are variables, else one.                                      *)
MadeFor(c1, c2) ==
  IF ~ NewKey(c1, c2) THEN varForBreakConcat[KeyOf(c1, c2)]
  ELSE [t1 |-> tmpStringVarCount + 1,
        t2 |-> IF \E a \in Range(c1 \o c2) : IsConstStr(a) THEN 0 ELSE tmpStringVarCount + 2]

(* A solution that gives a made variable the piece an axiom asks for.      *)
Giving(v, t, piece) == IF t = 0 THEN v ELSE [v EXCEPT ![t] = piece]

(* The two sides cut each other: long = short . t and rest = t . other, if *)
(* the two that are cut have no ancestor in common.                        *)
Overlap(long, short, rest, other, t) ==
  {Eq(long, MkConcat(short, Var(t))), Eq(rest, MkConcat(Var(t), other))}

Cut(t, a, b) == [new |-> t, from |-> {a.var, b.var}]

Allowed(map, a, b) == ~ AvoidLoopCut \/ ~ HasSelfCut(map, a.var, b.var)

(* What a split does: axioms added, cuts recorded, whether a cut is        *)
(* refused, and the solution extended to the made variables.               *)
Outcome(axioms, cuts, refused, v) ==
  [axioms |-> axioms, cuts |-> cuts, refused |-> refused, val |-> v]

Nothing == Outcome({}, {}, FALSE, val)

LenValue(known, a) == IF IsConstStr(a) \/ a \in known THEN LenOf(val, a) ELSE -1

(* A split of which the lengths leave one way, along one variable or none; *)
(* and one that lists every way.                                           *)
OneCut(pair, eqs, cuts, v) ==
  IF cuts = {} THEN Outcome({}, {}, TRUE, val)
  ELSE Outcome({Axiom(v, {}, pair, <<Option(eqs, {})>>, cuts)}, cuts, FALSE, v)

Exactly(pair, eqs, v) == Outcome({Single(v, pair, eqs)}, {}, FALSE, v)

AnyOf(pair, options, cuts, refused, v) ==
  Outcome({Axiom(v, KeyOf(pair[1], pair[2]), pair, options, cuts)}, cuts, refused, v)

BySplitType(splitType, shorter, same, longer, unknown) ==
  IF splitType = -1 THEN unknown
  ELSE IF splitType = 0 THEN shorter ELSE IF splitType = 1 THEN same ELSE longer

OptionIf(cuts, eqs, lens) == IF cuts = {} THEN <<>> ELSE <<Option(eqs, lens)>>

(* Type 1, x . y = m . n.  With lengths known it does not look at          *)
(* avoidLoopCut.                                                           *)
ProcessConcatEqType1(map, c1, c2, known) ==
  LET x == c1[1]   y == c1[2]   m == c2[1]   n == c2[2]
      made == MadeFor(c1, c2)
      v == Giving(Giving(val, made.t1, Piece(StrOf(val, m), StrOf(val, x))),
                  made.t2, Piece(StrOf(val, x), StrOf(val, m)))
      Longer(a, b) == LenOf(v, a) > LenOf(v, b)
      yCut == Overlap(m, x, y, n, made.t1)
      nCut == Overlap(x, m, n, y, made.t2)
      Same == {Eq(x, <<m>>), Eq(y, <<n>>)}
      Unlooped(t, a, b) == IF HasSelfCut(map, a.var, b.var) THEN {} ELSE {Cut(t, a, b)}
      yCuts == IF Allowed(map, m, y) THEN {Cut(made.t1, m, y)} ELSE {}
      nCuts == IF Allowed(map, x, n) THEN {Cut(made.t2, x, n)} ELSE {}
      options == OptionIf(yCuts, yCut, {Longer(m, x), Longer(y, n)})
                 \o OptionIf(nCuts, nCut, {Longer(x, m), Longer(n, y)})
                 \o <<Option(Same, {LenOf(v, x) = LenOf(v, m), LenOf(v, y) = LenOf(v, n)})>>
  IN BySplitType(SplitType(LenValue(known, x), LenValue(known, y),
                           LenValue(known, m), LenValue(known, n)),
                 OneCut(<<c1, c2>>, yCut, Unlooped(made.t1, m, y), v),
                 Exactly(<<c1, c2>>, Same, v),
                 OneCut(<<c1, c2>>, nCut, Unlooped(made.t2, x, n), v),
                 AnyOf(<<c1, c2>>, options, yCuts \cup nCuts, {} \in {yCuts, nCuts}, v))

(* x . y = m . str, and x . y = str . n, where x ends i characters into    *)
(* the constant: one place, and every place.                               *)
RightCutAt(x, y, m, str, i) ==
  {Eq(x, MkConcat(m, Str(Prefix(str, i)))), Eq(y, <<Str(Suffix(str, i))>>)}

RightCuts(v, x, y, m, str) ==
  [i \in 1 .. Len(str) + 1 |->
    Option(RightCutAt(x, y, m, str, i - 1), {LenOf(v, y) = Len(str) - (i - 1)})]

LeftCutAt(x, y, str, n, i) ==
  {Eq(x, <<Str(Prefix(str, i))>>), Eq(y, MkConcat(Str(Suffix(str, i)), n))}

LeftCuts(v, x, y, str, n) ==
  [i \in 1 .. Len(str) + 1 |->
    Option(LeftCutAt(x, y, str, n, i - 1), {LenOf(v, x) = i - 1})]

(* Type 2, x . y = m . "str".                                              *)
ProcessConcatEqType2(map, c1, c2, known) ==
  LET x == c1[1]   y == c1[2]   m == c2[1]   n == c2[2]
      str == n.str
      t1 == MadeFor(c1, c2).t1
      v == Giving(val, t1, Piece(StrOf(val, m), StrOf(val, x)))
      xLen == LenValue(known, x)   yLen == LenValue(known, y)   mLen == LenValue(known, m)
      yCut == Overlap(m, x, y, n, t1)
      cuts == IF Allowed(map, m, y) THEN {Cut(t1, m, y)} ELSE {}
  IN BySplitType(SplitType(xLen, yLen, mLen, Len(str)),
                 OneCut(<<c1, c2>>, yCut, cuts, v),
                 Exactly(<<c1, c2>>, {Eq(x, <<m>>), Eq(y, <<n>>)}, v),
                 Exactly(<<c1, c2>>, RightCutAt(x, y, m, str, LenDelta(xLen, yLen, mLen, Len(str))), v),
                 AnyOf(<<c1, c2>>, OptionIf(cuts, yCut, {}) \o RightCuts(v, x, y, m, str),
                       cuts, cuts = {}, v))

(* Type 3, x . y = "str" . n.                                              *)
ProcessConcatEqType3(map, c1, c2, known) ==
  LET x == c1[1]   y == c1[2]   m == c2[1]   n == c2[2]
      str == m.str
      t1 == MadeFor(c1, c2).t1
      v == Giving(val, t1, Piece(StrOf(val, x), str))
      xLen == LenValue(known, x)   yLen == LenValue(known, y)   nLen == LenValue(known, n)
      nCut == Overlap(x, m, n, y, t1)
      cuts == IF Allowed(map, x, n) THEN {Cut(t1, x, n)} ELSE {}
  IN BySplitType(SplitType(xLen, yLen, Len(str), nLen),
                 Exactly(<<c1, c2>>, LeftCutAt(x, y, str, n, PrefixLen(xLen, yLen, Len(str), nLen)), v),
                 Exactly(<<c1, c2>>, {Eq(x, <<m>>), Eq(y, <<n>>)}, v),
                 OneCut(<<c1, c2>>, nCut, cuts, v),
                 AnyOf(<<c1, c2>>, LeftCuts(v, x, y, str, n) \o OptionIf(cuts, nCut, {}),
                       cuts, cuts = {}, v))

Held(eq) == \E e \in equalities : e.lhs = eq.lhs /\ e.rhs = eq.rhs

(* An axiom for one equality, unless the core holds it already.            *)
Derive(pair, eq) ==
  IF Held(eq) THEN Nothing ELSE Outcome({Single(val, pair, {eq})}, {}, FALSE, val)

(* Type 4, "str1" . y = "str2" . n.                                        *)
ProcessConcatEqType4(c1, c2) ==
  LET str1 == c1[1].str   y == c1[2]   str2 == c2[1].str   n == c2[2]
      rest1 == Str(Suffix(str1, Len(str2)))
      rest2 == Str(Suffix(str2, Len(str1)))
  IN CASE ~ (IsPrefix(str1, str2) \/ IsPrefix(str2, str1)) ->
            Outcome({Negation(val)}, {}, FALSE, val)
       [] IsPrefix(str2, str1) -> Derive(<<c1, c2>>, Eq(n, MkConcat(rest1, y)))
       [] OTHER -> Derive(<<c1, c2>>, Eq(y, MkConcat(rest2, n)))

(* Type 5, x . "str1" = m . "str2".                                        *)
ProcessConcatEqType5(c1, c2) ==
  LET x == c1[1]   str1 == c1[2].str   m == c2[1]   str2 == c2[2].str
      rest1 == Str(Prefix(str1, Len(str1) - Len(str2)))
      rest2 == Str(Prefix(str2, Len(str2) - Len(str1)))
  IN CASE ~ (IsSuffix(str1, str2) \/ IsSuffix(str2, str1)) ->
            Outcome({Negation(val)}, {}, FALSE, val)
       [] IsSuffix(str2, str1) -> Derive(<<c1, c2>>, Eq(m, MkConcat(x, rest1)))
       [] OTHER -> Derive(<<c1, c2>>, Eq(x, MkConcat(m, rest2)))

(* Type 6, "str1" . y = m . "str2".  The cut along the made variable is    *)
(* tested for a common ancestor but not recorded.  The options are named   *)
(* by the length of the overlap, -1 for none.                              *)
ProcessConcatEqType6(map, c1, c2) ==
  LET str1 == c1[1].str   y == c1[2]   m == c2[1]   str2 == c2[2].str
      t1 == MadeFor(c1, c2).t1
      v == Giving(val, t1, Piece(StrOf(val, m), str1))
      overlapLen == {i \in 0 .. Len(str1) :
                       i <= Len(str2) /\ Suffix(str1, Len(str1) - i) = Prefix(str2, i)}
      Overlapping(i) == LET prefix == Prefix(str1, Len(str1) - i)
                            suffix == Suffix(str2, i)
                        IN Option({Eq(m, <<Str(prefix)>>), Eq(y, <<Str(suffix)>>)},
                                  {LenOf(v, m) = Len(prefix), LenOf(v, y) = Len(suffix)})
      cuts == IF Allowed(map, m, y) THEN {Cut(t1, m, y)} ELSE {}
      options == [i \in overlapLen \cup (IF cuts = {} THEN {} ELSE {-1}) |->
                    IF i = -1 THEN Option(Overlap(m, c1[1], y, c2[2], t1), {}) ELSE Overlapping(i)]
      axiom == Axiom(v, KeyOf(c1, c2), <<c1, c2>>, options, cuts)
  IN Outcome({Forgotten(axiom)}, {}, cuts = {}, v)

-----------------------------------------------------------------------------
Const(c) == <<IsConstStr(c[1]), IsConstStr(c[2])>>

(* The six types of pairs, by which arguments are constants; the sides     *)
(* change places where the type asks for it.                               *)
Split(map, c1, c2, known) ==
  LET kind == <<Const(c1), Const(c2)>>
      None == <<FALSE, FALSE>>   Left == <<TRUE, FALSE>>   Right == <<FALSE, TRUE>>
  IN CASE kind = <<None, None>>   -> ProcessConcatEqType1(map, c1, c2, known)
       [] kind = <<None, Right>>  -> ProcessConcatEqType2(map, c1, c2, known)
       [] kind = <<Right, None>>  -> ProcessConcatEqType2(map, c2, c1, known)
       [] kind = <<None, Left>>   -> ProcessConcatEqType3(map, c1, c2, known)
       [] kind = <<Left, None>>   -> ProcessConcatEqType3(map, c2, c1, known)
       [] kind = <<Left, Left>>   -> ProcessConcatEqType4(c1, c2)
       [] kind = <<Right, Right>> -> ProcessConcatEqType5(c1, c2)
       [] kind = <<Left, Right>>  -> ProcessConcatEqType6(map, c1, c2)
       [] kind = <<Right, Left>>  -> ProcessConcatEqType6(map, c2, c1)
       [] OTHER                   -> Nothing

VarsOf(c) == {a.var : a \in {b \in Range(c) : ~ IsConstStr(b)}}

(* Every cut is merged into its made variable from the two that are cut.   *)
MergeCuts(map, cuts) ==
  [n \in Node |->
    IF \E c \in cuts : c.new = n
    THEN AddCutInfoMerge(map[n], sLevel, map, UNION {c.from : c \in {d \in cuts : d.new = n}})
    ELSE map[n]]

-----------------------------------------------------------------------------
(* Two concatenations that share, or hold equal, an argument on one side:  *)
(* the other arguments are equal.                                          *)
QuickPath(c1, c2) == InSameEqc(c1[1], c2[1]) \/ InSameEqc(c1[2], c2[2])

QuickAxioms(c1, c2) ==
  LET other == IF InSameEqc(c1[1], c2[1]) THEN 2 ELSE 1
  IN IF InSameEqc(c1[other], c2[other]) THEN {}
     ELSE {Single(val, <<>>, {Eq(c1[other], <<c2[other]>>)})}

(* Two arguments on one side of the same known length.                     *)
SameLength(c1, c2, known) ==
  \E i \in 1 .. 2 : /\ LenValue(known, c1[i]) # -1
                    /\ LenValue(known, c1[i]) = LenValue(known, c2[i])

LengthAxiom(c1, c2) ==
  Single(val, <<>>, {Eq(c1[1], <<c2[1]>>), Eq(c1[2], <<c2[2]>>)})

(* simplifyConcat: arguments known as constants are replaced, and what     *)
(* equals the concatenation equals the simpler term.                       *)
Simplified(e) ==
  IF SimplifyConcat(e.rhs) = e.rhs THEN {}
  ELSE {Single(val, <<>>, {Eq(e.lhs, SimplifyConcat(e.rhs))})}

(* Only the types 4 and 5 make no variable.                                *)
MakesVariables(c1, c2) ==
  <<Const(c1), Const(c2)>> \notin {<<k, k>> : k \in {<<TRUE, FALSE>>, <<FALSE, TRUE>>}}

(* varForBreakConcat with a key entered, if it is new.                     *)
Entered(key, made) ==
  [k \in DOMAIN varForBreakConcat \cup {key} |->
    IF k \in DOMAIN varForBreakConcat THEN varForBreakConcat[k] ELSE made]

(* Faulty variant: the made variables are not counted.                     *)
RegisterUncounted(c1, c2) ==
  /\ varForBreakConcat' = Entered(KeyOf(c1, c2), MadeFor(c1, c2))
  /\ UNCHANGED tmpStringVarCount

(* A new pair is entered in varForBreakConcat and its variables counted.   *)
Register(c1, c2) ==
  IF NewKey(c1, c2) /\ MakesVariables(c1, c2)
  THEN LET made == MadeFor(c1, c2)
       IN /\ varForBreakConcat' = Entered(KeyOf(c1, c2), made)
          /\ tmpStringVarCount' = IF made.t2 = 0 THEN made.t1 ELSE made.t2
  ELSE UNCHANGED <<varForBreakConcat, tmpStringVarCount>>

(* addAxiom                                                                *)
AddAxiom(axioms) ==
  /\ inForce' = inForce \cup axioms
  /\ Cardinality(inForce') <= MaxAxioms

(* simplifyConcatEq once the terms are simplified.                         *)
SplitConcats(c1, c2, known, axioms) ==
  LET made == MadeFor(c1, c2)
      nodes == VarsOf(c1) \cup VarsOf(c2) \cup
               (IF made.t2 # 0 /\ NewKey(c1, c2) THEN {made.t1, made.t2} ELSE {})
      map == CheckandInit(cutVARMap, nodes)
      outcome == Split(map, c1, c2, known)
  IN /\ MakesVariables(c1, c2) /\ NewKey(c1, c2) => tmpStringVarCount + 2 <= MaxNode
     /\ AddAxiom(axioms \cup outcome.axioms)
     /\ cutVARMap' = MergeCuts(map, outcome.cuts)
     /\ loopDetected' = (loopDetected \/ outcome.refused)
     /\ val' = outcome.val
     /\ Register(c1, c2)
     /\ UNCHANGED <<sLevel, equalities>>

AddOnly(axioms) ==
  /\ axioms # {}
  /\ AddAxiom(axioms)
  /\ UNCHANGED <<sLevel, cutVARMap, val, equalities, theory>>

-----------------------------------------------------------------------------
Init ==
  /\ \E input \in Inputs, world \in Worlds :
       /\ val = [n \in Node |-> IF n <= NumVars THEN world[n] ELSE <<>>]
       /\ \A e \in input : StrOf(val, e.lhs) = StrOfTerm(val, e.rhs)
       /\ equalities = {[level |-> 0, lhs |-> e.lhs, rhs |-> e.rhs] : e \in input}
  /\ sLevel = 0 /\ cutVARMap = [n \in Node |-> {}]
  /\ inForce = {} /\ varForBreakConcat = <<>> /\ tmpStringVarCount = NumVars
  /\ loopDetected = FALSE

(* Two concatenations the core reports equal.  A pair is reported once for *)
(* as long as the axiom that splits it is in force.                        *)
Concats == {e \in equalities : Len(e.rhs) = 2}

Reported(e1, e2) ==
  /\ e1.rhs # e2.rhs
  /\ InSameEqc(e1.lhs, e2.lhs)
  /\ LET c1 == SimplifyConcat(e1.rhs)
         c2 == SimplifyConcat(e2.rhs)
     IN \A a \in inForce : a.pair \notin {<<c1, c2>>, <<c2, c1>>}

(* Which lengths the arithmetic of the core knows: those of the first      *)
(* arguments, of the second arguments, or none.                            *)
KnownLengths(e1, e2) == {{}, {e1.rhs[1], e2.rhs[1]}, {e1.rhs[2], e2.rhs[2]}}

QuickEq(e1, e2) ==
  /\ Reported(e1, e2) /\ QuickPath(e1.rhs, e2.rhs)
  /\ AddOnly(QuickAxioms(e1.rhs, e2.rhs))

SameLengthEq(e1, e2, known) ==
  /\ Reported(e1, e2) /\ ~ QuickPath(e1.rhs, e2.rhs) /\ SameLength(e1.rhs, e2.rhs, known)
  /\ AddOnly({LengthAxiom(e1.rhs, e2.rhs)})

(* canTwoNodesEq of the simplified terms.                                  *)
Conflict(t1, t2) ==
  CASE Len(t1) = 2 /\ Len(t2) = 2 -> ~ CanConcatEqConcat(t1, t2)
    [] Len(t1) = 2 /\ Len(t2) = 1 -> IsConstStr(t2[1]) /\ ~ CanConcatEqStr(t1, t2[1].str)
    [] Len(t1) = 1 /\ Len(t2) = 2 -> IsConstStr(t1[1]) /\ ~ CanConcatEqStr(t2, t1[1].str)
    [] OTHER -> IsConstStr(t1[1]) /\ IsConstStr(t2[1]) /\ t1 # t2

(* simplifyConcatEq past its quick paths.  Where one side has become a     *)
(* constant, the code also calls simplifyParent, which looks for           *)
(* concatenations with the other side as an argument; that is left out,    *)
(* the arguments being atoms.                                              *)
SimplifyEq(e1, e2, known) ==
  LET t1 == SimplifyConcat(e1.rhs)
      t2 == SimplifyConcat(e2.rhs)
      axioms == Simplified(e1) \cup Simplified(e2)
  IN /\ Reported(e1, e2) /\ ~ QuickPath(e1.rhs, e2.rhs) /\ ~ SameLength(e1.rhs, e2.rhs, known)
     /\ \/ /\ Conflict(t1, t2) \/ t1 = t2 \/ Len(t1) = 1 \/ Len(t2) = 1
           /\ AddOnly(axioms \cup (IF Conflict(t1, t2) THEN {Negation(val)} ELSE {}))
        \/ /\ ~ Conflict(t1, t2) /\ t1 # t2 /\ Len(t1) = 2 /\ Len(t2) = 2
           /\ SplitConcats(t1, t2, known, axioms)

-----------------------------------------------------------------------------
(* solve_concat_eq_str: a concatenation that equals a constant.            *)
ConstEqs(c, s, i) == {Eq(c[1], <<Str(Prefix(s, i))>>), Eq(c[2], <<Str(Suffix(s, i))>>)}

(* Faulty variant: the last cut, after the whole constant, is left out.    *)
EveryCutButLast(c, s) ==
  [i \in 1 .. Len(s) |-> Option(ConstEqs(c, s, i - 1), {})]

(* Every cut of the constant.  The xor variable is kept under the two      *)
(* arguments and found again when they stand in the other order.           *)
EveryCut(c, s) ==
  [i \in 1 .. Len(s) + 1 |-> Option(ConstEqs(c, s, i - 1), {})]

CutConst(c, s) ==
  LET key == KeyOf(<<c[1]>>, <<c[2]>>)
  IN /\ AddAxiom({Axiom(val, key, <<<<c[1]>>, <<c[2]>>>>, EveryCut(c, s), {})})
     /\ varForBreakConcat' = Entered(key, [t1 |-> 0, t2 |-> 0])
     /\ UNCHANGED <<sLevel, cutVARMap, val, equalities, tmpStringVarCount, loopDetected>>

(* What follows for the arguments of a simplified term that equals s.      *)
FromConst(t, s, known) ==
  LET Given(eqs) == {Single(val, <<>>, eqs)}
  IN CASE Len(t) = 1 -> {}
       [] Len(t) = 2 /\ ~ CanConcatEqStr(t, s) -> {Negation(val)}
       [] Len(t) = 2 /\ CanConcatEqStr(t, s) /\ IsConstStr(t[2]) ->
            Given({Eq(t[1], <<Str(Prefix(s, Len(s) - Len(t[2].str)))>>)})
       [] Len(t) = 2 /\ CanConcatEqStr(t, s) /\ IsConstStr(t[1]) ->
            Given({Eq(t[2], <<Str(Suffix(s, Len(t[1].str)))>>)})
       [] OTHER ->
            Given(ConstEqs(t, s, IF t[1] \in known THEN LenOf(val, t[1])
                                 ELSE Len(s) - LenOf(val, t[2])))

SolveConcatEqStr(e, known) ==
  LET t == SimplifyConcat(e.rhs)
      s == EqcValue(e.lhs).str
      cutUnknown == Len(t) = 2 /\ Const(t) = <<FALSE, FALSE>> /\ known = {}
  IN /\ IsConstStr(EqcValue(e.lhs))
     /\ \/ /\ s = <<>>
           /\ AddOnly({Single(val, <<>>, {Eq(e.rhs[i], <<Empty>>) : i \in 1 .. 2})})
        \/ /\ s # <<>> /\ ~ cutUnknown
           /\ AddOnly((IF t = <<Str(s)>> THEN {} ELSE Simplified(e)) \cup FromConst(t, s, known))
        \/ /\ s # <<>> /\ cutUnknown
           /\ CutConst(t, s)

-----------------------------------------------------------------------------
(* The core follows the solution: it takes over an outcome of an axiom.    *)
Adopt(a) ==
  LET new == {eq \in a.eqs : ~ Held(eq)}
  IN /\ new # {}
     /\ equalities' = equalities \cup
                        {[level |-> sLevel, lhs |-> eq.lhs, rhs |-> eq.rhs] : eq \in new}
     /\ UNCHANGED <<sLevel, cutVARMap, val, inForce, theory>>

CbPush ==
  /\ sLevel < MaxLevel
  /\ sLevel' = sLevel + 1
  /\ UNCHANGED <<cutVARMap, val, equalities, inForce, theory>>

(* A scope is closed: the core drops what was added in it; the theory      *)
(* backtracks the cut information.  The made variables are kept.           *)
CbPop ==
  /\ sLevel > 0
  /\ sLevel' = sLevel - 1
  /\ cutVARMap' = CutsLeft(cutVARMap, sLevel')
  /\ equalities' = {e \in equalities : e.level <= sLevel'}
  /\ inForce' = {IF a.level < sLevel' \/ a.level = 0 THEN a ELSE Forgotten(a) :
                   a \in {b \in inForce : b.level <= sLevel'}}
  /\ UNCHANGED <<val, theory>>

Next ==
  \/ \E e1, e2 \in Concats :
       \/ QuickEq(e1, e2)
       \/ \E known \in KnownLengths(e1, e2) :
            SameLengthEq(e1, e2, known) \/ SimplifyEq(e1, e2, known)
  \/ \E e \in Concats : \E known \in {{}, {e.rhs[1]}, {e.rhs[2]}} :
       SolveConcatEqStr(e, known)
  \/ \E a \in inForce : Adopt(a)
  \/ CbPush
  \/ CbPop

Spec == Init /\ [][Next]_vars

-----------------------------------------------------------------------------
TypeOK ==
  /\ sLevel \in 0 .. MaxLevel
  /\ \A n \in Node : cutVARMap[n] \subseteq Entry
  /\ val \in [Node -> Seq(Char)]
  /\ \A e \in equalities : e.level \in 0 .. sLevel
  /\ \A a \in inForce : a.level \in 0 .. sLevel /\ a.remembered \in BOOLEAN
  /\ tmpStringVarCount \in NumVars .. MaxNode
  /\ \A k \in DOMAIN varForBreakConcat :
       \A t \in Range(varForBreakConcat[k]) : t \in 0 .. tmpStringVarCount
  /\ loopDetected \in BOOLEAN

(* An answer UNSAT is right: the axioms in force never rule out a solution *)
(* of the input, unless a cut was refused, in which case the answer is     *)
(* UNKNOWN.  Each xor variable has one value that suits all of them.       *)
NoSolutionLost ==
  loopDetected \/ \A a \in inForce :
    /\ a.choices # {}
    /\ a.xor # {} => \E k \in a.choices :
                        \A b \in {c \in inForce : c.xor = a.xor} : k \in b.choices

(* Concatenations of the same two variables in either order were cut by    *)
(* constants: both axioms tie one xor variable to places of their own.     *)
Swapped == \E a, b \in inForce : a.xor # {} /\ a.xor = b.xor /\ a.pair # b.pair

(* The variables that a variable was cut from, through these cuts.         *)
Ancestors(cuts) ==
  LET anc[n \in Node] ==
        {n} \cup UNION {anc[m] : m \in UNION {c.from : c \in {d \in cuts : d.new = n}}}
  IN anc

CutsOf(axioms) == UNION {a.cuts : a \in axioms}

(* A cut is refused only where it would loop: variables found to have a    *)
(* common ancestor have one through cuts whose axioms are in force, and    *)
(* nothing of a scope that was closed is left (cb_pop).                    *)
CutInfoSound ==
  LET anc == Ancestors(CutsOf(inForce))
  IN \A m, n \in Node :
       HasSelfCut(cutVARMap, m, n) => anc[m] \cap anc[n] # {}

(* What a variable was cut from is never remembered longer than it is true *)
(* (cb_pop): no entry outlives its scope, and an ancestor of another name  *)
(* came from a cut whose axiom is in force, and will be for as long as the *)
(* entry stays.                                                            *)
CutsBacked ==
  /\ LevelsWithinScope
  /\ \A n \in Node : \A e \in cutVARMap[n] :
       e.vars \subseteq {n} \/ \E a \in inForce : /\ a.level <= e.level
                                               /\ \E c \in a.cuts : c.new = n

(* A cut that would loop is refused: variables with a common ancestor are  *)
(* found to have it.  This holds of the cuts that are recorded (type 6 is  *)
(* not) and that no return to their own scope has made cb_pop forget.      *)
CutInfoComplete ==
  LET anc == Ancestors(CutsOf({a \in inForce : a.remembered}))
  IN \A m, n \in Node :
       cutVARMap[m] # {} /\ cutVARMap[n] # {} /\ anc[m] \cap anc[n] # {}
         => HasSelfCut(cutVARMap, m, n)

(* A constant of a concatenation is never cut outside its length (substr   *)
(* would throw), whatever lengths the arithmetic reports for the other     *)
(* arguments: the check of the lengths that comes first keeps lenDelta and *)
(* prefixLen within it.                                                    *)
CutWithinString(xLen, yLen, mLen, strLen) ==
  /\ LengthsAgree(xLen, yLen, mLen, strLen) /\ SplitType(xLen, yLen, mLen, strLen) = 2
       => LenDelta(xLen, yLen, mLen, strLen) \in 0 .. strLen
  /\ LengthsAgree(xLen, yLen, strLen, mLen) /\ SplitType(xLen, yLen, strLen, mLen) = 0
       => PrefixLen(xLen, yLen, strLen, mLen) \in 0 .. strLen

SplitsWithinString ==
  \A e \in Concats : \A i \in {j \in 1 .. 2 : IsConstStr(e.rhs[j])} :
    \A xLen, yLen, mLen \in -1 .. MaxLength :
      CutWithinString(xLen, yLen, mLen, Len(e.rhs[i].str))
=============================================================================

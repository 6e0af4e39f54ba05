--------------------------- MODULE FreeVarSearch ---------------------------
(***************************************************************************)
(* How the string theory finds a value for a free variable x, one that no  *)
(* concatenation bounds.  It never enumerates the values at once.  A       *)
(* length tester stands for a few lengths or "more"; once one of them      *)
(* holds, a value tester stands for the next few strings of that length    *)
(* or "more".  A variable that equals unrollings of constants (the stars   *)
(* of regular expressions) has unroll testers instead, which stand for the *)
(* next few strings that unroll all the constants.  Each tester is tied to *)
(* its options by an axiom, which holds while the earlier testers are      *)
(* "more".                                                                 *)
(*                                                                         *)
(* The tables of testers survive backtracking while the axioms do not, so  *)
(* that axioms are asserted again from the tables (cb_final_check).  What  *)
(* the core has learnt from an axiom survives too; learnt is the history   *)
(* of all that was asserted in this run, in whatever scope.                *)
(*                                                                         *)
(* The core is not modelled.  It opens and closes scopes, gives a tester a *)
(* value its axiom allows once the axiom applies, and calls the final      *)
(* check when no such tester is left.  It may guess a value that the       *)
(* solution of the input refutes, in a scope it closes later.              *)
(***************************************************************************)
EXTENDS Integers, Sequences, SequencesExt, FiniteSets, FiniteSetsExt

CONSTANTS
  charSetSize,   (* size of the alphabet                                   *)
  LenDistance,   (* distance of genLenTestOptions, 3 in the code           *)
  ValDistance,   (* distance of genValOptions, 32 in the code              *)
  UnrollStep,    (* lcmUnrollStep, 2 in the code                           *)
  Inputs,        (* inputs, each [cores, x]: the constants that x unrolls, *)
                 (* none for a free variable, and the value of x; strings  *)
                 (* are sequences of indices into charSet                  *)
  MaxLen,        (* bound on the lengths the core tries, at least those of *)
                 (* one tester                                             *)
  MaxUnrolls,    (* bound on the unrollings the core tries                 *)
  MaxPushes      (* bound on the scopes the core opens                     *)

(* getUnrolledString                                                       *)
Unrolled(core, count) == FlattenSeq([i \in 1 .. count |-> core])

ASSUME ConstantsAssumption ==
  /\ charSetSize \in Nat \ {0, 1}
  /\ {LenDistance, ValDistance, UnrollStep} \subseteq Nat \ {0}
  /\ {MaxLen, MaxUnrolls, MaxPushes} \subseteq Nat /\ LenDistance <= MaxLen + 1
  /\ \A i \in Inputs :
       /\ i.cores \subseteq Seq(Nat) /\ <<>> \notin i.cores /\ IsFiniteSet(i.cores)
       /\ i.x \in Seq(0 .. charSetSize - 1)
       /\ \A core \in i.cores : \E k \in 0 .. Len(i.x) : i.x = Unrolled(core, k)

More == -1
Unknown == -2

(* Length testers are numbered from 1, the value testers of a length and   *)
(* the unroll testers from 0.  NoTester is that of the axiom x = "".       *)
LenTester(j) == [len |-> -1, pos |-> j]
ValTester(l, i) == [len |-> l, pos |-> i]
UnrollTester(i) == [len |-> -2, pos |-> i]
NoTester == [len |-> -3, pos |-> 0]

IsLenTester(t) == t.len = -1
IsUnrollTester(t) == t.len = -2
IsValTester(t) == t.len >= 0

VARIABLES
  sLevel,      (* depth of the scopes                                      *)
  pushes,      (* scopes opened so far                                     *)
  lenTesters,  (* length testers made: fvarLenTesterMap, fvarLenCountMap   *)
  valRange,    (* valRangeMap of the value testers made of every length    *)
  axioms,      (* in force: [level, tester, indicator, options, more]      *)
  learnt,      (* the axioms asserted so far, without their levels         *)
  values,      (* of the testers: [level, tester, value]                   *)
  unrollTries, (* unroll testers made: unrollTriesMap                      *)
  cores,       (* the constants x unrolls                                  *)
  solution     (* the value of x in the solution that is followed          *)

tables == <<lenTesters, valRange, unrollTries>>
input  == <<cores, solution>>
vars == <<sLevel, pushes, tables, axioms, learnt, values, input>>

-----------------------------------------------------------------------------
(* get_eqc_value of a tester.                                              *)
Assigned(t) == \E a \in values : a.tester = t
ValueOf(t) == IF Assigned(t) THEN (CHOOSE a \in values : a.tester = t).value ELSE Unknown

(* Whether the testers before that of the axiom are such that it applies.  *)
Applies(a) ==
  IF IsLenTester(a.tester)
  THEN \A j \in 1 .. a.tester.pos - 1 : ValueOf(LenTester(j)) = More
  ELSE /\ IsValTester(a.tester) => ValueOf(LenTester(a.indicator)) = a.tester.len
       /\ \A i \in 0 .. a.tester.pos - 1 : ValueOf([a.tester EXCEPT !.pos = i]) = More

Pending(a) == a.tester # NoTester /\ Applies(a) /\ ~ Assigned(a.tester)

Allowed(a) == DOMAIN a.options \cup (IF a.more THEN {More} ELSE {})

(* x has a value when the number of an option is given to a value or       *)
(* unroll tester.                                                          *)
XKnown ==
  \/ \E a \in values : ~ IsLenTester(a.tester) /\ a.value # More
  \/ \E a \in axioms : a.tester = NoTester

-----------------------------------------------------------------------------
(* What a call of the plug-in does: the tables it leaves and the axioms it *)
(* asserts.                                                                *)
Nothing ==
  [lenTesters |-> lenTesters, valRange |-> valRange, unrollTries |-> unrollTries, asserted |-> {}]

Fact(a) == [a EXCEPT !.level = 0]

Perform(call) ==
  \E done \in {call} :
    /\ lenTesters' = done.lenTesters /\ valRange' = done.valRange
    /\ unrollTries' = done.unrollTries
    /\ axioms' = axioms \cup done.asserted
    /\ learnt' = learnt \cup {Fact(a) : a \in done.asserted}

(* Faulty variant: the last length of every tester is left out.            *)
GenLenTestOptionsButLast(j) ==
  [level |-> sLevel, tester |-> LenTester(j), indicator |-> j,
   options |-> [n \in (j - 1) * LenDistance .. j * LenDistance - 2 |-> n], more |-> TRUE]

(* genLenTestOptions: the j-th tester.                                     *)
GenLenTestOptions(j) ==
  [level |-> sLevel, tester |-> LenTester(j), indicator |-> j,
   options |-> [n \in (j - 1) * LenDistance .. j * LenDistance - 1 |-> n], more |-> TRUE]

(* charSetSize to the power of n.                                          *)
Power[n \in Nat] == IF n = 0 THEN 1 ELSE charSetSize * Power[n - 1]

(* An encoding is the vector of a string's digits, the last character's    *)
(* first, and one digit more, that tells that all strings are covered.  It *)
(* is modelled by the number that it writes in base charSetSize, to which  *)
(* getNextValEncode adds one with a carry.                                 *)
NextEncode(len, encoding) == (encoding + 1) % Power[len + 1]

CoverAll(len, encoding) == encoding \div Power[len] > 0

(* genValString                                                            *)
GenValString(len, encoding) ==
  [p \in 1 .. len |-> (encoding \div Power[len - p]) % charSetSize]

(* Faulty variant: a tester starts with the last option of the one before. *)
OptionsFromLast(len, i, before) ==
  [k \in 1 .. Min({ValDistance, Power[len]}) |->
     ((IF i = 0 THEN 0 ELSE before) + k - 1) % Power[len]]

(* The encodings genValOptions offers with the i-th tester of a length,    *)
(* given the last one of the tester before.                                *)
Options(len, i, before) ==
  LET encoding[k \in 0 .. ValDistance] ==
        IF k > 0 THEN NextEncode(len, encoding[k - 1])
        ELSE IF i = 0 THEN 0 ELSE NextEncode(len, before)
      count == Min({k \in 0 .. ValDistance : k = ValDistance \/ CoverAll(len, encoding[k])})
  IN [k \in 1 .. count |-> encoding[k - 1]]

(* "more" is an option unless everything is covered.                       *)
HasMore(len, options) == ~ CoverAll(len, NextEncode(len, Last(options)))

GenValOptions(j, len, i, before) ==
  LET options == Options(len, i, before)
  IN [level |-> sLevel, tester |-> ValTester(len, i), indicator |-> j,
      options |-> [n \in i * ValDistance .. i * ValDistance + Len(options) - 1 |->
                     GenValString(len, options[n - i * ValDistance + 1])],
      more |-> HasMore(len, options)]

(* Faulty variant: the entry of a tester that is asserted again is an      *)
(* option behind the one it was.                                           *)
RangesAfterBehind(len, testers, ranges) ==
  [i \in DOMAIN ranges |->
     IF i - 1 \notin testers THEN ranges[i]
     ELSE IF ranges[i] # -1 THEN Max({0, ranges[i] - 1})
     ELSE Last(Options(len, i - 1, IF i = 1 THEN -1 ELSE ranges[i - 1]))]

(* valRangeMap of a length after some of its testers are asserted, in      *)
(* their order.                                                            *)
RangesAfter(len, testers, ranges) ==
  LET range[i \in 0 .. Len(ranges)] ==
        IF i = 0 THEN -1
        ELSE IF i - 1 \in testers THEN Last(Options(len, i - 1, range[i - 1]))
        ELSE ranges[i]
  IN [i \in DOMAIN ranges |-> range[i]]

(* The value testers of a length, to the number total, of which some are   *)
(* asserted; those that are new have no entry in valRangeMap yet.          *)
AssertValTesters(j, len, testers, total) ==
  LET ranges == valRange[len] \o [i \in 1 .. total - Len(valRange[len]) |-> -1]
      after == RangesAfter(len, testers, ranges)
      Before(i) == IF i = 0 THEN -1 ELSE after[i]
  IN [Nothing EXCEPT !.valRange = [@ EXCEPT ![len] = after],
                     !.asserted = {GenValOptions(j, len, i, Before(i)) : i \in testers}]

(* Faulty variant: testers asserted before have no need to be again.       *)
GenFreeVarOptionsOnce(j, len, upto, more) ==
  LET total == Len(valRange[len])
  IN IF total = 0 THEN AssertValTesters(j, len, {0}, 1)
     ELSE IF more /\ upto + 1 = total THEN AssertValTesters(j, len, {upto + 1}, total + 1)
     ELSE Nothing

(* genFreeVarOptions: the first value tester of a length; or those before  *)
(* the position upto that have no value again, and the one after it when   *)
(* that at upto is "more".                                                 *)
GenFreeVarOptions(j, len, upto, more) ==
  LET total == Len(valRange[len])
      again == {i \in 0 .. upto - 1 : ~ Assigned(ValTester(len, i))}
      next == IF more THEN {upto + 1} ELSE {}
  IN IF total = 0 THEN AssertValTesters(j, len, {0}, 1)
     ELSE AssertValTesters(j, len, again \cup next, Max({total} \cup {i + 1 : i \in next}))

(* genLenValOptionsForFreeVar: the first length tester that is not "more", *)
(* made if there is none, is asserted, or if it has a value, the testers   *)
(* of that length.  cbTester has the value cbValue, which the core has not *)
(* recorded yet.                                                           *)
GenLenValOptions(cbTester, cbValue) ==
  LET Value(j) == IF LenTester(j) = cbTester THEN cbValue ELSE ValueOf(LenTester(j))
      first == Min({j \in 1 .. lenTesters + 1 : j = lenTesters + 1 \/ Value(j) # More})
  IN IF first <= lenTesters /\ Value(first) # Unknown
     THEN GenFreeVarOptions(first, Value(first), Len(valRange[Value(first)]), FALSE)
     ELSE [Nothing EXCEPT !.lenTesters = Max({first, @}), !.asserted = {GenLenTestOptions(first)}]

(* moreValueTests: the length is that of the first tester that has one.    *)
MoreValueTests(t) ==
  LET first == Min({j \in 1 .. lenTesters : ValueOf(LenTester(j)) \notin {More, Unknown}})
  IN GenFreeVarOptions(first, ValueOf(LenTester(first)), t.pos, TRUE)

-----------------------------------------------------------------------------
(* computeGCD and computeLCM, of positive numbers.                         *)
Gcd(a, b) == Max({d \in 1 .. a : a % d = 0 /\ b % d = 0})
Lcm(a, b) == (a \div Gcd(a, b)) * b

(* Faulty variant: the product of the lengths in the place of their least  *)
(* common multiple.                                                        *)
LcmStringsOfProduct ==
  LET product == ProductSet({Len(core) : core \in cores})
  IN {Unrolled(core, product \div Len(core)) : core \in cores}

(* genAssignUnrollStr2Reg: the constants are unrolled to the least common  *)
(* multiple of their lengths, and if they are the same then, that string   *)
(* is what every value of x unrolls; if not, x is empty.                   *)
LcmStrings ==
  LET lcm == FoldSet(Lcm, 1, {Len(core) : core \in cores})
  IN {Unrolled(core, lcm \div Len(core)) : core \in cores}

LcmStr == CHOOSE str \in LcmStrings : TRUE

(* genUnrollAssign, for the tester i.                                      *)
GenUnrollAssign(i) ==
  [level |-> sLevel, tester |-> UnrollTester(i), indicator |-> 0,
   options |-> [n \in i * UnrollStep .. (i + 1) * UnrollStep - 1 |-> Unrolled(LcmStr, n)],
   more |-> TRUE]

EmptyAssign ==
  [level |-> sLevel, tester |-> NoTester, indicator |-> 0,
   options |-> [n \in {0} |-> <<>>], more |-> FALSE]

(* genUnrollConditionalOptions: the first tester without a value, made if  *)
(* there is none.                                                          *)
GenUnrollOptions ==
  LET i == Min({k \in 0 .. unrollTries : ~ Assigned(UnrollTester(k))})
  IN IF Cardinality(LcmStrings) = 1
     THEN [Nothing EXCEPT !.unrollTries = Max({@, i + 1}), !.asserted = {GenUnrollAssign(i)}]
     ELSE [Nothing EXCEPT !.asserted = {EmptyAssign}]

-----------------------------------------------------------------------------
(* What the solution gives the tester of an axiom that applies.            *)
Right(a) ==
  LET wanted == IF IsLenTester(a.tester) THEN Len(solution) ELSE solution
      n == {k \in DOMAIN a.options : a.options[k] = wanted}
  IN IF n = {} THEN More ELSE CHOOSE k \in n : TRUE

(* The core has made a guess that the solution refutes.                    *)
Refuted == \E b \in values, a \in axioms : a.tester = b.tester /\ b.value # Right(a)

Init ==
  /\ sLevel = 0 /\ pushes = 0
  /\ lenTesters = 0 /\ valRange = [len \in 0 .. MaxLen |-> <<>>] /\ unrollTries = 0
  /\ axioms = {} /\ learnt = {} /\ values = {}
  /\ \E i \in Inputs : cores = i.cores /\ solution = i.x

(* What cb_final_check does for x, while x has no value.                   *)
FinalCheck == IF cores = {} THEN GenLenValOptions(LenTester(0), Unknown) ELSE GenUnrollOptions

CbFinalCheck ==
  /\ ~ XKnown /\ \A a \in axioms : ~ Pending(a)
  /\ Perform(FinalCheck)
  /\ UNCHANGED <<sLevel, pushes, values, input>>

(* Faulty variant: a value tester that is "more" leads nowhere.            *)
FreeVarAttemptLengths(t, v) ==
  IF IsLenTester(t) THEN GenLenValOptions(t, v) ELSE Nothing

(* freeVarAttempt, called by cb_new_eq when the core gives a tester a      *)
(* value: length testers always lead on, value testers when they are more, *)
(* unroll testers only in the next final check.                            *)
FreeVarAttempt(t, v) ==
  IF IsLenTester(t) THEN GenLenValOptions(t, v)
  ELSE IF IsValTester(t) /\ v = More THEN MoreValueTests(t)
  ELSE Nothing

CbNewEq(a, v) ==
  /\ Pending(a) /\ v \in Allowed(a)
  /\ v = More /\ IsLenTester(a.tester) => (a.tester.pos + 1) * LenDistance - 1 <= MaxLen
  /\ v = More /\ IsUnrollTester(a.tester) => (a.tester.pos + 1) * UnrollStep <= MaxUnrolls
  /\ Perform(FreeVarAttempt(a.tester, v))
  /\ values' = values \cup {[level |-> sLevel, tester |-> a.tester, value |-> v]}
  /\ UNCHANGED <<sLevel, pushes, input>>

(* The core follows the solution, or guesses in a scope it can close.      *)
Follow == ~ Refuted /\ \E a \in axioms : CbNewEq(a, Right(a))
Guess == sLevel > 0 /\ \E a \in axioms : \E v \in Allowed(a) \ {Right(a)} : CbNewEq(a, v)

CbPush ==
  /\ pushes < MaxPushes
  /\ sLevel' = sLevel + 1 /\ pushes' = pushes + 1
  /\ UNCHANGED <<tables, axioms, learnt, values, input>>

(* Faulty variant: the values of the scope that is closed stay.            *)
CbPopKeepingValues ==
  /\ sLevel > 0
  /\ sLevel' = sLevel - 1
  /\ axioms' = {a \in axioms : a.level < sLevel}
  /\ UNCHANGED <<pushes, values, learnt, tables, input>>

CbPop ==
  /\ sLevel > 0
  /\ sLevel' = sLevel - 1
  /\ axioms' = {a \in axioms : a.level < sLevel}
  /\ values' = {a \in values : a.level < sLevel}
  /\ UNCHANGED <<pushes, learnt, tables, input>>

(* A guess that is refuted is taken back.                                  *)
Backtrack == Refuted /\ CbPop

Next == CbFinalCheck \/ Follow \/ Guess \/ CbPush \/ CbPop

(* The core leaves no tester without a value, nor a guess that is refuted, *)
(* and then calls the final check.                                         *)
Spec == Init /\ [][Next]_vars /\ WF_vars(CbFinalCheck) /\ WF_vars(Follow) /\ WF_vars(Backtrack)

-----------------------------------------------------------------------------
TypeOK ==
  /\ sLevel \in 0 .. pushes /\ pushes \in 0 .. MaxPushes
  /\ lenTesters \in 0 .. MaxLen + 1 /\ unrollTries \in 0 .. MaxUnrolls + 1
  /\ \A len \in 0 .. MaxLen : \A i \in DOMAIN valRange[len] :
       valRange[len][i] \in 0 .. Power[len] - 1
  /\ \A a \in axioms \cup values : a.level \in 0 .. sLevel
  /\ \A a, b \in values : a.tester = b.tester => a = b

Strings(len) == [1 .. len -> 0 .. charSetSize - 1]
OfLength(len) == {a \in axioms : a.tester.len = len}

(* Every string of a length is one option of one tester, whatever the      *)
(* number of testers and however often they are asserted.  "more" is an    *)
(* option exactly if strings are left; a tester made when none are would   *)
(* have no options, and genValOptions reads options[options.size() - 1].   *)
EveryStringOnce ==
  \A len \in 0 .. MaxLen :
    /\ \A a, b \in OfLength(len) : \A m \in DOMAIN a.options, n \in DOMAIN b.options :
         a.options[m] = b.options[n] => a.tester = b.tester /\ m = n
    /\ \A a \in OfLength(len) :
         /\ DOMAIN a.options # {}
         /\ a.more <=> (a.tester.pos + 1) * ValDistance < Cardinality(Strings(len))
         /\ a.more \/ UNION {Range(b.options) : b \in OfLength(len)} = Strings(len)

(* The strings of the lengths low to high - 1 that unroll all constants.   *)
CommonUnrollings(low, high) ==
  {str \in UNION {{Unrolled(core, k) : k \in 0 .. high - 1} : core \in cores} :
     /\ Len(str) \in low .. high - 1
     /\ \A core \in cores : \E k \in 0 .. Len(str) : str = Unrolled(core, k)}

(* The options of an unroll tester are all the strings between those of    *)
(* the tester before and the length that "more" demands at least; x is     *)
(* made empty only if no other string unrolls all constants (two that do   *)
(* not agree up to the sum of their lengths never do).                     *)
UnrollsExact ==
  \A a \in axioms :
    /\ IsUnrollTester(a.tester) =>
         LET low == a.tester.pos * UnrollStep * Len(LcmStr)
         IN Range(a.options) = CommonUnrollings(low, low + UnrollStep * Len(LcmStr))
    /\ a.tester = NoTester =>
         CommonUnrollings(0, 2 * Max({Len(core) : core \in cores}) + 1) = {<<>>}

(* A tester that is asserted again, whether its axiom is still in force or *)
(* was lost with a scope, stands for the options it always stood for, and  *)
(* under the same length: what was learnt about it remains true.           *)
ReassertedAlike ==
  \A a \in axioms, fact \in learnt : a.tester = fact.tester => Fact(a) = fact

(* While x has no value, there is a tester to give one to, or the final    *)
(* check asserts the axiom of one, or x = ""; otherwise the core would     *)
(* answer SAT with no value for x.                                         *)
NeverStuck ==
  \/ XKnown
  \/ \E a \in axioms : Pending(a)
  \/ \E a \in FinalCheck.asserted : a.tester = NoTester \/ Pending(a)

(* The options that the solution needs, of a tester that is "more" in it,  *)
(* are those of a later one.                                               *)
Beyond(a) ==
  /\ IsLenTester(a.tester) => Len(solution) >= a.tester.pos * LenDistance
  /\ IsValTester(a.tester) =>
       \E n \in (a.tester.pos + 1) * ValDistance .. Power[a.tester.len] - 1 :
         GenValString(a.tester.len, n) = solution
  /\ IsUnrollTester(a.tester) =>
       Len(solution) >= (a.tester.pos + 1) * UnrollStep * Len(LcmStr)

(* The axioms leave the solution: unless a guess is refuted, what it gives *)
(* the tester of an axiom that applies is what the axiom allows, and no    *)
(* tester is "more" because its options were skipped.                      *)
SolutionKept ==
  Refuted \/ \A a \in axioms : Applies(a) =>
                Right(a) \in Allowed(a) /\ (Right(a) = More => Beyond(a))

(* x is given its value, after any number of scopes closed on the way.     *)
XFound ==
  \/ \E b \in values, a \in axioms :
       /\ a.tester = b.tester /\ ~ IsLenTester(a.tester) /\ b.value # More
       /\ a.options[b.value] = solution
  \/ solution = <<>> /\ \E a \in axioms : a.tester = NoTester
SolutionFound == <>[]XFound
=============================================================================

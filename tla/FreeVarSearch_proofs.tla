------------------------ MODULE FreeVarSearch_proofs ------------------------
(***************************************************************************)
(* Proofs about FreeVarSearch, for every alphabet, every number of options *)
(* a tester has, every input, every bound and every order of guesses and   *)
(* scopes.  In order:                                                      *)
(*                                                                         *)
(*   - Power is the power, and numbers have digits, so that the encodings  *)
(*     of a length below the number of its strings are its strings, each   *)
(*     once (OneEncoding, SomeEncoding);                                   *)
(*   - the options of a tester are consecutive encodings, and each tester  *)
(*     starts where the one before ends, also when it is asserted again    *)
(*     (OptionsAre, RangesAfterIs);                                        *)
(*   - every axiom in force has a closed form, fixed by its tester (Inv):  *)
(*     the invariant holds at first, and every step keeps it;              *)
(*   - what follows from it: types, every string once, testers that are    *)
(*     asserted again stand for the same, and the final check makes or     *)
(*     asserts a tester that is to be given a value (CheckHelps);          *)
(*   - the fold of Lcm over a finite set is its least common multiple      *)
(*     (FoldIs), an unrolled constant repeats its letters (UnrolledIs),    *)
(*     and so the options of an unroll tester are the strings that unroll  *)
(*     all the constants, in the lengths the tester stands for;            *)
(*   - so the axioms never exclude the solution: what it gives a tester is *)
(*     an option of its axiom, or one of a later tester (KeepsSolution).   *)
(***************************************************************************)
EXTENDS FreeVarSearch, TLAPS, WellFoundedInduction, FiniteSetTheorems, FunctionTheorems,
        SequenceTheorems

-----------------------------------------------------------------------------
(* A non-empty set of numbers has a least one.                             *)
LEMMA LeastOf ==
  ASSUME NEW T, T \subseteq Nat, T # {}
  PROVE  \E x \in T : \A y \in T : x <= y
<1> DEFINE R == OpToRel(<, Nat)
<1>1. IsWellFoundedOn(R, Nat)
  BY NatLessThanWellFounded
<1>2. \A x, y \in Nat : y < x => <<y, x>> \in R
  BY DEF OpToRel
<1> HIDE DEF R
<1>3. PICK x \in T : \A y \in T : ~ (<<y, x>> \in R)
  BY <1>1, WFMin
<1>4. \A y \in T : x <= y
  <2> TAKE y \in T
  <2>1. x \in Nat /\ y \in Nat
    OBVIOUS
  <2>2. ~ (y < x)
    BY <1>2, <1>3, <2>1
  <2> QED
    BY <2>1, <2>2
<1> QED
  BY <1>4

(* Powers up to the k-th.                                                  *)
Powers(k, g) == g = [n \in 0 .. k |-> IF n = 0 THEN 1 ELSE charSetSize * g[n - 1]]

(* Power is what its recursion says.                                       *)
LEMMA PowersExist == \A k \in Nat : \E g : Powers(k, g)
<1> DEFINE Bad == {k \in Nat : ~ \E g : Powers(k, g)}
<1> SUFFICES ASSUME Bad # {} PROVE FALSE
  OBVIOUS
<1>1. PICK k \in Bad : \A j \in Bad : k <= j
  BY LeastOf
<1>2. CASE k = 0
  <2>1. Powers(0, [n \in 0 .. 0 |-> 1])
    BY DEF Powers
  <2> QED
    BY <1>2, <2>1
<1>3. CASE k # 0
  <2>1. k - 1 \in Nat /\ k - 1 \notin Bad
    BY <1>1, <1>3
  <2>2. PICK h : Powers(k - 1, h)
    BY <2>1
  <2> DEFINE g == [n \in 0 .. k |-> IF n = k THEN charSetSize * h[k - 1] ELSE h[n]]
  <2>3. \A n \in 0 .. k : g[n] = IF n = 0 THEN 1 ELSE charSetSize * g[n - 1]
    <3> SUFFICES ASSUME NEW n \in 0 .. k
                 PROVE  g[n] = IF n = 0 THEN 1 ELSE charSetSize * g[n - 1]
      OBVIOUS
    <3>1. CASE n = k
      <4>1. g[n] = charSetSize * h[k - 1] /\ g[k - 1] = h[k - 1]
        BY <1>3, <2>1, <3>1
      <4> QED
        BY <1>3, <3>1, <4>1
    <3>2. CASE n # k
      <4>1. n \in 0 .. k - 1
        BY <2>1, <3>2
      <4>2. h[n] = IF n = 0 THEN 1 ELSE charSetSize * h[n - 1]
        BY <2>2, <4>1 DEF Powers
      <4>3. g[n] = h[n] /\ (n # 0 => g[n - 1] = h[n - 1])
        BY <2>1, <3>2, <4>1
      <4> HIDE DEF g
      <4> QED
        BY <4>2, <4>3
    <3> QED
      BY <3>1, <3>2
  <2>4. Powers(k, g)
    BY <2>3 DEF Powers
  <2> QED
    BY <2>4
<1> QED
  BY <1>2, <1>3

LEMMA PowersAgree ==
  ASSUME NEW j \in Nat, NEW k \in Nat, j <= k, NEW g, NEW h, Powers(j, g), Powers(k, h)
  PROVE  \A n \in 0 .. j : g[n] = h[n]
<1> DEFINE Bad == {n \in 0 .. j : g[n] # h[n]}
<1> SUFFICES ASSUME Bad # {} PROVE FALSE
  OBVIOUS
<1>1. Bad \subseteq Nat
  OBVIOUS
<1>2. PICK n \in Bad : \A m \in Bad : n <= m
  BY <1>1, LeastOf
<1>3. /\ g[n] = IF n = 0 THEN 1 ELSE charSetSize * g[n - 1]
      /\ h[n] = IF n = 0 THEN 1 ELSE charSetSize * h[n - 1]
  BY <1>2 DEF Powers
<1>4. n # 0 => g[n - 1] = h[n - 1]
  BY <1>2
<1> QED
  BY <1>2, <1>3, <1>4

LEMMA PowerIs == Power[0] = 1 /\ \A n \in Nat : Power[n + 1] = charSetSize * Power[n]
<1> DEFINE Step(g) == [n \in Nat |-> IF n = 0 THEN 1 ELSE charSetSize * g[n - 1]]
           some(k) == CHOOSE g : Powers(k, g)
           power == [n \in Nat |-> some(n)[n]]
           chosen == CHOOSE g : g = Step(g)
<1>1. \A k \in Nat : Powers(k, some(k))
  BY PowersExist
<1> HIDE DEF some
<1>2. \A n \in Nat : power[n] = IF n = 0 THEN 1 ELSE charSetSize * power[n - 1]
  <2> SUFFICES ASSUME NEW n \in Nat PROVE power[n] = IF n = 0 THEN 1 ELSE charSetSize * power[n - 1]
    OBVIOUS
  <2>1. some(n)[n] = IF n = 0 THEN 1 ELSE charSetSize * some(n)[n - 1]
    BY <1>1 DEF Powers
  <2>2. n # 0 => some(n)[n - 1] = some(n - 1)[n - 1]
    <3> SUFFICES ASSUME n # 0 PROVE some(n)[n - 1] = some(n - 1)[n - 1]
      OBVIOUS
    <3>1. n - 1 \in Nat /\ n - 1 <= n /\ n - 1 \in 0 .. n - 1
      OBVIOUS
    <3>2. Powers(n - 1, some(n - 1)) /\ Powers(n, some(n))
      BY <1>1, <3>1
    <3> QED
      BY <3>1, <3>2, PowersAgree
  <2>3. n # 0 => n - 1 \in Nat
    OBVIOUS
  <2> QED
    BY <2>1, <2>2, <2>3
<1>3. power = Step(power)
  BY <1>2
<1>4. chosen = Step(chosen)
  BY <1>3
<1>5. Power = chosen
  BY DEF Power
<1> HIDE DEF chosen
<1> QED
  BY <1>4, <1>5

LEMMA PowerPositive == \A n \in Nat : Power[n] \in Nat \ {0}
<1> DEFINE Bad == {n \in Nat : Power[n] \notin Nat \ {0}}
<1> SUFFICES ASSUME Bad # {} PROVE FALSE
  OBVIOUS
<1>1. PICK n \in Bad : \A m \in Bad : n <= m
  BY LeastOf
<1>2. n # 0
  BY <1>1, PowerIs
<1>3. n - 1 \in Nat /\ n - 1 \notin Bad /\ (n - 1) + 1 = n
  BY <1>1, <1>2
<1>4. Power[n] = charSetSize * Power[n - 1]
  BY <1>3, PowerIs
<1>5. \A c, p \in Nat \ {0} : c * p \in Nat \ {0}
  OBVIOUS
<1> QED
  BY <1>1, <1>3, <1>4, <1>5, ConstantsAssumption

-----------------------------------------------------------------------------
(* Division.                                                               *)
LEMMA Division ==
  ASSUME NEW x \in Nat, NEW m \in Nat \ {0}
  PROVE  x \div m \in Nat /\ x % m \in 0 .. m - 1 /\ x = m * (x \div m) + (x % m)
<1>1. x \div m \in Nat
  OBVIOUS
<1>2. x % m \in 0 .. m - 1
  OBVIOUS
<1>3. x = m * (x \div m) + (x % m)
  OBVIOUS
<1> QED
  BY <1>1, <1>2, <1>3

(* Quotients and remainders.                                               *)
LEMMA Divided ==
  ASSUME NEW m \in Nat \ {0}, NEW q \in Nat, NEW r \in 0 .. m - 1
  PROVE  (m * q + r) \div m = q /\ (m * q + r) % m = r
  OBVIOUS

LEMMA DividedTwice ==
  ASSUME NEW x \in Nat, NEW m \in Nat \ {0}, NEW k \in Nat \ {0}
  PROVE  (x \div m) \div k = x \div (m * k)
  OBVIOUS

LEMMA LessThan ==
  ASSUME NEW x \in Nat, NEW m \in Nat \ {0}
  PROVE  x \div m = 0 <=> x < m
  OBVIOUS

(* The element that genAssignUnrollStr2Reg takes.                          *)
OneOf(S) == CHOOSE x \in S : TRUE

-----------------------------------------------------------------------------
(* An encoding below the number of strings of a length is one string.      *)
LEMMA Letters == charSetSize \in Nat \ {0} /\ charSetSize > 1
BY ConstantsAssumption

LEMMA PowerNext ==
  ASSUME NEW n \in Nat
  PROVE  Power[n] \in Nat \ {0} /\ Power[n + 1] = charSetSize * Power[n]
BY PowerIs, PowerPositive

(* The digits of an encoding, as divisions.                                *)
LEMMA Digits ==
  ASSUME NEW e \in Nat, NEW q \in Nat
  PROVE  /\ e \div Power[q] \in Nat /\ e \div Power[q + 1] \in Nat
         /\ (e \div Power[q]) % charSetSize \in 0 .. charSetSize - 1
         /\ e \div Power[q] = charSetSize * (e \div Power[q + 1]) + ((e \div Power[q]) % charSetSize)
<1> DEFINE c == charSetSize
           p == Power[q]
           d == e \div p
<1>1. c \in Nat \ {0} /\ p \in Nat \ {0} /\ Power[q + 1] = c * p
  BY Letters, PowerNext
<1> HIDE DEF c, p
<1>2. p * c = c * p
  BY <1>1
<1>3. e \div (p * c) = d \div c
  BY <1>1, DividedTwice
<1>4. d \in Nat
  BY <1>1, Division
<1> HIDE DEF d
<1>5. d \div c \in Nat /\ d % c \in 0 .. c - 1 /\ d = c * (d \div c) + (d % c)
  BY <1>1, <1>4, Division
<1>6. e \div Power[q + 1] = d \div c
  BY <1>1, <1>2, <1>3
<1> QED
  BY <1>4, <1>5, <1>6 DEF c, p, d

LEMMA GenValStringIs ==
  ASSUME NEW len \in Nat, NEW e \in Nat
  PROVE  /\ GenValString(len, e) \in Strings(len)
         /\ \A p \in 1 .. len : GenValString(len, e)[p] = (e \div Power[len - p]) % charSetSize
<1>1. \A p \in 1 .. len : (e \div Power[len - p]) % charSetSize \in 0 .. charSetSize - 1
  BY Digits
<1> QED
  BY <1>1 DEF GenValString, Strings

(* Two encodings below Power[len] do not write the same string: the least  *)
(* position from which their quotients agree is the first.                 *)
LEMMA OneEncoding ==
  ASSUME NEW len \in Nat, NEW e \in 0 .. Power[len] - 1, NEW f \in 0 .. Power[len] - 1,
         GenValString(len, e) = GenValString(len, f)
  PROVE  e = f
<1> DEFINE Same(q) == e \div Power[q] = f \div Power[q]
           Bad == {k \in 0 .. len : ~ Same(len - k)}
<1>1. e \in Nat /\ f \in Nat /\ Power[len] \in Nat \ {0}
  BY PowerPositive
<1>2. Same(len)
  <2>1. e \div Power[len] = 0 /\ f \div Power[len] = 0
    BY <1>1, LessThan
  <2> QED
    BY <2>1
<1>3. Bad = {}
  <2> SUFFICES ASSUME Bad # {} PROVE FALSE
    OBVIOUS
  <2>1. Bad \subseteq Nat
    OBVIOUS
  <2>2. PICK k \in Bad : \A j \in Bad : k <= j
    BY <2>1, LeastOf
  <2>3. k \in 1 .. len /\ ~ Same(len - k)
    <3>1. k \in 0 .. len /\ ~ Same(len - k)
      OBVIOUS
    <3>2. len - 0 = len
      OBVIOUS
    <3>3. k # 0
      BY <1>2, <3>1, <3>2
    <3> QED
      BY <3>1, <3>3
  <2>4. k - 1 \in 0 .. len /\ k - 1 \notin Bad
    BY <2>2, <2>3
  <2>5. len - (k - 1) = (len - k) + 1 /\ len - k \in Nat
    BY <2>3
  <2>6. Same((len - k) + 1)
    BY <2>4, <2>5
  <2>7. (e \div Power[len - k]) % charSetSize = (f \div Power[len - k]) % charSetSize
    <3>1. /\ GenValString(len, e)[k] = (e \div Power[len - k]) % charSetSize
          /\ GenValString(len, f)[k] = (f \div Power[len - k]) % charSetSize
      BY <1>1, <2>3, GenValStringIs, Zenon
    <3> QED
      BY <3>1, Zenon
  <2>8. /\ e \div Power[len - k]
             = charSetSize * (e \div Power[(len - k) + 1]) + ((e \div Power[len - k]) % charSetSize)
        /\ f \div Power[len - k]
             = charSetSize * (f \div Power[(len - k) + 1]) + ((f \div Power[len - k]) % charSetSize)
    BY <1>1, <2>5, Digits
  <2>9. Same(len - k)
    BY <2>6, <2>7, <2>8, Zenon
  <2> QED
    BY <2>3, <2>9
<1>4. Same(0)
  <2>1. len \in 0 .. len /\ len - len = 0
    OBVIOUS
  <2> QED
    BY <1>3, <2>1
<1>5. Power[0] = 1
  BY PowerIs
<1> QED
  BY <1>1, <1>4, <1>5

(* Every string is that of an encoding: by induction on its beginnings.    *)
LEMMA SomeEncoding ==
  ASSUME NEW len \in Nat, NEW s \in Strings(len)
  PROVE  \E e \in 0 .. Power[len] - 1 : GenValString(len, e) = s
<1> DEFINE c == charSetSize
           Writes(k, e) == \A p \in 1 .. k : (e \div Power[k - p]) % c = s[p]
           Bad == {k \in 0 .. len : ~ \E e \in 0 .. Power[k] - 1 : Writes(k, e)}
<1>1. c \in Nat \ {0} /\ c > 1
  BY Letters
<1>2. Bad = {}
  <2> SUFFICES ASSUME Bad # {} PROVE FALSE
    OBVIOUS
  <2>1. Bad \subseteq Nat
    OBVIOUS
  <2>2. PICK k \in Bad : \A j \in Bad : k <= j
    BY <2>1, LeastOf
  <2>3. k # 0
    <3>1. 0 \in 0 .. Power[0] - 1 /\ Writes(0, 0)
      BY PowerIs
    <3> QED
      BY <2>2, <3>1
  <2>4. k - 1 \in 0 .. len /\ k - 1 \notin Bad /\ k \in 1 .. len
    BY <2>2, <2>3
  <2>5. PICK e \in 0 .. Power[k - 1] - 1 : Writes(k - 1, e)
    BY <2>4
  <2> DEFINE d == s[k]
             n == k - 1
             f == c * e + d
  <2>6. d \in 0 .. c - 1 /\ n \in Nat /\ n + 1 = k
    BY <2>4 DEF Strings
  <2>7. Power[n] \in Nat \ {0} /\ Power[k] = c * Power[n] /\ e \in 0 .. Power[n] - 1
    BY <2>5, <2>6, PowerNext
  <2> HIDE DEF c, d, n
  <2>8. f \in 0 .. Power[k] - 1
    <3> DEFINE P == Power[n]
    <3>1. P \in Nat \ {0} /\ e \in 0 .. P - 1 /\ c \in Nat \ {0} /\ d \in 0 .. c - 1
      BY <1>1, <2>6, <2>7
    <3> HIDE DEF P
    <3>2. c * e + d \in 0 .. c * P - 1
      <4>1. c * e <= c * (P - 1) /\ c * e \in Nat
        BY <3>1
      <4>2. c * (P - 1) = c * P - c /\ c * P \in Nat
        BY <3>1
      <4> DEFINE A == c * e
                 B == c * P
                 C == c * (P - 1)
      <4>3. A <= C /\ A \in Nat /\ C = B - c /\ B \in Nat
        BY <4>1, <4>2
      <4> HIDE DEF A, B, C
      <4>4. A + d \in 0 .. B - 1
        BY <3>1, <4>3
      <4> QED
        BY <4>4 DEF A, B
    <3> QED
      BY <2>7, <3>2 DEF P
  <2>9. f \div c = e /\ f % c = d /\ f \in Nat
    <3>1. c * e + d \in Nat
      BY <1>1, <2>6, <2>7
    <3>2. e \in Nat
      BY <2>7
    <3> QED
      BY <1>1, <2>6, <3>1, <3>2, Divided, Zenon
  <2> HIDE DEF f
  <2>10. Writes(k, f)
    <3> SUFFICES ASSUME NEW p \in 1 .. k PROVE (f \div Power[k - p]) % c = s[p]
      OBVIOUS
    <3>1. CASE p = k
      <4>1. Power[k - p] = 1
        BY <3>1, <2>4, PowerIs
      <4>2. f \div 1 = f
        BY <2>9
      <4> QED
        BY <3>1, <4>1, <4>2, <2>9 DEF d
    <3>2. CASE p # k
      <4>1. p \in 1 .. n /\ n - p \in Nat /\ (n - p) + 1 = k - p
        BY <2>4, <2>6, <3>2 DEF n
      <4>2. Power[k - p] = c * Power[n - p] /\ Power[n - p] \in Nat \ {0}
        BY <4>1, PowerNext DEF c
      <4>3. f \div Power[k - p] = e \div Power[n - p]
        BY <1>1, <2>9, <4>2, DividedTwice
      <4>4. (e \div Power[n - p]) % c = s[p]
        BY <2>5, <4>1 DEF n
      <4> QED
        BY <4>3, <4>4
    <3> QED
      BY <3>1, <3>2
  <2> QED
    BY <2>2, <2>8, <2>10
<1>3. PICK e \in 0 .. Power[len] - 1 : Writes(len, e)
  <2>1. len \in 0 .. len
    OBVIOUS
  <2> QED
    BY <1>2, <2>1
<1>4. e \in Nat
  BY PowerPositive
<1>5. \A p \in 1 .. len : GenValString(len, e)[p] = s[p]
  BY <1>3, <1>4, GenValStringIs
<1>6. GenValString(len, e) \in [1 .. len -> 0 .. charSetSize - 1] /\ s \in [1 .. len -> 0 .. charSetSize - 1]
  BY <1>4, GenValStringIs DEF Strings
<1>7. GenValString(len, e) = s
  BY <1>5, <1>6
<1> QED
  BY <1>3, <1>7

(* There are as many strings of a length as encodings below Power[len].    *)
LEMMA StringsCount ==
  ASSUME NEW len \in Nat
  PROVE  Cardinality(Strings(len)) = Power[len]
<1> DEFINE f == [e \in 0 .. Power[len] - 1 |-> GenValString(len, e)]
           E == 0 .. Power[len] - 1
<1>1. Power[len] \in Nat \ {0}
  BY PowerPositive
<1>2. f \in [E -> Strings(len)]
  BY <1>1, GenValStringIs
<1>3. \A d, e \in E : f[d] = f[e] => d = e
  BY OneEncoding
<1>4. \A s \in Strings(len) : \E e \in E : f[e] = s
  BY SomeEncoding
<1> HIDE DEF f
<1>5. f \in Bijection(E, Strings(len))
  BY <1>2, <1>3, <1>4, Fun_IsBij
<1>6. ExistsBijection(E, Strings(len))
  BY <1>5, Fun_ExistsBij
<1>7. IsFiniteSet(E) /\ Cardinality(E) = Power[len]
  <2>1. 0 \in Int /\ Power[len] - 1 \in Int /\ ~ (0 > Power[len] - 1) /\ Power[len] - 1 - 0 + 1 = Power[len]
    BY <1>1
  <2>2. IsFiniteSet(E) /\ Cardinality(E) = IF 0 > Power[len] - 1 THEN 0 ELSE Power[len] - 1 - 0 + 1
    BY <2>1, FS_Interval
  <2> QED
    BY <2>1, <2>2
<1> HIDE DEF E
<1> QED
  BY <1>6, <1>7, FS_Bijection

-----------------------------------------------------------------------------
(* The options of a tester: consecutive encodings, to the last string.     *)
LEMMA NextModulo ==
  ASSUME NEW x \in Nat, NEW m \in Nat \ {0}
  PROVE  ((x % m) + 1) % m = (x + 1) % m
<1> DEFINE q == x \div m
           r == x % m
<1>1. q \in Nat /\ r \in 0 .. m - 1 /\ x = m * q + r
  BY Division
<1> HIDE DEF q, r
<1>2. CASE r + 1 < m
  <2>1. r + 1 \in 0 .. m - 1 /\ x + 1 = m * q + (r + 1) /\ r + 1 = m * 0 + (r + 1)
    BY <1>1, <1>2
  <2>2. (m * q + (r + 1)) % m = r + 1 /\ (m * 0 + (r + 1)) % m = r + 1
    <3>1. 0 \in Nat
      OBVIOUS
    <3> QED
      BY <1>1, <2>1, <3>1, Divided, Zenon
  <2> QED
    BY <2>1, <2>2 DEF r
<1>3. CASE ~ (r + 1 < m)
  <2>1. r + 1 = m * 1 + 0 /\ x + 1 = m * (q + 1) + 0 /\ q + 1 \in Nat /\ 0 \in 0 .. m - 1
    BY <1>1, <1>3
  <2>2. (m * (q + 1) + 0) % m = 0 /\ (m * 1 + 0) % m = 0
    BY <2>1, Divided
  <2> QED
    BY <2>1, <2>2 DEF r
<1> QED
  BY <1>2, <1>3

(* coverAll, and getNextValEncode below the last encoding.                 *)
LEMMA Covers ==
  ASSUME NEW len \in Nat
  PROVE  /\ \A e \in Nat : CoverAll(len, e) <=> e >= Power[len]
         /\ \A e \in 0 .. Power[len] - 1 : NextEncode(len, e) = e + 1
         /\ Power[len] \in Nat \ {0} /\ Power[len + 1] \in Nat /\ Power[len + 1] > Power[len]
<1> DEFINE N == Power[len]
           M == Power[len + 1]
<1>1. N \in Nat \ {0} /\ M = charSetSize * N
  BY PowerNext
<1> HIDE DEF N, M
<1>2. M \in Nat /\ M > N
  BY <1>1, Letters
<1>3. \A e \in Nat : CoverAll(len, e) <=> e >= N
  <2> SUFFICES ASSUME NEW e \in Nat PROVE CoverAll(len, e) <=> e >= N
    OBVIOUS
  <2>1. e \div N \in Nat /\ (e \div N = 0 <=> e < N)
    BY <1>1, Division, LessThan
  <2>2. CoverAll(len, e) <=> e \div N > 0
    BY DEF CoverAll, N
  <2> DEFINE d == e \div N
  <2>3. d \in Nat /\ (d = 0 <=> e < N) /\ (CoverAll(len, e) <=> d > 0)
    BY <2>1, <2>2
  <2> HIDE DEF d
  <2> QED
    BY <1>1, <2>3
<1>4. \A e \in 0 .. N - 1 : NextEncode(len, e) = e + 1
  <2> SUFFICES ASSUME NEW e \in 0 .. N - 1 PROVE NextEncode(len, e) = e + 1
    OBVIOUS
  <2>1. e + 1 \in 0 .. M - 1 /\ M \in Nat \ {0} /\ e + 1 = M * 0 + (e + 1)
    BY <1>1, <1>2
  <2>2. (M * 0 + (e + 1)) % M = e + 1
    BY <2>1, Divided
  <2> QED
    BY <2>1, <2>2 DEF NextEncode, M
<1> QED
  BY <1>1, <1>2, <1>3, <1>4 DEF N, M

(* How many options a tester has that starts with the encoding start.      *)
Count(len, start) ==
  IF start + ValDistance <= Power[len] THEN ValDistance ELSE Power[len] - start

Starts(len, i, before, start) ==
  /\ start \in 0 .. Power[len] - 1
  /\ start = IF i = 0 THEN 0 ELSE NextEncode(len, before)

(* genValOptions: the encodings from start, to the distance or the last.   *)
LEMMA OptionsAre ==
  ASSUME NEW len \in Nat, NEW i, NEW before, NEW start, Starts(len, i, before, start)
  PROVE  LET options == Options(len, i, before)
         IN /\ options = [k \in 1 .. Count(len, start) |-> start + k - 1]
            /\ Count(len, start) \in Nat \ {0}
            /\ Len(options) = Count(len, start)
            /\ Last(options) = start + Count(len, start) - 1
            /\ HasMore(len, options) <=> start + ValDistance < Power[len]
<1> DEFINE N == Power[len]
           M == Power[len + 1]
           D == ValDistance
           base == IF i = 0 THEN 0 ELSE NextEncode(len, before)
           Step(g) == [k \in 0 .. D |-> IF k > 0 THEN NextEncode(len, g[k - 1]) ELSE base]
           enc == CHOOSE g : g = Step(g)
           f == [k \in 0 .. D |-> (start + k) % M]
           c == Count(len, start)
<1>1. /\ N \in Nat \ {0} /\ M \in Nat \ {0} /\ M > N /\ D \in Nat \ {0}
      /\ start \in 0 .. N - 1 /\ start \in Nat /\ base = start
      /\ \A e : NextEncode(len, e) = (e + 1) % M
      /\ \A e \in Nat : CoverAll(len, e) <=> e >= N
      /\ \A e \in 0 .. N - 1 : NextEncode(len, e) = e + 1
  <2>1. /\ N \in Nat \ {0} /\ M \in Nat /\ M > N
        /\ \A e \in Nat : CoverAll(len, e) <=> e >= N
        /\ \A e \in 0 .. N - 1 : NextEncode(len, e) = e + 1
    BY Covers
  <2>2. start \in 0 .. N - 1 /\ base = start
    BY DEF Starts
  <2>3. \A e : NextEncode(len, e) = (e + 1) % M
    BY DEF NextEncode
  <2>4. D \in Nat \ {0}
    BY ConstantsAssumption
  <2> HIDE DEF N, M, base, D
  <2>5. M \in Nat \ {0} /\ start \in Nat
    BY <2>1, <2>2
  <2> QED
    BY <2>1, <2>2, <2>3, <2>4, <2>5
<1> HIDE DEF N, M, D, base
<1>2. \A e \in 0 .. N : e % M = e
  <2> SUFFICES ASSUME NEW e \in 0 .. N PROVE e % M = e
    OBVIOUS
  <2>1. e \in 0 .. M - 1 /\ e = M * 0 + e
    BY <1>1
  <2> QED
    BY <1>1, <2>1, Divided
<1>3. f = Step(f)
  <2>1. \A k \in 0 .. D : f[k] = IF k > 0 THEN NextEncode(len, f[k - 1]) ELSE base
    <3> SUFFICES ASSUME NEW k \in 0 .. D
                 PROVE  f[k] = IF k > 0 THEN NextEncode(len, f[k - 1]) ELSE base
      OBVIOUS
    <3>1. CASE k = 0
      <4>1. start + 0 = start /\ start % M = start
        BY <1>1, <1>2
      <4> QED
        BY <1>1, <3>1, <4>1
    <3>2. CASE k > 0
      <4>1. k - 1 \in 0 .. D /\ start + (k - 1) \in Nat /\ (start + (k - 1)) + 1 = start + k
        BY <1>1, <3>2
      <4>2. f[k] = (start + k) % M /\ f[k - 1] = (start + (k - 1)) % M
        BY <4>1
      <4>3. NextEncode(len, f[k - 1]) = (((start + (k - 1)) % M) + 1) % M
        BY <1>1, <4>2
      <4>4. (((start + (k - 1)) % M) + 1) % M = ((start + (k - 1)) + 1) % M
        BY <1>1, <4>1, NextModulo
      <4> HIDE DEF f
      <4> QED
        BY <3>2, <4>1, <4>2, <4>3, <4>4
    <3> QED
      BY <1>1, <3>1, <3>2
  <2> HIDE DEF f
  <2>2. DOMAIN f = 0 .. D /\ f = [k \in 0 .. D |-> f[k]]
    BY DEF f
  <2> QED
    BY <2>1, <2>2
<1>4. enc = Step(enc)
  BY <1>3
<1> HIDE DEF enc
<1>5. \A k \in 0 .. D : start + k <= N => enc[k] = start + k
  <2> DEFINE Bad == {k \in 0 .. D : start + k <= N /\ enc[k] # start + k}
  <2> SUFFICES ASSUME Bad # {} PROVE FALSE
    OBVIOUS
  <2>1. Bad \subseteq Nat
    OBVIOUS
  <2>2. PICK k \in Bad : \A j \in Bad : k <= j
    BY <2>1, LeastOf
  <2>3. enc[k] = IF k > 0 THEN NextEncode(len, enc[k - 1]) ELSE base
    BY <1>4, <2>2
  <2>4. k > 0
    BY <1>1, <2>2, <2>3
  <2>5. k - 1 \in 0 .. D /\ start + (k - 1) <= N /\ k - 1 \notin Bad /\ start + (k - 1) \in 0 .. N - 1
    BY <1>1, <2>2, <2>4
  <2>6. enc[k - 1] = start + (k - 1)
    BY <2>5
  <2>7. enc[k] = start + k
    BY <1>1, <2>3, <2>4, <2>5, <2>6
  <2> QED
    BY <2>2, <2>7
<1>6. c \in 0 .. D /\ c # 0 /\ start + c <= N /\ (c = D \/ start + c = N)
  BY <1>1 DEF Count, N, D
<1> HIDE DEF c
<1> DEFINE T == {k \in 0 .. D : k = D \/ CoverAll(len, enc[k])}
<1>7. Min(T) = c
  <2>1. c \in T
    BY <1>1, <1>5, <1>6
  <2>2. \A k \in T : c <= k
    <3> SUFFICES ASSUME NEW k \in 0 .. D, k < c PROVE k \notin T
      BY <1>6
    <3>1. start + k < N /\ start + k \in Nat /\ enc[k] = start + k
      BY <1>1, <1>5, <1>6
    <3> QED
      BY <1>1, <1>6, <3>1
  <2>3. T \subseteq Int
    OBVIOUS
  <2> HIDE DEF T
  <2>4. \E x \in T : \A y \in T : x <= y
    BY <2>1, <2>2
  <2>5. Min(T) \in T /\ \A y \in T : Min(T) <= y
    BY <2>4 DEF Min
  <2>6. Min(T) <= c /\ c <= Min(T) /\ Min(T) \in Int
    BY <2>1, <2>2, <2>3, <2>5
  <2>7. c \in Int
    BY <2>1, <2>3
  <2> QED
    BY <2>6, <2>7
<1> DEFINE options == Options(len, i, before)
<1>8. options = [k \in 1 .. Min(T) |-> enc[k - 1]]
  BY DEF Options, enc, base, T, D
<1>9. options = [k \in 1 .. c |-> start + k - 1]
  <2>1. \A k \in 1 .. c : enc[k - 1] = start + k - 1
    <3> SUFFICES ASSUME NEW k \in 1 .. c PROVE enc[k - 1] = start + k - 1
      OBVIOUS
    <3>1. k - 1 \in 0 .. D /\ start + (k - 1) <= N /\ start + (k - 1) = start + k - 1
      BY <1>1, <1>6
    <3> QED
      BY <1>5, <3>1
  <2> HIDE DEF options, T
  <2> QED
    BY <1>7, <1>8, <2>1
<1> HIDE DEF options
<1>10. c \in Nat \ {0} /\ Len(options) = c
  BY <1>6, <1>9, <1>1
<1>11. Last(options) = start + c - 1
  BY <1>9, <1>10 DEF Last
<1>12. HasMore(len, options) <=> start + D < N
  <2> DEFINE last == start + c - 1
  <2>1. last \in 0 .. N - 1 /\ last + 1 = start + c /\ start + c \in Nat
    BY <1>1, <1>6
  <2>2. HasMore(len, options) <=> ~ CoverAll(len, NextEncode(len, last))
    BY <1>11 DEF HasMore
  <2> HIDE DEF last
  <2>3. HasMore(len, options) <=> ~ (start + c >= N)
    BY <1>1, <2>1, <2>2
  <2> QED
    BY <1>1, <1>6, <2>3
<1> QED
  BY <1>9, <1>10, <1>11, <1>12 DEF N, D, c, options

-----------------------------------------------------------------------------
(* The testers of a length: each starts where the one before ends.         *)
Start(i) == i * ValDistance

(* The last encoding of the i-th tester of a length.                       *)
LastOf(len, i) == Start(i) + Count(len, Start(i)) - 1

LEMMA StartIs ==
  /\ Start(0) = 0
  /\ \A i \in Nat : Start(i) \in Nat /\ Start(i + 1) = Start(i) + ValDistance
<1>1. ValDistance \in Nat
  BY ConstantsAssumption
<1> QED
  BY <1>1 DEF Start

LEMMA LastIs ==
  ASSUME NEW len \in Nat, NEW i \in Nat, Start(i) < Power[len]
  PROVE  /\ LastOf(len, i) \in Start(i) .. Power[len] - 1
         /\ LastOf(len, i) < Start(i + 1)
         /\ Start(i + 1) <= Power[len] => LastOf(len, i) = Start(i + 1) - 1
         /\ ~ (Start(i + 1) < Power[len]) => LastOf(len, i) = Power[len] - 1
<1> DEFINE s == Start(i)
           N == Power[len]
<1>1. s \in Nat /\ Start(i + 1) = s + ValDistance /\ ValDistance \in Nat \ {0} /\ N \in Nat \ {0} /\ s < N
  BY StartIs, PowerPositive, ConstantsAssumption
<1>2. LastOf(len, i) = s + (IF s + ValDistance <= N THEN ValDistance ELSE N - s) - 1
  BY DEF LastOf, Count
<1> HIDE DEF s, N
<1>3. /\ LastOf(len, i) \in s .. N - 1 /\ LastOf(len, i) < s + ValDistance
      /\ s + ValDistance <= N => LastOf(len, i) = s + ValDistance - 1
      /\ ~ (s + ValDistance < N) => LastOf(len, i) = N - 1
  BY <1>1, <1>2
<1> QED
  BY <1>1, <1>3 DEF s, N

(* A tester starts after the last encoding of the one before.              *)
LEMMA BeforeStarts ==
  ASSUME NEW len \in Nat, NEW i \in Nat, Start(i) < Power[len],
         NEW before, i # 0 => before = LastOf(len, i - 1)
  PROVE  Starts(len, i, before, Start(i))
<1>1. Start(i) \in Nat /\ Power[len] \in Nat
  BY StartIs, PowerPositive
<1>2. CASE i = 0
  BY <1>1, <1>2, StartIs DEF Starts
<1>3. CASE i # 0
  <2>1. i - 1 \in Nat /\ (i - 1) + 1 = i
    BY <1>3
  <2>2. Start(i) = Start(i - 1) + ValDistance /\ Start(i - 1) \in Nat /\ ValDistance \in Nat \ {0}
    BY <2>1, StartIs, ConstantsAssumption
  <2>3. Start(i - 1) < Power[len]
    BY <1>1, <2>2
  <2>4. LastOf(len, i - 1) = Start(i) - 1 /\ LastOf(len, i - 1) \in 0 .. Power[len] - 1
    <3>1. /\ LastOf(len, i - 1) \in Start(i - 1) .. Power[len] - 1
          /\ Start((i - 1) + 1) <= Power[len] => LastOf(len, i - 1) = Start((i - 1) + 1) - 1
      BY <2>1, <2>3, LastIs
    <3> QED
      BY <1>1, <2>1, <2>2, <3>1
  <2>5. NextEncode(len, before) = Start(i)
    BY <1>1, <1>3, <2>4, Covers
  <2> QED
    BY <1>1, <1>3, <2>5 DEF Starts
<1> QED
  BY <1>2, <1>3

LEMMA LastOptions ==
  ASSUME NEW len \in Nat, NEW i \in Nat, Start(i) < Power[len],
         NEW before, i # 0 => before = LastOf(len, i - 1)
  PROVE  Last(Options(len, i, before)) = LastOf(len, i)
<1>1. Starts(len, i, before, Start(i))
  BY BeforeStarts
<1>2. Last(Options(len, i, before)) = Start(i) + Count(len, Start(i)) - 1
  BY <1>1, OptionsAre
<1> QED
  BY <1>2 DEF LastOf

(* valRangeMap of a length with the first k testers made.                  *)
Entries(len, k) == [i \in 1 .. k |-> LastOf(len, i - 1)]

(* The first k testers of a length all have options.                       *)
Room(len, k) == \A i \in 0 .. k - 1 : Start(i) < Power[len]

(* The entries are the same when testers are asserted again.               *)
LEMMA RangesAfterIs ==
  ASSUME NEW len \in Nat, NEW n \in Nat, Room(len, n), NEW testers, NEW ranges,
         DOMAIN ranges = 1 .. n, Len(ranges) = n,
         \A i \in 1 .. n : i - 1 \in testers \/ ranges[i] = LastOf(len, i - 1)
  PROVE  RangesAfter(len, testers, ranges) = Entries(len, n)
<1> DEFINE Step(g) == [i \in 0 .. Len(ranges) |->
                         IF i = 0 THEN -1
                         ELSE IF i - 1 \in testers THEN Last(Options(len, i - 1, g[i - 1]))
                         ELSE ranges[i]]
           range == CHOOSE g : g = Step(g)
           w == [i \in 0 .. n |-> IF i = 0 THEN -1 ELSE LastOf(len, i - 1)]
<1>1. ASSUME NEW i \in 1 .. n, NEW before, i # 1 => before = LastOf(len, i - 2)
      PROVE  LastOf(len, i - 1) = IF i - 1 \in testers THEN Last(Options(len, i - 1, before))
                                  ELSE ranges[i]
  <2>1. i - 1 \in 0 .. n - 1 /\ i - 1 \in Nat /\ (i - 1) - 1 = i - 2 /\ (i - 1 = 0 <=> i = 1)
    OBVIOUS
  <2>2. Start(i - 1) < Power[len]
    BY <2>1 DEF Room
  <2>3. i - 1 # 0 => before = LastOf(len, (i - 1) - 1)
    BY <1>1, <2>1
  <2>4. Last(Options(len, i - 1, before)) = LastOf(len, i - 1)
    BY <2>1, <2>2, <2>3, LastOptions
  <2> QED
    BY <2>4
<1>2. w = Step(w)
  <2>1. \A i \in 0 .. n : w[i] = IF i = 0 THEN -1
                                 ELSE IF i - 1 \in testers THEN Last(Options(len, i - 1, w[i - 1]))
                                 ELSE ranges[i]
    <3> SUFFICES ASSUME NEW i \in 0 .. n, i # 0
                 PROVE  w[i] = IF i - 1 \in testers THEN Last(Options(len, i - 1, w[i - 1]))
                               ELSE ranges[i]
      OBVIOUS
    <3>1. i \in 1 .. n /\ w[i] = LastOf(len, i - 1)
      OBVIOUS
    <3>2. i # 1 => w[i - 1] = LastOf(len, i - 2)
      <4> SUFFICES ASSUME i # 1 PROVE w[i - 1] = LastOf(len, i - 2)
        OBVIOUS
      <4>1. i - 1 \in 0 .. n /\ i - 1 # 0 /\ (i - 1) - 1 = i - 2
        OBVIOUS
      <4> QED
        BY <4>1
    <3> HIDE DEF w
    <3> QED
      BY <1>1, <3>1, <3>2
  <2>2. w = [i \in 0 .. n |-> w[i]]
    OBVIOUS
  <2> HIDE DEF w
  <2> QED
    BY <2>1, <2>2
<1>3. range = Step(range)
  BY <1>2
<1> HIDE DEF range
<1>4. \A i \in 1 .. n : range[i] = LastOf(len, i - 1)
  <2> DEFINE Bad == {i \in 1 .. n : range[i] # LastOf(len, i - 1)}
  <2> SUFFICES ASSUME Bad # {} PROVE FALSE
    OBVIOUS
  <2>1. Bad \subseteq Nat
    OBVIOUS
  <2>2. PICK i \in Bad : \A j \in Bad : i <= j
    BY <2>1, LeastOf
  <2>3. range[i] = IF i - 1 \in testers THEN Last(Options(len, i - 1, range[i - 1])) ELSE ranges[i]
    BY <1>3, <2>2
  <2>4. i # 1 => range[i - 1] = LastOf(len, i - 2)
    <3> SUFFICES ASSUME i # 1 PROVE range[i - 1] = LastOf(len, i - 2)
      OBVIOUS
    <3>1. i - 1 \in 1 .. n /\ i - 1 \notin Bad /\ (i - 1) - 1 = i - 2
      BY <2>2
    <3> QED
      BY <3>1
  <2>5. range[i] = LastOf(len, i - 1)
    BY <1>1, <2>2, <2>3, <2>4
  <2> QED
    BY <2>2, <2>5
<1>5. RangesAfter(len, testers, ranges) = [i \in DOMAIN ranges |-> range[i]]
  BY DEF RangesAfter, range
<1> QED
  BY <1>4, <1>5 DEF Entries

-----------------------------------------------------------------------------
(* The axioms, in closed form, made at a level.                            *)
Lengths(j) == (j - 1) * LenDistance .. j * LenDistance - 1

LenAxiom(level, j) ==
  [level |-> level, tester |-> LenTester(j), indicator |-> j,
   options |-> [n \in Lengths(j) |-> n], more |-> TRUE]

Block(len, i) == [n \in Start(i) .. LastOf(len, i) |-> GenValString(len, n)]

ValAxiom(level, j, len, i) ==
  [level |-> level, tester |-> ValTester(len, i), indicator |-> j,
   options |-> Block(len, i), more |-> Start(i + 1) < Power[len]]

UnrollAxiom(level, i, str) ==
  [level |-> level, tester |-> UnrollTester(i), indicator |-> 0,
   options |-> [n \in i * UnrollStep .. (i + 1) * UnrollStep - 1 |-> Unrolled(str, n)],
   more |-> TRUE]

EmptyAxiom(level) ==
  [level |-> level, tester |-> NoTester, indicator |-> 0,
   options |-> [n \in {0} |-> <<>>], more |-> FALSE]

(* What genValOptions makes, in closed form.                               *)
LEMMA GenValOptionsIs ==
  ASSUME NEW len \in Nat, NEW i \in Nat, Start(i) < Power[len],
         NEW before, i # 0 => before = LastOf(len, i - 1), NEW j
  PROVE  GenValOptions(j, len, i, before) = ValAxiom(sLevel, j, len, i)
<1> DEFINE options == Options(len, i, before)
           s == Start(i)
           c == Count(len, s)
<1>1. Starts(len, i, before, s)
  BY BeforeStarts
<1>2. /\ options = [k \in 1 .. c |-> s + k - 1] /\ c \in Nat \ {0} /\ Len(options) = c
      /\ HasMore(len, options) <=> s + ValDistance < Power[len]
  BY <1>1, OptionsAre
<1>3. s \in Nat /\ Start(i + 1) = s + ValDistance /\ LastOf(len, i) = s + c - 1 /\ i * ValDistance = s
  BY StartIs DEF LastOf, Start
<1> DEFINE offered == [n \in i * ValDistance .. i * ValDistance + Len(options) - 1 |->
                         GenValString(len, options[n - i * ValDistance + 1])]
<1>4. offered = Block(len, i)
  <2>1. i * ValDistance .. i * ValDistance + Len(options) - 1 = s .. LastOf(len, i)
    BY <1>2, <1>3
  <2>2. \A n \in s .. LastOf(len, i) : options[n - i * ValDistance + 1] = n
    <3> SUFFICES ASSUME NEW n \in s .. LastOf(len, i) PROVE options[n - s + 1] = n
      BY <1>3
    <3>1. n - s + 1 \in 1 .. c /\ s + (n - s + 1) - 1 = n
      BY <1>2, <1>3
    <3> QED
      BY <1>2, <3>1
  <2> HIDE DEF options
  <2>3. offered = [n \in s .. LastOf(len, i) |-> GenValString(len, options[n - i * ValDistance + 1])]
    BY <2>1
  <2> QED
    BY <2>2, <2>3 DEF Block
<1>5. HasMore(len, options) = (Start(i + 1) < Power[len])
  <2>1. HasMore(len, options) \in BOOLEAN
    BY DEF HasMore
  <2> QED
    BY <1>2, <1>3, <2>1
<1>6. GenValOptions(j, len, i, before)
        = [level |-> sLevel, tester |-> ValTester(len, i), indicator |-> j,
           options |-> offered, more |-> HasMore(len, options)]
  BY DEF GenValOptions
<1> QED
  BY <1>4, <1>5, <1>6 DEF ValAxiom

(* What the tables hold, with their parts as parameters.                   *)
RangesOK(ranges) ==
  /\ DOMAIN ranges = 0 .. MaxLen
  /\ \A len \in 0 .. MaxLen : \E k \in Nat : ranges[len] = Entries(len, k) /\ Room(len, k)

LEMMA EntriesLen ==
  ASSUME NEW len, NEW k \in Nat
  PROVE  Len(Entries(len, k)) = k /\ DOMAIN Entries(len, k) = 1 .. k
BY DEF Entries

LEMMA Joined ==
  ASSUME NEW s \in Seq(Int), NEW t \in Seq(Int)
  PROVE  /\ s \o t \in Seq(Int) /\ Len(s \o t) = Len(s) + Len(t)
         /\ \A i \in 1 .. Len(s) : (s \o t)[i] = s[i]
OBVIOUS

(* What a call leaves as it is, and what Perform makes of the rest.        *)
LEMMA Performed ==
  ASSUME NEW call, Perform(call)
  PROVE  /\ lenTesters' = call.lenTesters /\ valRange' = call.valRange
         /\ unrollTries' = call.unrollTries /\ axioms' = axioms \cup call.asserted
BY DEF Perform

(* What AssertValTesters makes of the tables and the axioms.               *)
LEMMA AssertValTestersIs ==
  ASSUME RangesOK(valRange), NEW len \in 0 .. MaxLen, NEW j, NEW total \in Nat, Room(len, total),
         total >= Len(valRange[len]), NEW testers, testers \subseteq 0 .. total - 1,
         \A i \in Len(valRange[len]) .. total - 1 : i \in testers,
         Perform(AssertValTesters(j, len, testers, total))
  PROVE  /\ valRange' = [valRange EXCEPT ![len] = Entries(len, total)]
         /\ RangesOK(valRange')
         /\ axioms' = axioms \cup {ValAxiom(sLevel, j, len, i) : i \in testers}
         /\ UNCHANGED <<lenTesters, unrollTries>>
<1>1. len \in Nat
  BY ConstantsAssumption
<1>2. PICK k \in Nat : valRange[len] = Entries(len, k) /\ Room(len, k)
  BY DEF RangesOK
<1>3. Len(valRange[len]) = k /\ k <= total
  BY <1>2, EntriesLen
<1> DEFINE padding == [i \in 1 .. total - Len(valRange[len]) |-> -1]
           ranges == valRange[len] \o padding
           after == RangesAfter(len, testers, ranges)
           Prior(i) == IF i = 0 THEN -1 ELSE after[i]
<1>4. /\ DOMAIN ranges = 1 .. total /\ Len(ranges) = total
      /\ \A i \in 1 .. total : i - 1 \in testers \/ ranges[i] = LastOf(len, i - 1)
  <2>1. padding \in Seq(Int) /\ Len(padding) = total - k
    BY <1>3
  <2>2. Entries(len, k) = [i \in 1 .. k |-> LastOf(len, i - 1)]
    BY DEF Entries
  <2>3. Len(Entries(len, k)) = k
    BY EntriesLen
  <2>4. Entries(len, k) \in Seq(Int)
    <3>1. \A i \in 1 .. k : LastOf(len, i - 1) \in Int
      <4> SUFFICES ASSUME NEW i \in 1 .. k PROVE LastOf(len, i - 1) \in Int
        OBVIOUS
      <4>1. i - 1 \in Nat /\ Start(i - 1) < Power[len]
        BY <1>2 DEF Room
      <4>2. Start(i - 1) \in Nat /\ Power[len] \in Nat
        BY <1>1, <4>1, StartIs, PowerPositive
      <4>3. LastOf(len, i - 1) \in Start(i - 1) .. Power[len] - 1
        BY <1>1, <4>1, LastIs
      <4> QED
        BY <4>2, <4>3
    <3> QED
      BY <2>2, <3>1
  <2> DEFINE entries == Entries(len, k)
  <2> HIDE DEF padding, entries
  <2>5. /\ entries \o padding \in Seq(Int)
        /\ Len(entries \o padding) = k + (total - k)
        /\ \A i \in 1 .. k : (entries \o padding)[i] = entries[i]
    <3>1. entries \in Seq(Int) /\ Len(entries) = k
      BY <2>3, <2>4 DEF entries
    <3> QED
      BY <2>1, <3>1, Joined
  <2>6. DOMAIN ranges = 1 .. total /\ Len(ranges) = total
    BY <1>2, <1>3, <2>5 DEF entries
  <2>7. ASSUME NEW i \in 1 .. total, i - 1 \notin testers PROVE ranges[i] = LastOf(len, i - 1)
    <3>1. i <= k
      <4>1. ~ (i - 1 \in k .. total - 1)
        BY <1>3, <2>7
      <4> QED
        BY <1>3, <4>1
    <3>2. i \in 1 .. k
      BY <1>3, <3>1
    <3>3. ranges[i] = Entries(len, k)[i]
      BY <1>2, <2>5, <3>2 DEF entries
    <3> QED
      BY <2>2, <3>2, <3>3
  <2> QED
    BY <2>6, <2>7
<1> HIDE DEF ranges
<1>5. after = Entries(len, total)
  BY <1>1, <1>4, RangesAfterIs
<1>6. /\ valRange' = [valRange EXCEPT ![len] = after]
      /\ axioms' = axioms \cup {GenValOptions(j, len, i, Prior(i)) : i \in testers}
      /\ UNCHANGED <<lenTesters, unrollTries>>
  <2> DEFINE call == AssertValTesters(j, len, testers, total)
             entries == [valRange EXCEPT ![len] = after]
             added == {GenValOptions(j, len, i, Prior(i)) : i \in testers}
  <2>1. call = [Nothing EXCEPT !.valRange = entries, !.asserted = added]
    BY DEF AssertValTesters, ranges, Nothing
  <2> HIDE DEF entries, added
  <2>2. /\ call.valRange = entries /\ call.asserted = added
        /\ call.lenTesters = lenTesters /\ call.unrollTries = unrollTries
    BY <2>1 DEF Nothing
  <2> HIDE DEF call
  <2>3. Perform(call)
    BY DEF call
  <2> QED
    BY <2>2, <2>3, Performed DEF entries, added
<1> HIDE DEF after
<1>7. \A i \in testers : GenValOptions(j, len, i, Prior(i)) = ValAxiom(sLevel, j, len, i)
  <2> SUFFICES ASSUME NEW i \in testers PROVE GenValOptions(j, len, i, Prior(i)) = ValAxiom(sLevel, j, len, i)
    OBVIOUS
  <2>1. i \in 0 .. total - 1 /\ i \in Nat
    OBVIOUS
  <2>2. Start(i) < Power[len]
    BY <2>1 DEF Room
  <2>3. i # 0 => Prior(i) = LastOf(len, i - 1)
    BY <1>5, <2>1 DEF Entries
  <2> HIDE DEF Prior
  <2> QED
    BY <1>1, <2>1, <2>2, <2>3, GenValOptionsIs
<1> HIDE DEF Prior
<1>8. axioms' = axioms \cup {ValAxiom(sLevel, j, len, i) : i \in testers}
  BY <1>6, <1>7
<1>9. RangesOK(valRange')
  <2>1. DOMAIN valRange' = 0 .. MaxLen
    BY <1>6 DEF RangesOK
  <2>2. ASSUME NEW l \in 0 .. MaxLen PROVE \E n \in Nat : valRange'[l] = Entries(l, n) /\ Room(l, n)
    <3>1. CASE l = len
      BY <1>5, <1>6, <3>1 DEF RangesOK
    <3>2. CASE l # len
      BY <1>6, <3>2 DEF RangesOK
    <3> QED
      BY <3>1, <3>2
  <2> QED
    BY <2>1, <2>2 DEF RangesOK
<1> QED
  BY <1>5, <1>6, <1>8, <1>9

-----------------------------------------------------------------------------
(* The invariant: its parts, with the state as parameters.                 *)
TablesOK(made, ranges, tries) ==
  /\ made \in Nat /\ made * LenDistance <= MaxLen + 1
  /\ RangesOK(ranges)
  /\ tries \in 0 .. MaxUnrolls + 1

(* An axiom is one of the four kinds, of a tester in the tables; strs are  *)
(* the constants, unrolled to their common length.                         *)
AxiomOK(a, level, made, ranges, tries, strs) ==
  \E l \in 0 .. level :
    \/ \E j \in 1 .. made : a = LenAxiom(l, j)
    \/ \E j \in 1 .. made : \E len \in Lengths(j) : \E i \in 0 .. Len(ranges[len]) - 1 :
         a = ValAxiom(l, j, len, i)
    \/ Cardinality(strs) = 1 /\ \E i \in 0 .. tries - 1 : a = UnrollAxiom(l, i, OneOf(strs))
    \/ Cardinality(strs) # 1 /\ strs # {} /\ a = EmptyAxiom(l)

(* A value tester's axiom is never in force without those before it.       *)
Chained(inForce) ==
  \A a \in inForce : IsValTester(a.tester) => \A i \in 0 .. a.tester.pos - 1 :
    \E c \in inForce : c.tester = ValTester(a.tester.len, i) /\ c.level <= a.level

(* A value is one that an axiom in force allows, no younger than it; "more"*)
(* stays within the bounds; and the length testers before are "more".      *)
ValueOK(b, level, inForce, given) ==
  /\ b.level \in 0 .. level
  /\ \E a \in inForce : a.tester = b.tester /\ a.level <= b.level /\ b.value \in Allowed(a)
  /\ b.value = More /\ IsLenTester(b.tester) => (b.tester.pos + 1) * LenDistance - 1 <= MaxLen
  /\ b.value = More /\ IsUnrollTester(b.tester) => (b.tester.pos + 1) * UnrollStep <= MaxUnrolls
  /\ IsLenTester(b.tester) => \A j \in 1 .. b.tester.pos - 1 :
       \E c \in given : c.tester = LenTester(j) /\ c.value = More /\ c.level <= b.level

OneValue(given) == \A a, b \in given : a.tester = b.tester => a = b

(* The constants x unrolls.                                                *)
CoresOK(constants) ==
  constants \subseteq Seq(Nat) /\ <<>> \notin constants /\ IsFiniteSet(constants)

(* What TypeOK and EveryStringOnce need to be inductive.                   *)
Inv ==
  /\ sLevel \in 0 .. pushes /\ pushes \in 0 .. MaxPushes
  /\ TablesOK(lenTesters, valRange, unrollTries)
  /\ \A a \in axioms : AxiomOK(a, sLevel, lenTesters, valRange, unrollTries, LcmStrings)
  /\ Chained(axioms)
  /\ \A b \in values : ValueOK(b, sLevel, axioms, values)
  /\ OneValue(values)
  /\ CoresOK(cores)

-----------------------------------------------------------------------------
LEMMA Constants ==
  /\ LenDistance \in Nat \ {0} /\ ValDistance \in Nat \ {0} /\ UnrollStep \in Nat \ {0}
  /\ MaxLen \in Nat /\ MaxUnrolls \in Nat /\ MaxPushes \in Nat /\ LenDistance <= MaxLen + 1
BY ConstantsAssumption

LEMMA MaxIs ==
  ASSUME NEW S, S \subseteq Int, NEW x \in S, \A y \in S : y <= x
  PROVE  Max(S) = x
<1>1. \E m \in S : \A y \in S : y <= m
  OBVIOUS
<1>2. Max(S) \in S /\ \A y \in S : y <= Max(S)
  BY <1>1 DEF Max
<1>3. Max(S) <= x /\ x <= Max(S) /\ Max(S) \in Int /\ x \in Int
  BY <1>2
<1> QED
  BY <1>3

LEMMA MinIs ==
  ASSUME NEW S, S \subseteq Nat, S # {}
  PROVE  Min(S) \in S /\ \A y \in S : Min(S) <= y
<1>1. \E m \in S : \A y \in S : m <= y
  BY LeastOf
<1> QED
  BY <1>1 DEF Min

(* The lengths of the testers made are within the tables.                  *)
LEMMA LengthsWithin ==
  ASSUME NEW made \in Nat, made * LenDistance <= MaxLen + 1, NEW j \in 1 .. made
  PROVE  Lengths(j) \subseteq 0 .. MaxLen
<1>1. LenDistance \in Nat \ {0} /\ MaxLen \in Nat
  BY Constants
<1>2. j * LenDistance <= made * LenDistance /\ (j - 1) * LenDistance \in Nat /\ j * LenDistance \in Nat
  BY <1>1
<1> DEFINE p == j * LenDistance
           q == (j - 1) * LenDistance
           m == made * LenDistance
<1>3. p <= m /\ q \in Nat /\ p \in Nat /\ m <= MaxLen + 1 /\ m \in Nat
  BY <1>1, <1>2
<1> HIDE DEF p, q, m
<1>4. q .. p - 1 \subseteq 0 .. MaxLen
  BY <1>1, <1>3
<1> QED
  BY <1>4 DEF Lengths, p, q

(* The testers of a kind are no testers of another.                        *)
LEMMA Testers ==
  /\ \A j : IsLenTester(LenTester(j)) /\ ~ IsValTester(LenTester(j)) /\ ~ IsUnrollTester(LenTester(j))
            /\ LenTester(j).pos = j /\ LenTester(j) # NoTester
  /\ \A len \in Nat : \A i :
       /\ ~ IsLenTester(ValTester(len, i)) /\ IsValTester(ValTester(len, i))
       /\ ~ IsUnrollTester(ValTester(len, i)) /\ ValTester(len, i) # NoTester
       /\ ValTester(len, i).pos = i /\ ValTester(len, i).len = len
       /\ \A k : [ValTester(len, i) EXCEPT !.pos = k] = ValTester(len, k)
  /\ \A i : ~ IsLenTester(UnrollTester(i)) /\ ~ IsValTester(UnrollTester(i))
            /\ IsUnrollTester(UnrollTester(i)) /\ UnrollTester(i).pos = i /\ UnrollTester(i) # NoTester
  /\ ~ IsLenTester(NoTester) /\ ~ IsValTester(NoTester) /\ ~ IsUnrollTester(NoTester)
BY DEF IsLenTester, IsValTester, IsUnrollTester, LenTester, ValTester, UnrollTester, NoTester

(* What the axioms of the testers of a kind are.                           *)
OfLenTester(a, made) == \E j \in 1 .. made : a = LenAxiom(a.level, j)

OfValTester(a, made, ranges) ==
  \E j \in 1 .. made : \E len \in Lengths(j) : \E i \in 0 .. Len(ranges[len]) - 1 :
    len \in 0 .. MaxLen /\ a = ValAxiom(a.level, j, len, i)

OfNoTester(a, strs) == Cardinality(strs) # 1 /\ strs # {} /\ a = EmptyAxiom(a.level)

OfUnrollTester(a, tries, strs) ==
  /\ Cardinality(strs) = 1
  /\ \E i \in 0 .. tries - 1 : a = UnrollAxiom(a.level, i, OneOf(strs))

(* What an axiom is, by the kind of its tester.                            *)
LEMMA AxiomKinds ==
  ASSUME NEW level \in Nat, NEW made, NEW ranges, NEW tries, TablesOK(made, ranges, tries), NEW strs,
         NEW a, AxiomOK(a, level, made, ranges, tries, strs)
  PROVE  /\ a.level \in 0 .. level
         /\ IsLenTester(a.tester) => OfLenTester(a, made)
         /\ IsValTester(a.tester) => OfValTester(a, made, ranges)
         /\ IsUnrollTester(a.tester) => OfUnrollTester(a, tries, strs)
         /\ a.tester = NoTester => OfNoTester(a, strs)
<1> DEFINE Goal ==
         /\ a.level \in 0 .. level
         /\ IsLenTester(a.tester) => OfLenTester(a, made)
         /\ IsValTester(a.tester) => OfValTester(a, made, ranges)
         /\ IsUnrollTester(a.tester) => OfUnrollTester(a, tries, strs)
         /\ a.tester = NoTester => OfNoTester(a, strs)
<1>1. PICK l \in 0 .. level :
        \/ \E j \in 1 .. made : a = LenAxiom(l, j)
        \/ \E j \in 1 .. made : \E len \in Lengths(j) : \E i \in 0 .. Len(ranges[len]) - 1 :
             a = ValAxiom(l, j, len, i)
        \/ Cardinality(strs) = 1 /\ \E i \in 0 .. tries - 1 : a = UnrollAxiom(l, i, OneOf(strs))
        \/ Cardinality(strs) # 1 /\ strs # {} /\ a = EmptyAxiom(l)
  BY DEF AxiomOK
<1>2. \A j \in 1 .. made : Lengths(j) \subseteq 0 .. MaxLen
  BY LengthsWithin DEF TablesOK
<1>3. ASSUME NEW j \in 1 .. made, a = LenAxiom(l, j) PROVE Goal
  <2>1. a.level = l /\ a.tester = LenTester(j)
    BY <1>3 DEF LenAxiom
  <2>2. OfLenTester(a, made)
    BY <1>3, <2>1 DEF OfLenTester
  <2> QED
    BY <2>1, <2>2, Testers
<1>4. ASSUME NEW j \in 1 .. made, NEW len \in Lengths(j), NEW i \in 0 .. Len(ranges[len]) - 1,
             a = ValAxiom(l, j, len, i)
      PROVE  Goal
  <2>1. a.level = l /\ a.tester = ValTester(len, i)
    BY <1>4 DEF ValAxiom
  <2>2. len \in 0 .. MaxLen /\ len \in Nat
    BY <1>2
  <2>3. OfValTester(a, made, ranges)
    BY <1>4, <2>1, <2>2 DEF OfValTester
  <2> QED
    BY <2>1, <2>2, <2>3, Testers
<1>5. ASSUME NEW i \in 0 .. tries - 1, a = UnrollAxiom(l, i, OneOf(strs)), Cardinality(strs) = 1 PROVE Goal
  <2>1. a.level = l /\ a.tester = UnrollTester(i)
    BY <1>5 DEF UnrollAxiom
  <2>2. OfUnrollTester(a, tries, strs)
    BY <1>5, <2>1 DEF OfUnrollTester
  <2> QED
    BY <2>1, <2>2, Testers
<1>6. ASSUME a = EmptyAxiom(l), Cardinality(strs) # 1, strs # {} PROVE Goal
  <2>1. a.level = l /\ a.tester = NoTester
    BY <1>6 DEF EmptyAxiom
  <2>2. OfNoTester(a, strs)
    BY <1>6, <2>1 DEF OfNoTester
  <2> QED
    BY <2>1, <2>2, Testers
<1> QED
  BY <1>1, <1>3, <1>4, <1>5, <1>6

(* The same of the axioms in force.                                        *)
LEMMA AxiomsAre ==
  ASSUME Inv, NEW a \in axioms
  PROVE  /\ a.level \in 0 .. sLevel
         /\ IsLenTester(a.tester) => OfLenTester(a, lenTesters)
         /\ IsValTester(a.tester) => OfValTester(a, lenTesters, valRange)
         /\ IsUnrollTester(a.tester) => OfUnrollTester(a, unrollTries, LcmStrings)
         /\ a.tester = NoTester => OfNoTester(a, LcmStrings)
<1>1. /\ TablesOK(lenTesters, valRange, unrollTries)
      /\ AxiomOK(a, sLevel, lenTesters, valRange, unrollTries, LcmStrings)
  BY DEF Inv
<1>2. sLevel \in Nat
  BY ConstantsAssumption DEF Inv
<1> QED
  BY <1>1, <1>2, AxiomKinds

(* An axiom stays one when tables grow and scopes open.                    *)
Grows(made, ranges, tries, made2, ranges2, tries2) ==
  /\ made <= made2 /\ made2 \in Nat /\ tries <= tries2 /\ tries2 \in Nat
  /\ \A len \in 0 .. MaxLen : Len(ranges[len]) <= Len(ranges2[len]) /\ Len(ranges2[len]) \in Nat

LEMMA AxiomStays ==
  ASSUME NEW level \in Nat, NEW made, NEW ranges, NEW tries, TablesOK(made, ranges, tries), NEW strs,
         NEW a, AxiomOK(a, level, made, ranges, tries, strs), NEW level2 \in Nat, level <= level2,
         NEW made2, NEW ranges2, NEW tries2, Grows(made, ranges, tries, made2, ranges2, tries2)
  PROVE  AxiomOK(a, level2, made2, ranges2, tries2, strs)
<1>1. PICK l \in 0 .. level :
        \/ \E j \in 1 .. made : a = LenAxiom(l, j)
        \/ \E j \in 1 .. made : \E len \in Lengths(j) : \E i \in 0 .. Len(ranges[len]) - 1 :
             a = ValAxiom(l, j, len, i)
        \/ Cardinality(strs) = 1 /\ \E i \in 0 .. tries - 1 : a = UnrollAxiom(l, i, OneOf(strs))
        \/ Cardinality(strs) # 1 /\ strs # {} /\ a = EmptyAxiom(l)
  BY DEF AxiomOK
<1>2. l \in 0 .. level2 /\ made \in Nat /\ tries \in Nat
  BY DEF TablesOK
<1>3. 1 .. made \subseteq 1 .. made2 /\ 0 .. tries - 1 \subseteq 0 .. tries2 - 1
  BY <1>2 DEF Grows
<1>4. \A j \in 1 .. made : Lengths(j) \subseteq 0 .. MaxLen
  BY LengthsWithin DEF TablesOK
<1>5. \A len \in 0 .. MaxLen : 0 .. Len(ranges[len]) - 1 \subseteq 0 .. Len(ranges2[len]) - 1
  <2> SUFFICES ASSUME NEW len \in 0 .. MaxLen
               PROVE  0 .. Len(ranges[len]) - 1 \subseteq 0 .. Len(ranges2[len]) - 1
    OBVIOUS
  <2>1. PICK k \in Nat : ranges[len] = Entries(len, k)
    BY DEF TablesOK, RangesOK
  <2>2. Len(ranges[len]) \in Nat
    BY <2>1, EntriesLen
  <2> QED
    BY <2>2 DEF Grows
<1>6. CASE \E j \in 1 .. made : a = LenAxiom(l, j)
  BY <1>2, <1>3, <1>6 DEF AxiomOK
<1>7. CASE \E j \in 1 .. made : \E len \in Lengths(j) : \E i \in 0 .. Len(ranges[len]) - 1 :
             a = ValAxiom(l, j, len, i)
  <2>1. \E j \in 1 .. made2 : \E len \in Lengths(j) : \E i \in 0 .. Len(ranges2[len]) - 1 :
             a = ValAxiom(l, j, len, i)
    BY <1>3, <1>4, <1>5, <1>7
  <2> QED
    BY <1>2, <2>1 DEF AxiomOK
<1>8. CASE Cardinality(strs) = 1 /\ \E i \in 0 .. tries - 1 : a = UnrollAxiom(l, i, OneOf(strs))
  BY <1>2, <1>3, <1>8 DEF AxiomOK
<1>9. CASE Cardinality(strs) # 1 /\ strs # {} /\ a = EmptyAxiom(l)
  BY <1>2, <1>9 DEF AxiomOK
<1> QED
  BY <1>1, <1>6, <1>7, <1>8, <1>9

(* The value of a tester (get_eqc_value).                                  *)
LEMMA ValueIs ==
  ASSUME Inv
  PROVE  /\ \A b \in values : Assigned(b.tester) /\ ValueOf(b.tester) = b.value
         /\ \A t : ValueOf(t) # Unknown => \E b \in values : b.tester = t /\ b.value = ValueOf(t)
         /\ \A t : Assigned(t) => \E b \in values : b.tester = t /\ b.value = ValueOf(t)
<1>1. ASSUME NEW t, Assigned(t)
      PROVE  \E b \in values : b.tester = t /\ b.value = ValueOf(t)
  <2>1. (CHOOSE a \in values : a.tester = t) \in values /\ (CHOOSE a \in values : a.tester = t).tester = t
    BY <1>1 DEF Assigned
  <2> QED
    BY <1>1, <2>1 DEF ValueOf
<1>2. \A t : ValueOf(t) # Unknown => Assigned(t)
  BY DEF ValueOf
<1>3. \A b \in values : Assigned(b.tester)
  BY DEF Assigned
<1>4. \A b \in values : ValueOf(b.tester) = b.value
  BY <1>1, <1>3 DEF Inv, OneValue
<1> QED
  BY <1>1, <1>2, <1>3, <1>4

-----------------------------------------------------------------------------
(* What the plug-in does to its tables and the axioms, whichever way it is *)
(* called: tables grow, axioms are added that fit them.                    *)
Advanced ==
  /\ TablesOK(lenTesters', valRange', unrollTries')
  /\ axioms \subseteq axioms'
  /\ \A a \in axioms' : AxiomOK(a, sLevel, lenTesters', valRange', unrollTries', LcmStrings)
  /\ Chained(axioms')
  /\ Grows(lenTesters, valRange, unrollTries, lenTesters', valRange', unrollTries')

LEMMA MaxOfTwo ==
  ASSUME NEW a \in Int, NEW b \in Int, a <= b
  PROVE  Max({a, b}) = b /\ Max({b, a}) = b /\ Max({b}) = b
<1>1. {a, b} \subseteq Int /\ {b} \subseteq Int /\ b \in {a, b} /\ b \in {b} /\ {b, a} = {a, b}
  OBVIOUS
<1>2. \A y \in {a, b} : y <= b
  OBVIOUS
<1>3. \A y \in {b} : y <= b
  OBVIOUS
<1>4. Max({a, b}) = b
  BY <1>1, <1>2, MaxIs
<1>5. Max({b}) = b
  BY <1>1, <1>3, MaxIs
<1> QED
  BY <1>1, <1>4, <1>5

LEMMA LevelNat == Inv => sLevel \in Nat
BY DEF Inv

LEMMA MadeIs ==
  ASSUME Inv, NEW len \in 0 .. MaxLen
  PROVE  Len(valRange[len]) \in Nat /\ Room(len, Len(valRange[len]))
<1>1. PICK k \in Nat : valRange[len] = Entries(len, k) /\ Room(len, k)
  BY DEF Inv, TablesOK, RangesOK
<1> QED
  BY <1>1, EntriesLen

LEMMA NothingAdvances ==
  ASSUME Inv, Perform(Nothing)
  PROVE  Advanced
<1>1. lenTesters' = lenTesters /\ valRange' = valRange /\ unrollTries' = unrollTries /\ axioms' = axioms
  <2>1. /\ Nothing.lenTesters = lenTesters /\ Nothing.valRange = valRange
        /\ Nothing.unrollTries = unrollTries /\ Nothing.asserted = {}
    BY DEF Nothing
  <2> QED
    BY <2>1, Performed
<1>2. Grows(lenTesters, valRange, unrollTries, lenTesters, valRange, unrollTries)
  <2>1. \A l \in 0 .. MaxLen : Len(valRange[l]) \in Nat /\ Len(valRange[l]) <= Len(valRange[l])
    BY MadeIs
  <2>2. lenTesters \in Nat /\ unrollTries \in Nat /\ lenTesters <= lenTesters /\ unrollTries <= unrollTries
    BY Constants DEF Inv, TablesOK
  <2> QED
    BY <2>1, <2>2 DEF Grows
<1> QED
  BY <1>1, <1>2 DEF Advanced, Inv

(* Value testers asserted: all those that are new, and none without those  *)
(* before it being asserted or in force.                                   *)
LEMMA AssertAdvances ==
  ASSUME Inv, NEW j \in 1 .. lenTesters, NEW len \in Lengths(j), NEW total \in Nat, Room(len, total),
         total >= Len(valRange[len]), NEW testers, testers \subseteq 0 .. total - 1,
         \A i \in Len(valRange[len]) .. total - 1 : i \in testers,
         \A i \in testers : \A k \in 0 .. i - 1 :
           k \in testers \/ \E c \in axioms : c.tester = ValTester(len, k),
         Perform(AssertValTesters(j, len, testers, total))
  PROVE  Advanced /\ Len(valRange'[len]) = total
<1>1. len \in 0 .. MaxLen /\ len \in Nat
  BY LengthsWithin DEF Inv, TablesOK
<1>2. /\ valRange' = [valRange EXCEPT ![len] = Entries(len, total)]
      /\ RangesOK(valRange')
      /\ axioms' = axioms \cup {ValAxiom(sLevel, j, len, i) : i \in testers}
      /\ lenTesters' = lenTesters /\ unrollTries' = unrollTries
  BY <1>1, AssertValTestersIs DEF Inv, TablesOK
<1>3. TablesOK(lenTesters', valRange', unrollTries')
  BY <1>2 DEF Inv, TablesOK
<1>4. DOMAIN valRange = 0 .. MaxLen
  BY DEF Inv, TablesOK, RangesOK
<1>5. Len(valRange'[len]) = total
  BY <1>1, <1>2, <1>4, EntriesLen
<1>6. Grows(lenTesters, valRange, unrollTries, lenTesters', valRange', unrollTries')
  <2>1. lenTesters \in Nat /\ unrollTries \in Nat
    BY DEF Inv, TablesOK
  <2>2. ASSUME NEW l \in 0 .. MaxLen
        PROVE  Len(valRange[l]) <= Len(valRange'[l]) /\ Len(valRange'[l]) \in Nat
    <3>1. CASE l = len
      BY <1>5, <3>1
    <3>2. CASE l # len
      <4>1. valRange'[l] = valRange[l]
        BY <1>2, <1>4, <3>2
      <4> QED
        BY <4>1, MadeIs
    <3> QED
      BY <3>1, <3>2
  <2> QED
    BY <1>2, <2>1, <2>2 DEF Grows
<1>7. sLevel \in Nat /\ sLevel \in 0 .. sLevel
  BY LevelNat
<1>8. ASSUME NEW a \in axioms' PROVE AxiomOK(a, sLevel, lenTesters', valRange', unrollTries', LcmStrings)
  <2>1. CASE a \in axioms
    <3>1. AxiomOK(a, sLevel, lenTesters, valRange, unrollTries, LcmStrings)
          /\ TablesOK(lenTesters, valRange, unrollTries)
      BY <2>1 DEF Inv
    <3> QED
      BY <1>6, <1>7, <3>1, AxiomStays
  <2>2. CASE a \notin axioms
    <3>1. PICK i \in testers : a = ValAxiom(sLevel, j, len, i)
      BY <1>2, <2>2
    <3>2. i \in 0 .. Len(valRange'[len]) - 1
      BY <1>5
    <3> QED
      BY <1>2, <1>7, <3>1, <3>2 DEF AxiomOK
  <2> QED
    BY <2>1, <2>2
<1>9. ASSUME NEW a \in axioms', IsValTester(a.tester), NEW i \in 0 .. a.tester.pos - 1
      PROVE  \E c \in axioms' : c.tester = ValTester(a.tester.len, i) /\ c.level <= a.level
  <2>1. CASE a \in axioms
    BY <1>2, <1>9, <2>1 DEF Inv, Chained
  <2>2. CASE a \notin axioms
    <3>1. PICK n \in testers : a = ValAxiom(sLevel, j, len, n)
      BY <1>2, <2>2
    <3>2. a.tester = ValTester(len, n) /\ a.level = sLevel
      BY <3>1 DEF ValAxiom
    <3>3. a.tester.len = len /\ i \in 0 .. n - 1
      BY <1>1, <3>2, Testers
    <3>4. CASE i \in testers
      <4>1. ValAxiom(sLevel, j, len, i) \in axioms'
        BY <1>2, <3>4
      <4>2. ValAxiom(sLevel, j, len, i).tester = ValTester(len, i)
            /\ ValAxiom(sLevel, j, len, i).level = sLevel /\ sLevel <= sLevel
        BY <1>7 DEF ValAxiom
      <4> QED
        BY <3>2, <3>3, <4>1, <4>2
    <3>5. CASE i \notin testers
      <4>1. PICK c \in axioms : c.tester = ValTester(len, i)
        BY <3>3, <3>5
      <4>2. c.level \in 0 .. sLevel
        BY AxiomsAre
      <4>3. c.level <= a.level
        BY <1>7, <3>2, <4>2
      <4> QED
        BY <1>2, <3>3, <4>1, <4>3
    <3> QED
      BY <3>4, <3>5
  <2> QED
    BY <2>1, <2>2
<1> QED
  BY <1>2, <1>3, <1>5, <1>6, <1>8, <1>9 DEF Advanced, Chained

(* genFreeVarOptions.                                                      *)
LEMMA FreeVarOptionsAdvance ==
  ASSUME Inv, NEW j \in 1 .. lenTesters, NEW len \in Lengths(j), NEW upto \in Nat, NEW more \in BOOLEAN,
         upto <= Len(valRange[len]),
         more => /\ upto < Len(valRange[len]) /\ Start(upto + 1) < Power[len]
                 /\ \E c \in axioms : c.tester = ValTester(len, upto),
         Perform(GenFreeVarOptions(j, len, upto, more))
  PROVE  Advanced /\ (more => upto + 1 < Len(valRange'[len]))
<1> DEFINE total == Len(valRange[len])
           again == {i \in 0 .. upto - 1 : ~ Assigned(ValTester(len, i))}
           next == IF more THEN {upto + 1} ELSE {}
           new == Max({total} \cup {i + 1 : i \in next})
<1>1. len \in 0 .. MaxLen /\ len \in Nat
  BY LengthsWithin DEF Inv, TablesOK
<1>2. total \in Nat /\ Room(len, total)
  BY <1>1, MadeIs
<1>3. CASE total = 0
  <2>1. Perform(AssertValTesters(j, len, {0}, 1))
    BY <1>3 DEF GenFreeVarOptions
  <2>2. Room(len, 1)
    <3>1. Start(0) < Power[len]
      <4>1. Start(0) = 0
        BY Constants DEF Start
      <4>2. Power[len] \in Nat \ {0}
        BY <1>1, PowerPositive
      <4> QED
        BY <4>1, <4>2
    <3>2. 0 .. 1 - 1 = {0}
      OBVIOUS
    <3> QED
      BY <3>1, <3>2 DEF Room
  <2>3. {0} \subseteq 0 .. 1 - 1 /\ \A i \in total .. 1 - 1 : i \in {0}
    BY <1>3
  <2>4. \A i \in {0} : \A k \in 0 .. i - 1 :
          k \in {0} \/ \E c \in axioms : c.tester = ValTester(len, k)
    OBVIOUS
  <2>5. 1 >= Len(valRange[len])
    BY <1>3
  <2> QED
    <3>1. Advanced
      BY <2>1, <2>2, <2>3, <2>4, <2>5, AssertAdvances
    <3>2. ~ more
      BY <1>3
    <3> QED
      BY <3>1, <3>2
<1>4. CASE total # 0
  <2>1. Perform(AssertValTesters(j, len, again \cup next, new))
    BY <1>4 DEF GenFreeVarOptions
  <2>2. new = IF more /\ upto + 1 = total THEN total + 1 ELSE total
    <3>1. CASE more
      <4>1. {total} \cup {i + 1 : i \in next} = {total, upto + 2}
        BY <3>1
      <4>2. upto + 2 <= total + 1 /\ total \in Int /\ upto + 2 \in Int
        BY <1>2, <3>1
      <4>3. CASE upto + 1 = total
        <5>1. upto + 2 = total + 1
          BY <4>3, <1>2
        <5>2. Max({total, upto + 2}) = upto + 2
          <6> HIDE DEF total
          <6>1. total <= upto + 2
            BY <1>2, <5>1
          <6> QED
            BY <4>2, <6>1, MaxOfTwo
        <5> QED
          BY <3>1, <4>1, <4>3, <5>1, <5>2
      <4>4. CASE upto + 1 # total
        <5>1. upto + 2 <= total
          BY <1>2, <3>1, <4>4
        <5>2. Max({total, upto + 2}) = total
          <6> HIDE DEF total
          <6> QED
            BY <4>2, <5>1, MaxOfTwo
        <5> QED
          BY <3>1, <4>1, <4>4, <5>2
      <4> QED
        BY <4>3, <4>4
    <3>2. CASE ~ more
      <4>1. {total} \cup {i + 1 : i \in next} = {total}
        BY <3>2
      <4>2. Max({total}) = total
        <5> HIDE DEF total
        <5>1. total \in Int /\ total <= total
          BY <1>2
        <5> QED
          BY <5>1, MaxOfTwo
      <4> QED
        BY <3>2, <4>1, <4>2
    <3> QED
      BY <3>1, <3>2
  <2> HIDE DEF new
  <2>3. new \in Nat /\ new >= total
    BY <1>2, <2>2
  <2>4. Room(len, new)
    <3> SUFFICES ASSUME NEW i \in 0 .. new - 1 PROVE Start(i) < Power[len]
      BY DEF Room
    <3>1. i \in 0 .. total - 1 \/ (more /\ i = upto + 1)
      BY <1>2, <2>2
    <3> QED
      BY <1>2, <3>1 DEF Room
  <2>5. again \cup next \subseteq 0 .. new - 1
    <3>1. again \subseteq 0 .. upto - 1 /\ next \subseteq 0 .. upto + 1 /\ (next # {} => more)
      OBVIOUS
    <3>2. upto <= new /\ (more => upto + 1 <= new - 1)
      BY <1>2, <2>2, <2>3
    <3> QED
      BY <1>2, <2>3, <3>1, <3>2
  <2>6. \A i \in total .. new - 1 : i \in again \cup next
    <3> SUFFICES ASSUME NEW i \in total .. new - 1 PROVE i \in again \cup next
      OBVIOUS
    <3>1. more /\ i = upto + 1
      BY <1>2, <2>2
    <3> QED
      BY <3>1
  <2>7. ASSUME NEW i \in again \cup next, NEW k \in 0 .. i - 1
        PROVE  k \in again \cup next \/ \E c \in axioms : c.tester = ValTester(len, k)
    <3>1. k \in 0 .. upto - 1 \/ (more /\ k = upto)
      OBVIOUS
    <3>2. CASE k \in 0 .. upto - 1
      <4>1. CASE Assigned(ValTester(len, k))
        <5>1. PICK b \in values : b.tester = ValTester(len, k)
          BY <4>1, ValueIs
        <5> QED
          BY <5>1 DEF Inv, ValueOK
      <4>2. CASE ~ Assigned(ValTester(len, k))
        BY <3>2, <4>2
      <4> QED
        BY <4>1, <4>2
    <3>3. CASE more /\ k = upto
      BY <3>3
    <3> QED
      BY <3>1, <3>2, <3>3
  <2> HIDE DEF again, next
  <2> QED
    <3>1. Advanced /\ Len(valRange'[len]) = new
      BY <2>1, <2>3, <2>4, <2>5, <2>6, <2>7, AssertAdvances
    <3>2. more => upto + 1 < new
      BY <1>2, <2>2
    <3> QED
      BY <3>1, <3>2
<1> QED
  BY <1>3, <1>4

-----------------------------------------------------------------------------
(* The value of a length tester while the core gives cbTester one.         *)
ValueIn(j, cbTester, cbValue) ==
  IF LenTester(j) = cbTester THEN cbValue ELSE ValueOf(LenTester(j))

(* What genLenValOptions is called with: values the axioms allow.          *)
CallOK(cbTester, cbValue) ==
  \A j \in 1 .. lenTesters :
    \/ ValueIn(j, cbTester, cbValue) = Unknown
    \/ ValueIn(j, cbTester, cbValue) = More /\ (j + 1) * LenDistance - 1 <= MaxLen
    \/ ValueIn(j, cbTester, cbValue) \in Lengths(j)

(* The values the axioms allow.                                            *)
LEMMA OptionsOf ==
  ASSUME NEW level \in Nat, NEW j \in Nat, NEW len, NEW i, NEW str
  PROVE  /\ Allowed(LenAxiom(level, j)) = Lengths(j) \cup {More}
         /\ Allowed(EmptyAxiom(level)) = {0}
         /\ ValAxiom(level, j, len, i).more => Start(i + 1) < Power[len]
         /\ Allowed(UnrollAxiom(level, i, str)) = (i * UnrollStep .. (i + 1) * UnrollStep - 1) \cup {More}
BY DEF Allowed, LenAxiom, EmptyAxiom, ValAxiom, UnrollAxiom

(* The values of the length testers that the core has recorded.            *)
LEMMA LenValues ==
  ASSUME Inv, NEW j \in Nat
  PROVE  \/ ValueOf(LenTester(j)) = Unknown
         \/ ValueOf(LenTester(j)) = More /\ (j + 1) * LenDistance - 1 <= MaxLen
         \/ ValueOf(LenTester(j)) \in Lengths(j)
<1> SUFFICES ASSUME ValueOf(LenTester(j)) # Unknown
             PROVE  \/ ValueOf(LenTester(j)) = More /\ (j + 1) * LenDistance - 1 <= MaxLen
                    \/ ValueOf(LenTester(j)) \in Lengths(j)
  OBVIOUS
<1>1. PICK b \in values : b.tester = LenTester(j) /\ b.value = ValueOf(LenTester(j))
  BY ValueIs
<1>2. PICK a \in axioms : a.tester = LenTester(j) /\ b.value \in Allowed(a)
  BY <1>1 DEF Inv, ValueOK
<1>3. IsLenTester(LenTester(j)) /\ LenTester(j).pos = j
  BY Testers
<1>4. PICK i \in 1 .. lenTesters : a = LenAxiom(a.level, i)
  BY <1>2, <1>3, AxiomsAre DEF OfLenTester
<1>5. a.tester = LenTester(i) /\ a.level \in Nat /\ i \in Nat
  <2>1. a.level \in 0 .. sLevel
    BY AxiomsAre
  <2> QED
    BY <1>4, <2>1, LevelNat DEF LenAxiom
<1>6. i = j
  BY <1>2, <1>3, <1>5, Testers
<1>7. b.value \in Lengths(j) \cup {More}
  BY <1>2, <1>4, <1>5, <1>6, OptionsOf
<1>8. b.value = More => (j + 1) * LenDistance - 1 <= MaxLen
  BY <1>1, <1>3 DEF Inv, ValueOK
<1> QED
  BY <1>1, <1>7, <1>8

LEMMA LengthsPositive ==
  ASSUME NEW j \in Nat \ {0}, NEW len \in Lengths(j)
  PROVE  len \in Nat /\ len # More /\ len # Unknown
<1>1. LenDistance \in Nat \ {0}
  BY Constants
<1>2. (j - 1) * LenDistance \in Nat
  BY <1>1
<1> DEFINE q == (j - 1) * LenDistance
           p == j * LenDistance
<1>3. p \in Int
  BY <1>1
<1>4. q \in Nat /\ len \in q .. p - 1
  BY <1>2 DEF Lengths
<1> HIDE DEF q, p
<1>5. len \in Nat
  BY <1>3, <1>4
<1> QED
  BY <1>5 DEF More, Unknown

LEMMA LenAxiomIs ==
  \A j : GenLenTestOptions(j) = LenAxiom(sLevel, j)
BY DEF GenLenTestOptions, LenAxiom, Lengths

(* genLenValOptionsForFreeVar, when it asserts a length tester.            *)
LenCall(j) ==
  [Nothing EXCEPT !.lenTesters = Max({j, @}), !.asserted = {GenLenTestOptions(j)}]

LEMMA LenCallIs ==
  \A j : /\ LenCall(j).lenTesters = Max({j, lenTesters})
         /\ LenCall(j).asserted = {GenLenTestOptions(j)}
         /\ LenCall(j).valRange = valRange /\ LenCall(j).unrollTries = unrollTries
BY DEF LenCall, Nothing

(* A length tester's axiom, old or new.                                    *)
LEMMA LenAdvances ==
  ASSUME Inv, NEW j \in 1 .. lenTesters + 1, j = lenTesters + 1 => j * LenDistance <= MaxLen + 1,
         lenTesters' = Max({j, lenTesters}), axioms' = axioms \cup {GenLenTestOptions(j)},
         UNCHANGED <<valRange, unrollTries>>
  PROVE  Advanced
<1>1. lenTesters \in Nat /\ lenTesters * LenDistance <= MaxLen + 1 /\ sLevel \in Nat
      /\ unrollTries \in Nat
  BY LevelNat DEF Inv, TablesOK
<1>2. lenTesters' \in Nat /\ lenTesters <= lenTesters' /\ j \in 1 .. lenTesters'
      /\ (lenTesters' = lenTesters \/ (lenTesters' = j /\ j = lenTesters + 1))
  <2>1. CASE j <= lenTesters
    <3>0. lenTesters \in Int /\ j \in Int /\ j <= lenTesters
      BY <1>1, <2>1
    <3>1. Max({j, lenTesters}) = lenTesters
      BY <3>0, MaxOfTwo
    <3> QED
      BY <1>1, <2>1, <3>1
  <2>2. CASE ~ (j <= lenTesters)
    <3>1. lenTesters \in Int /\ j \in Int /\ lenTesters <= j /\ j = lenTesters + 1
      BY <1>1, <2>2
    <3>2. Max({j, lenTesters}) = j
      BY <3>1, MaxOfTwo
    <3> QED
      BY <1>1, <3>1, <3>2
  <2> QED
    BY <2>1, <2>2
<1>3. lenTesters' * LenDistance <= MaxLen + 1
  <2>1. CASE lenTesters' = lenTesters
    BY <1>1, <2>1
  <2>2. CASE lenTesters' = j /\ j = lenTesters + 1
    BY <2>2
  <2> QED
    BY <1>2, <2>1, <2>2
<1>4. TablesOK(lenTesters', valRange', unrollTries')
  <2>1. valRange' = valRange /\ unrollTries' = unrollTries
    OBVIOUS
  <2>2. RangesOK(valRange) /\ unrollTries \in 0 .. MaxUnrolls + 1
    BY DEF Inv, TablesOK
  <2>3. RangesOK(valRange')
    BY <2>1, <2>2
  <2> QED
    BY <1>2, <1>3, <2>1, <2>2, <2>3 DEF TablesOK
<1>5. Grows(lenTesters, valRange, unrollTries, lenTesters', valRange', unrollTries')
  <2>1. \A l \in 0 .. MaxLen : Len(valRange[l]) \in Nat /\ Len(valRange[l]) <= Len(valRange[l])
    BY MadeIs
  <2> QED
    BY <1>1, <1>2, <2>1 DEF Grows
<1>6. axioms' = axioms \cup {LenAxiom(sLevel, j)}
  BY LenAxiomIs
<1>7. ASSUME NEW a \in axioms' PROVE AxiomOK(a, sLevel, lenTesters', valRange', unrollTries', LcmStrings)
  <2>1. CASE a \in axioms
    <3>1. AxiomOK(a, sLevel, lenTesters, valRange, unrollTries, LcmStrings)
          /\ TablesOK(lenTesters, valRange, unrollTries) /\ sLevel <= sLevel
      BY <1>1, <2>1 DEF Inv
    <3> QED
      BY <1>1, <1>5, <3>1, AxiomStays
  <2>2. CASE a = LenAxiom(sLevel, j)
    <3>1. sLevel \in 0 .. sLevel
      BY <1>1
    <3> QED
      BY <1>2, <2>2, <3>1 DEF AxiomOK
  <2> QED
    BY <1>6, <2>1, <2>2
<1>8. Chained(axioms')
  <2>1. ~ IsValTester(LenAxiom(sLevel, j).tester)
    BY Testers DEF LenAxiom
  <2> QED
    BY <1>6, <2>1 DEF Inv, Chained
<1> QED
  BY <1>4, <1>5, <1>6, <1>7, <1>8 DEF Advanced

(* genLenValOptionsForFreeVar.                                             *)
LEMMA LenValOptionsAdvance ==
  ASSUME Inv, NEW cbTester, NEW cbValue, CallOK(cbTester, cbValue),
         Perform(GenLenValOptions(cbTester, cbValue))
  PROVE  Advanced
<1> DEFINE Value(j) == ValueIn(j, cbTester, cbValue)
           candidates == {j \in 1 .. lenTesters + 1 : j = lenTesters + 1 \/ Value(j) # More}
           first == Min(candidates)
<1>1. lenTesters \in Nat /\ LenDistance \in Nat \ {0} /\ MaxLen \in Nat /\ LenDistance <= MaxLen + 1
  BY Constants DEF Inv, TablesOK
<1>2. GenLenValOptions(cbTester, cbValue) =
        IF first <= lenTesters /\ Value(first) # Unknown
        THEN GenFreeVarOptions(first, Value(first), Len(valRange[Value(first)]), FALSE)
        ELSE LenCall(first)
  BY DEF GenLenValOptions, ValueIn, LenCall
<1>3. candidates \subseteq Nat /\ lenTesters + 1 \in candidates
  BY <1>1
<1>4. first \in candidates /\ \A j \in candidates : first <= j
  <2> HIDE DEF candidates
  <2> QED
    BY <1>3, MinIs
<1>5. first \in 1 .. lenTesters + 1 /\ first \in Nat \ {0}
      /\ (first # lenTesters + 1 => Value(first) # More)
  BY <1>4
<1>6. \A j \in 1 .. first - 1 : Value(j) = More
  <2> SUFFICES ASSUME NEW j \in 1 .. first - 1, Value(j) # More PROVE FALSE
    OBVIOUS
  <2>1. j \in 1 .. lenTesters + 1 /\ ~ (first <= j)
    BY <1>1, <1>5
  <2>2. j \in candidates
    BY <2>1
  <2> HIDE DEF candidates, first
  <2> QED
    BY <1>4, <2>1, <2>2
<1> HIDE DEF first, candidates, Value
<1>7. CASE first <= lenTesters /\ Value(first) # Unknown
  <2>1. first \in 1 .. lenTesters /\ Value(first) # More
    BY <1>1, <1>5, <1>7
  <2>2. Value(first) \in Lengths(first)
    BY <1>7, <2>1 DEF CallOK, Value
  <2>3. Value(first) \in 0 .. MaxLen
    BY <1>1, <2>1, <2>2, LengthsWithin DEF Inv, TablesOK
  <2>4. Perform(GenFreeVarOptions(first, Value(first), Len(valRange[Value(first)]), FALSE))
    BY <1>2, <1>7
  <2>5. Len(valRange[Value(first)]) \in Nat
    BY <2>3, MadeIs
  <2>6. Len(valRange[Value(first)]) <= Len(valRange[Value(first)])
    BY <2>5
  <2> QED
    BY <2>1, <2>2, <2>4, <2>5, <2>6, FreeVarOptionsAdvance
<1>8. CASE ~ (first <= lenTesters /\ Value(first) # Unknown)
  <2>1. /\ lenTesters' = Max({first, lenTesters})
        /\ axioms' = axioms \cup {GenLenTestOptions(first)}
        /\ UNCHANGED <<valRange, unrollTries>>
    <3>1. Perform(LenCall(first))
      BY <1>2, <1>8
    <3> QED
      BY <3>1, LenCallIs, Performed
  <2>2. ASSUME first = lenTesters + 1
        PROVE  first * LenDistance <= MaxLen + 1
    <3>1. CASE lenTesters = 0
      <4>1. first * LenDistance = LenDistance
        BY <1>1, <2>2, <3>1
      <4> QED
        BY <1>1, <4>1
    <3>2. CASE lenTesters # 0
      <4>1. lenTesters \in 1 .. first - 1 /\ lenTesters \in 1 .. lenTesters
        BY <1>1, <2>2, <3>2
      <4>2. Value(lenTesters) = More
        BY <1>6, <4>1
      <4>3. More # Unknown /\ More \notin Lengths(lenTesters)
        <5>1. lenTesters \in Nat \ {0}
          BY <1>1, <3>2
        <5> QED
          BY <5>1, LengthsPositive DEF More, Unknown
      <4>4. (lenTesters + 1) * LenDistance - 1 <= MaxLen
        BY <4>1, <4>2, <4>3 DEF CallOK, Value
      <4>5. first * LenDistance \in Int /\ (lenTesters + 1) * LenDistance = first * LenDistance
        BY <1>1, <1>5, <2>2
      <4> QED
        BY <1>1, <4>4, <4>5
    <3> QED
      BY <3>1, <3>2
  <2> QED
    BY <1>5, <2>1, <2>2, LenAdvances
<1> QED
  BY <1>7, <1>8

-----------------------------------------------------------------------------
(* The parts of a value tester's axiom.                                    *)
LEMMA FieldsOf ==
  ASSUME NEW level, NEW j, NEW len, NEW i
  PROVE  /\ ValAxiom(level, j, len, i).tester = ValTester(len, i)
         /\ ValAxiom(level, j, len, i).indicator = j
         /\ ValAxiom(level, j, len, i).options = Block(len, i)
         /\ ValAxiom(level, j, len, i).more = (Start(i + 1) < Power[len])
BY DEF ValAxiom

(* moreValueTests, for a tester that is "more".                            *)
LEMMA MoreTestsAdvance ==
  ASSUME Inv, NEW a \in axioms, IsValTester(a.tester), Applies(a), More \in Allowed(a),
         Perform(MoreValueTests(a.tester))
  PROVE  Advanced /\ a.tester.pos + 1 < Len(valRange'[a.tester.len])
<1>0. ~ IsLenTester(a.tester) /\ sLevel \in Nat
  BY LevelNat DEF IsLenTester, IsValTester
<1>a. TablesOK(lenTesters, valRange, unrollTries)
      /\ AxiomOK(a, sLevel, lenTesters, valRange, unrollTries, LcmStrings)
  BY DEF Inv
<1>b. PICK j \in 1 .. lenTesters : \E len \in Lengths(j) : \E i \in 0 .. Len(valRange[len]) - 1 :
        len \in 0 .. MaxLen /\ a = ValAxiom(a.level, j, len, i)
  BY <1>0, <1>a, AxiomsAre DEF OfValTester
<1>c. PICK len \in Lengths(j) : \E i \in 0 .. Len(valRange[len]) - 1 :
        len \in 0 .. MaxLen /\ a = ValAxiom(a.level, j, len, i)
  BY <1>b
<1>1. PICK i \in 0 .. Len(valRange[len]) - 1 :
        len \in 0 .. MaxLen /\ a = ValAxiom(a.level, j, len, i)
  BY <1>c
<1>2. a.tester = ValTester(len, i) /\ a.indicator = j /\ (a.more => Start(i + 1) < Power[len])
  <2> DEFINE l == a.level
  <2>1. a = ValAxiom(l, j, len, i)
    BY <1>1
  <2> HIDE DEF l
  <2>2. a.tester = ValTester(len, i) /\ a.indicator = j
    BY <2>1, FieldsOf
  <2>3. a.more = (Start(i + 1) < Power[len])
    BY <2>1, FieldsOf
  <2> QED
    BY <2>2, <2>3
<1>3. a.tester.pos = i /\ a.tester.len = len /\ len \in Nat /\ j \in Nat \ {0} /\ lenTesters \in Nat
  <2>1. len \in Nat /\ j \in Nat \ {0} /\ lenTesters \in Nat
    BY <1>1 DEF Inv, TablesOK
  <2> QED
    BY <1>2, <2>1, Testers
<1>4. ValueOf(LenTester(j)) = len /\ len # More /\ len # Unknown
  <2>1. ValueOf(LenTester(j)) = len
    BY <1>0, <1>2, <1>3 DEF Applies
  <2> QED
    BY <1>1, <1>3, <2>1, LengthsPositive
<1>5. PICK b \in values : b.tester = LenTester(j)
  BY <1>4, ValueIs
<1>6. ASSUME NEW k \in 1 .. j - 1 PROVE ValueOf(LenTester(k)) = More
  <2>1. IsLenTester(b.tester) /\ b.tester.pos = j
    BY <1>5, Testers
  <2>2. PICK c \in values : c.tester = LenTester(k) /\ c.value = More
    BY <2>1 DEF Inv, ValueOK
  <2> QED
    BY <2>2, ValueIs
<1> DEFINE known == {k \in 1 .. lenTesters : ValueOf(LenTester(k)) \notin {More, Unknown}}
           first == Min(known)
<1>7. first = j
  <2>1. j \in known /\ known \subseteq Nat
    BY <1>1, <1>4
  <2>2. \A k \in known : ~ (k < j)
    <3> SUFFICES ASSUME NEW k \in known, k < j PROVE FALSE
      OBVIOUS
    <3>1. k \in 1 .. j - 1
      BY <1>3
    <3> QED
      BY <1>6, <3>1
  <2> HIDE DEF known
  <2>3. first \in known /\ \A k \in known : first <= k
    BY <2>1, MinIs
  <2>4. first \in Nat /\ first <= j /\ ~ (first < j)
    BY <2>1, <2>2, <2>3
  <2> HIDE DEF first
  <2> QED
    BY <1>3, <2>4
<1>8. Perform(GenFreeVarOptions(first, ValueOf(LenTester(first)), a.tester.pos, TRUE))
  BY DEF MoreValueTests
<1> HIDE DEF first
<1>9. Perform(GenFreeVarOptions(j, len, i, TRUE))
  BY <1>3, <1>4, <1>7, <1>8
<1>10. Len(valRange[len]) \in Nat
  BY <1>1, MadeIs
<1>11. a.more
  <2>1. DOMAIN a.options \subseteq Int /\ \A n \in DOMAIN a.options : n >= 0
    <3>1. a.options = Block(len, i)
      BY <1>1 DEF ValAxiom
    <3>2. DOMAIN a.options = Start(i) .. LastOf(len, i)
      BY <3>1 DEF Block
    <3>3. Start(i) \in Nat
      BY <1>1, <1>10, StartIs
    <3> QED
      BY <3>2, <3>3
  <2>2. More \notin DOMAIN a.options
    BY <2>1 DEF More
  <2> QED
    BY <2>2 DEF Allowed
<1>12. i \in Nat /\ i <= Len(valRange[len]) /\ i < Len(valRange[len])
  BY <1>1, <1>10
<1> QED
  <2>1. /\ i < Len(valRange[len]) /\ Start(i + 1) < Power[len]
        /\ \E c \in axioms : c.tester = ValTester(len, i)
    BY <1>2, <1>11, <1>12
  <2>2. Advanced /\ (TRUE => i + 1 < Len(valRange'[len]))
    BY <1>9, <1>12, <2>1, FreeVarOptionsAdvance
  <2> QED
    BY <1>3, <2>2

-----------------------------------------------------------------------------
(* genUnrollConditionalOptions, while x has no value.                      *)
LEMMA UnrollOptionsAdvance ==
  ASSUME Inv, ~ XKnown, cores # {}, Perform(GenUnrollOptions)
  PROVE  Advanced
<1> DEFINE without == {k \in 0 .. unrollTries : ~ Assigned(UnrollTester(k))}
           i == Min(without)
<1>1. /\ unrollTries \in 0 .. MaxUnrolls + 1 /\ unrollTries \in Nat /\ MaxUnrolls \in Nat
      /\ UnrollStep \in Nat \ {0} /\ sLevel \in Nat /\ sLevel \in 0 .. sLevel
      /\ TablesOK(lenTesters, valRange, unrollTries)
  BY Constants, LevelNat DEF Inv, TablesOK
<1>2. ASSUME NEW b \in values, NEW k, b.tester = UnrollTester(k)
      PROVE  k \in 0 .. unrollTries - 1 /\ b.value = More /\ (k + 1) * UnrollStep <= MaxUnrolls
  <2>1. IsUnrollTester(b.tester) /\ b.tester.pos = k /\ ~ IsLenTester(b.tester)
    BY <1>2, Testers
  <2>2. PICK a \in axioms : a.tester = b.tester
    BY DEF Inv, ValueOK
  <2>3. AxiomOK(a, sLevel, lenTesters, valRange, unrollTries, LcmStrings)
    BY DEF Inv
  <2>4. PICK n \in 0 .. unrollTries - 1 : a = UnrollAxiom(a.level, n, OneOf(LcmStrings))
    <3>1. IsUnrollTester(a.tester)
      BY <2>1, <2>2
    <3>2. sLevel \in Nat /\ TablesOK(lenTesters, valRange, unrollTries)
      BY <1>1
    <3>3. OfUnrollTester(a, unrollTries, LcmStrings)
      BY <3>1, AxiomsAre
    <3> QED
      BY <3>3 DEF OfUnrollTester
  <2>5. a.tester = UnrollTester(n)
    BY <2>4 DEF UnrollAxiom
  <2>6. n = k
    BY <2>1, <2>2, <2>5, Testers
  <2>7. b.value = More
    BY <2>1 DEF XKnown
  <2> QED
    BY <2>1, <2>6, <2>7 DEF Inv, ValueOK
<1>3. unrollTries \in without /\ without \subseteq Nat
  <2>1. ~ Assigned(UnrollTester(unrollTries))
    <3> SUFFICES ASSUME Assigned(UnrollTester(unrollTries)) PROVE FALSE
      OBVIOUS
    <3>1. PICK b \in values : b.tester = UnrollTester(unrollTries)
      BY DEF Assigned
    <3>2. unrollTries \in 0 .. unrollTries - 1
      BY <1>2, <3>1
    <3> QED
      BY <1>1, <3>2
  <2> QED
    BY <1>1, <2>1
<1>4. i \in without /\ \A k \in without : i <= k
  <2> HIDE DEF without
  <2> QED
    BY <1>3, MinIs
<1>5. i \in Nat /\ i <= unrollTries
  BY <1>1, <1>4
<1>6. i <= MaxUnrolls
  <2>1. CASE i = 0
    BY <1>1, <2>1
  <2>2. CASE i # 0
    <3>1. i - 1 \in 0 .. unrollTries /\ ~ (i <= i - 1)
      BY <1>1, <1>5, <2>2
    <3>2. i - 1 \notin without
      BY <1>4, <3>1
    <3>3. Assigned(UnrollTester(i - 1))
      BY <3>1, <3>2
    <3>4. PICK b \in values : b.tester = UnrollTester(i - 1)
      BY <3>3 DEF Assigned
    <3>5. (i - 1 + 1) * UnrollStep <= MaxUnrolls
      BY <1>2, <3>4
    <3> HIDE DEF i
    <3>6. i * UnrollStep <= MaxUnrolls /\ i <= i * UnrollStep /\ i * UnrollStep \in Nat
      BY <1>1, <1>5, <3>5
    <3> QED
      BY <1>1, <1>5, <3>6
  <2> QED
    BY <2>1, <2>2
<1>7. CASE Cardinality(LcmStrings) = 1
  <2>1. /\ unrollTries' = Max({unrollTries, i + 1})
        /\ axioms' = axioms \cup {GenUnrollAssign(i)}
        /\ lenTesters' = lenTesters /\ valRange' = valRange
    <3> DEFINE call == [Nothing EXCEPT !.unrollTries = Max({@, i + 1}), !.asserted = {GenUnrollAssign(i)}]
    <3>1. Perform(call)
      BY <1>7 DEF GenUnrollOptions
    <3>2. /\ call.unrollTries = Max({unrollTries, i + 1}) /\ call.asserted = {GenUnrollAssign(i)}
          /\ call.lenTesters = lenTesters /\ call.valRange = valRange
      BY DEF Nothing
    <3> HIDE DEF call
    <3> QED
      BY <3>1, <3>2, Performed
  <2> HIDE DEF i
  <2>2. unrollTries' \in 0 .. MaxUnrolls + 1 /\ unrollTries <= unrollTries' /\ i \in 0 .. unrollTries' - 1
    <3>1. CASE unrollTries <= i + 1
      <4>1. unrollTries \in Int /\ i + 1 \in Int
        BY <1>1, <1>5
      <4>2. unrollTries' = i + 1
        BY <2>1, <3>1, <4>1, MaxOfTwo
      <4> QED
        BY <1>1, <1>5, <1>6, <3>1, <4>2
    <3>2. CASE ~ (unrollTries <= i + 1)
      <4>1. unrollTries \in Int /\ i + 1 \in Int /\ i + 1 <= unrollTries
        BY <1>1, <1>5, <3>2
      <4>2. unrollTries' = unrollTries
        BY <2>1, <4>1, MaxOfTwo
      <4> QED
        BY <1>1, <1>5, <3>2, <4>2
    <3> QED
      BY <3>1, <3>2
  <2>3. GenUnrollAssign(i) = UnrollAxiom(sLevel, i, OneOf(LcmStrings))
    BY DEF GenUnrollAssign, UnrollAxiom, LcmStr, OneOf
  <2>4. TablesOK(lenTesters', valRange', unrollTries')
    BY <1>1, <2>1, <2>2 DEF TablesOK
  <2>5. Grows(lenTesters, valRange, unrollTries, lenTesters', valRange', unrollTries')
    <3>1. \A l \in 0 .. MaxLen : Len(valRange[l]) \in Nat /\ Len(valRange[l]) <= Len(valRange[l])
      BY MadeIs
    <3>2. lenTesters \in Nat /\ lenTesters <= lenTesters
      BY <1>1 DEF TablesOK
    <3>3. unrollTries' \in Nat
      BY <1>1, <2>2
    <3> QED
      BY <2>1, <2>2, <3>1, <3>2, <3>3 DEF Grows
  <2>6. ASSUME NEW a \in axioms' PROVE AxiomOK(a, sLevel, lenTesters', valRange', unrollTries', LcmStrings)
    <3>1. CASE a \in axioms
      <4>1. AxiomOK(a, sLevel, lenTesters, valRange, unrollTries, LcmStrings) /\ sLevel <= sLevel
        BY <1>1, <3>1 DEF Inv
      <4> QED
        BY <1>1, <2>5, <4>1, AxiomStays
    <3>2. CASE a = UnrollAxiom(sLevel, i, OneOf(LcmStrings))
      BY <1>1, <1>7, <2>2, <3>2 DEF AxiomOK
    <3> QED
      BY <2>1, <2>3, <3>1, <3>2
  <2>7. Chained(axioms')
    <3>1. ~ IsValTester(UnrollAxiom(sLevel, i, OneOf(LcmStrings)).tester)
      BY Testers DEF UnrollAxiom
    <3>2. axioms' = axioms \cup {UnrollAxiom(sLevel, i, OneOf(LcmStrings))}
      BY <2>1, <2>3
    <3> QED
      BY <3>1, <3>2 DEF Inv, Chained
  <2> QED
    BY <2>1, <2>4, <2>5, <2>6, <2>7 DEF Advanced
<1>8. CASE Cardinality(LcmStrings) # 1
  <2>1. axioms' = axioms \cup {EmptyAssign}
        /\ lenTesters' = lenTesters /\ valRange' = valRange /\ unrollTries' = unrollTries
    <3> DEFINE call == [Nothing EXCEPT !.asserted = {EmptyAssign}]
    <3>1. Perform(call)
      BY <1>8 DEF GenUnrollOptions
    <3>2. /\ call.asserted = {EmptyAssign} /\ call.unrollTries = unrollTries
          /\ call.lenTesters = lenTesters /\ call.valRange = valRange
      BY DEF Nothing
    <3> HIDE DEF call
    <3> QED
      BY <3>1, <3>2, Performed
  <2>2. EmptyAssign = EmptyAxiom(sLevel)
    BY DEF EmptyAssign, EmptyAxiom
  <2>3. ASSUME NEW a \in axioms' PROVE AxiomOK(a, sLevel, lenTesters', valRange', unrollTries', LcmStrings)
    <3>1. CASE a \in axioms
      BY <2>1, <3>1 DEF Inv
    <3>2. CASE a = EmptyAxiom(sLevel)
      <4>1. LcmStrings # {}
        BY DEF LcmStrings
      <4> QED
        BY <1>1, <1>8, <3>2, <4>1 DEF AxiomOK
    <3> QED
      BY <2>1, <2>2, <3>1, <3>2
  <2>4. Chained(axioms')
    <3>1. ~ IsValTester(EmptyAxiom(sLevel).tester)
      BY Testers DEF EmptyAxiom
    <3>2. axioms' = axioms \cup {EmptyAxiom(sLevel)}
      BY <2>1, <2>2
    <3> QED
      BY <3>1, <3>2 DEF Inv, Chained
  <2>5. TablesOK(lenTesters', valRange', unrollTries')
    BY <1>1, <2>1
  <2>6. Grows(lenTesters, valRange, unrollTries, lenTesters', valRange', unrollTries')
    <3>1. \A l \in 0 .. MaxLen : Len(valRange[l]) \in Nat /\ Len(valRange[l]) <= Len(valRange[l])
      BY MadeIs
    <3>2. lenTesters \in Nat /\ lenTesters <= lenTesters /\ unrollTries <= unrollTries
      BY <1>1 DEF TablesOK
    <3> QED
      BY <1>1, <2>1, <3>1, <3>2 DEF Grows
  <2> QED
    BY <2>1, <2>3, <2>4, <2>5, <2>6 DEF Advanced
<1> QED
  BY <1>7, <1>8

-----------------------------------------------------------------------------
(* The constants x unrolls never change.                                   *)
LEMMA LcmStringsStay ==
  ASSUME cores' = cores
  PROVE  LcmStrings' = LcmStrings
BY DEF LcmStrings

(* A value stays one that an axiom allows when axioms are added.           *)
LEMMA ValueStays ==
  ASSUME NEW b, NEW level \in Nat, NEW inForce, NEW given, ValueOK(b, level, inForce, given),
         NEW level2 \in Nat, level <= level2, NEW inForce2, inForce \subseteq inForce2,
         NEW given2, given \subseteq given2
  PROVE  ValueOK(b, level2, inForce2, given2)
<1>1. b.level \in 0 .. level2
  BY DEF ValueOK
<1>2. \E a \in inForce2 : a.tester = b.tester /\ a.level <= b.level /\ b.value \in Allowed(a)
  BY DEF ValueOK
<1>3. /\ b.value = More /\ IsLenTester(b.tester) => (b.tester.pos + 1) * LenDistance - 1 <= MaxLen
      /\ b.value = More /\ IsUnrollTester(b.tester) => (b.tester.pos + 1) * UnrollStep <= MaxUnrolls
  BY DEF ValueOK
<1>4. IsLenTester(b.tester) => \A j \in 1 .. b.tester.pos - 1 :
        \E c \in given2 : c.tester = LenTester(j) /\ c.value = More /\ c.level <= b.level
  BY DEF ValueOK
<1> QED
  BY <1>1, <1>2, <1>3, <1>4 DEF ValueOK

(* Inv holds at first.                                                     *)
LEMMA InitInv == Init => Inv
<1> SUFFICES ASSUME Init PROVE Inv
  OBVIOUS
<1>1. /\ MaxPushes \in Nat /\ MaxLen \in Nat /\ MaxUnrolls \in Nat /\ LenDistance \in Nat \ {0}
  BY Constants
<1>2. sLevel = 0 /\ pushes = 0 /\ lenTesters = 0 /\ unrollTries = 0 /\ axioms = {} /\ values = {}
      /\ valRange = [len \in 0 .. MaxLen |-> <<>>]
  BY DEF Init
<1>3. RangesOK(valRange)
  <2>1. ASSUME NEW len \in 0 .. MaxLen
        PROVE  \E k \in Nat : valRange[len] = Entries(len, k) /\ Room(len, k)
    <3>1. valRange[len] = <<>>
      BY <1>2
    <3>2. Entries(len, 0) = <<>>
      BY DEF Entries
    <3>3. Room(len, 0)
      BY DEF Room
    <3> QED
      BY <3>1, <3>2, <3>3
  <2>2. DOMAIN valRange = 0 .. MaxLen
    BY <1>2
  <2> QED
    BY <2>1, <2>2 DEF RangesOK
<1>4. TablesOK(lenTesters, valRange, unrollTries)
  <2>1. 0 * LenDistance <= MaxLen + 1
    BY <1>1
  <2> QED
    BY <1>1, <1>2, <1>3, <2>1 DEF TablesOK
<1> QED
  BY <1>1, <1>2, <1>4 DEF Inv, Chained, OneValue

(* cb_final_check.                                                         *)
LEMMA FinalCheckAdvances ==
  ASSUME Inv, CbFinalCheck
  PROVE  Advanced
<1>1. CASE cores = {}
  <2>0. Perform(GenLenValOptions(LenTester(0), Unknown))
    BY <1>1 DEF CbFinalCheck, FinalCheck
  <2>1. CallOK(LenTester(0), Unknown)
    <3> SUFFICES ASSUME NEW j \in 1 .. lenTesters
                 PROVE  \/ ValueIn(j, LenTester(0), Unknown) = Unknown
                        \/ ValueIn(j, LenTester(0), Unknown) = More /\ (j + 1) * LenDistance - 1 <= MaxLen
                        \/ ValueIn(j, LenTester(0), Unknown) \in Lengths(j)
      BY DEF CallOK
    <3>1. j \in Nat
      BY DEF Inv, TablesOK
    <3> QED
      BY <3>1, LenValues DEF ValueIn
  <2> QED
    BY <2>0, <2>1, LenValOptionsAdvance
<1>2. CASE cores # {}
  BY <1>2, UnrollOptionsAdvance DEF CbFinalCheck, FinalCheck
<1> QED
  BY <1>1, <1>2

(* Every step keeps Inv.                                                   *)
LEMMA CbFinalCheckInv ==
  ASSUME Inv, CbFinalCheck
  PROVE  Inv'
<1>1. sLevel' = sLevel /\ pushes' = pushes /\ values' = values /\ cores' = cores
  BY DEF CbFinalCheck, input
<1>2. Advanced
  BY FinalCheckAdvances
<1>3. LcmStrings' = LcmStrings
  BY <1>1, LcmStringsStay
<1>4. ASSUME NEW b \in values PROVE ValueOK(b, sLevel, axioms', values)
  <2>1. ValueOK(b, sLevel, axioms, values) /\ sLevel \in Nat /\ sLevel <= sLevel /\ axioms \subseteq axioms'
    BY <1>2, LevelNat DEF Inv, Advanced
  <2> QED
    BY <2>1, ValueStays
<1> QED
  BY <1>1, <1>2, <1>3, <1>4 DEF Inv, Advanced

(* freeVarAttempt.                                                         *)
LEMMA AttemptAdvances ==
  ASSUME Inv, NEW a \in axioms, NEW v \in Allowed(a), Pending(a),
         v = More /\ IsLenTester(a.tester) => (a.tester.pos + 1) * LenDistance - 1 <= MaxLen,
         Perform(FreeVarAttempt(a.tester, v))
  PROVE  /\ Advanced
         /\ IsValTester(a.tester) /\ v = More => a.tester.pos + 1 < Len(valRange'[a.tester.len])
<1>1. CASE IsLenTester(a.tester)
  <2>a. TablesOK(lenTesters, valRange, unrollTries) /\ sLevel \in Nat
        /\ AxiomOK(a, sLevel, lenTesters, valRange, unrollTries, LcmStrings)
    BY LevelNat DEF Inv
  <2>1. PICK p \in 1 .. lenTesters : a = LenAxiom(a.level, p)
    BY <1>1, AxiomsAre DEF OfLenTester
  <2>2. a.level \in Nat /\ p \in Nat
    <3>1. a.level \in 0 .. sLevel
      BY AxiomsAre
    <3> QED
      BY <2>a, <3>1 DEF TablesOK
  <2> DEFINE l == a.level
  <2>3. a = LenAxiom(l, p) /\ l \in Nat
    BY <2>1, <2>2
  <2> HIDE DEF l
  <2>4. v \in Lengths(p) \cup {More}
    BY <2>2, <2>3, OptionsOf
  <2>5. a.tester = LenTester(p)
    BY <2>3 DEF LenAxiom
  <2>6. a.tester.pos = p
    BY <2>5, Testers
  <2>7. CallOK(a.tester, v)
    <3> SUFFICES ASSUME NEW j \in 1 .. lenTesters
                 PROVE  \/ ValueIn(j, a.tester, v) = Unknown
                        \/ ValueIn(j, a.tester, v) = More /\ (j + 1) * LenDistance - 1 <= MaxLen
                        \/ ValueIn(j, a.tester, v) \in Lengths(j)
      BY DEF CallOK
    <3>1. j \in Nat
      BY <2>a DEF TablesOK
    <3>2. CASE LenTester(j) = a.tester
      <4>1. j = p
        BY <2>5, <2>6, <3>2, Testers
      <4>2. ValueIn(j, a.tester, v) = v
        BY <3>2 DEF ValueIn
      <4> QED
        BY <1>1, <2>4, <2>6, <4>1, <4>2
    <3>3. CASE LenTester(j) # a.tester
      BY <3>1, <3>3, LenValues DEF ValueIn
    <3> QED
      BY <3>2, <3>3
  <2>8. Perform(GenLenValOptions(a.tester, v))
    BY <1>1 DEF FreeVarAttempt
  <2>9. ~ IsValTester(a.tester)
    BY <1>1 DEF IsLenTester, IsValTester
  <2> QED
    BY <2>7, <2>8, <2>9, LenValOptionsAdvance
<1>2. CASE ~ IsLenTester(a.tester) /\ IsValTester(a.tester) /\ v = More
  BY <1>2, MoreTestsAdvance DEF FreeVarAttempt, Pending
<1>3. CASE ~ IsLenTester(a.tester) /\ ~ (IsValTester(a.tester) /\ v = More)
  BY <1>3, NothingAdvances DEF FreeVarAttempt
<1> QED
  BY <1>1, <1>2, <1>3

LEMMA CbNewEqInv ==
  ASSUME Inv, NEW a \in axioms, NEW v, CbNewEq(a, v)
  PROVE  Inv'
<1> DEFINE new == [level |-> sLevel, tester |-> a.tester, value |-> v]
<1>1. sLevel' = sLevel /\ pushes' = pushes /\ cores' = cores /\ values' = values \cup {new}
      /\ Pending(a) /\ v \in Allowed(a)
      /\ (v = More /\ IsLenTester(a.tester) => (a.tester.pos + 1) * LenDistance - 1 <= MaxLen)
      /\ (v = More /\ IsUnrollTester(a.tester) => (a.tester.pos + 1) * UnrollStep <= MaxUnrolls)
      /\ Perform(FreeVarAttempt(a.tester, v))
  BY DEF CbNewEq, input
<1>2. Advanced
  BY <1>1, AttemptAdvances
<1>3. LcmStrings' = LcmStrings
  BY <1>1, LcmStringsStay
<1>4. new.level = sLevel /\ new.tester = a.tester /\ new.value = v
  OBVIOUS
<1>5. sLevel \in Nat /\ axioms \subseteq axioms' /\ values \subseteq values' /\ sLevel <= sLevel
  BY <1>1, <1>2, LevelNat DEF Advanced
<1>6. ASSUME NEW b \in values PROVE ValueOK(b, sLevel, axioms', values') /\ b.tester # a.tester
  <2>1. ValueOK(b, sLevel, axioms, values)
    BY DEF Inv
  <2>2. ~ Assigned(a.tester)
    BY <1>1 DEF Pending
  <2>3. b.tester # a.tester
    BY <2>2 DEF Assigned
  <2> QED
    BY <1>5, <2>1, <2>3, ValueStays
<1> HIDE DEF new
<1>7. ValueOK(new, sLevel, axioms', values')
  <2>1. new.level \in 0 .. sLevel
    BY <1>4, <1>5
  <2>2. a.level <= sLevel
    <3>1. a.level \in 0 .. sLevel
      BY <1>5, AxiomsAre
    <3> QED
      BY <1>5, <3>1
  <2>3. \E c \in axioms' : c.tester = new.tester /\ c.level <= new.level /\ new.value \in Allowed(c)
    BY <1>1, <1>4, <1>5, <2>2
  <2>4. ASSUME IsLenTester(a.tester), NEW j \in 1 .. a.tester.pos - 1
        PROVE  \E c \in values' : c.tester = LenTester(j) /\ c.value = More /\ c.level <= sLevel
    <3>1. ValueOf(LenTester(j)) = More
      BY <1>1, <2>4 DEF Pending, Applies
    <3>2. PICK c \in values : c.tester = LenTester(j) /\ c.value = More
      BY <3>1, ValueIs DEF More, Unknown
    <3>3. c.level \in 0 .. sLevel
      BY DEF Inv, ValueOK
    <3> QED
      BY <1>5, <3>2, <3>3
  <2> QED
    BY <1>1, <1>4, <2>1, <2>3, <2>4 DEF ValueOK
<1>8. OneValue(values')
  BY <1>1, <1>4, <1>6 DEF Inv, OneValue
<1> QED
  BY <1>1, <1>2, <1>3, <1>6, <1>7, <1>8 DEF Inv, Advanced

LEMMA CbPushInv ==
  ASSUME Inv, CbPush
  PROVE  Inv'
<1>1. sLevel' = sLevel + 1 /\ pushes' = pushes + 1 /\ pushes < MaxPushes
      /\ lenTesters' = lenTesters /\ valRange' = valRange /\ unrollTries' = unrollTries
      /\ axioms' = axioms /\ values' = values /\ cores' = cores
  BY DEF CbPush, tables, input
<1>2. LcmStrings' = LcmStrings
  BY <1>1, LcmStringsStay
<1>3. sLevel \in 0 .. pushes /\ pushes \in 0 .. MaxPushes /\ MaxPushes \in Nat /\ sLevel \in Nat
      /\ sLevel + 1 \in Nat /\ sLevel <= sLevel + 1
  BY Constants, LevelNat DEF Inv
<1>4. sLevel' \in 0 .. pushes' /\ pushes' \in 0 .. MaxPushes
  BY <1>1, <1>3
<1>5. TablesOK(lenTesters, valRange, unrollTries)
  BY DEF Inv
<1>6. Grows(lenTesters, valRange, unrollTries, lenTesters, valRange, unrollTries)
  <2>1. \A l \in 0 .. MaxLen : Len(valRange[l]) \in Nat /\ Len(valRange[l]) <= Len(valRange[l])
    BY MadeIs
  <2> QED
    BY <1>5, <2>1 DEF Grows, TablesOK
<1>7. ASSUME NEW a \in axioms PROVE AxiomOK(a, sLevel + 1, lenTesters, valRange, unrollTries, LcmStrings)
  <2>1. AxiomOK(a, sLevel, lenTesters, valRange, unrollTries, LcmStrings)
    BY DEF Inv
  <2> QED
    BY <1>3, <1>5, <1>6, <2>1, AxiomStays
<1>8. ASSUME NEW b \in values PROVE ValueOK(b, sLevel + 1, axioms, values)
  <2>1. ValueOK(b, sLevel, axioms, values)
    BY DEF Inv
  <2> QED
    BY <1>3, <2>1, ValueStays
<1>9. TablesOK(lenTesters', valRange', unrollTries')
  BY <1>1, <1>5
<1>10. Chained(axioms') /\ OneValue(values')
  BY <1>1 DEF Inv
<1>11. \A a \in axioms' : AxiomOK(a, sLevel', lenTesters', valRange', unrollTries', LcmStrings')
  BY <1>1, <1>2, <1>7
<1>12. \A b \in values' : ValueOK(b, sLevel', axioms', values')
  BY <1>1, <1>8
<1>13. CoresOK(cores')
  BY <1>1 DEF Inv
<1> QED
  BY <1>4, <1>9, <1>10, <1>11, <1>12, <1>13 DEF Inv

LEMMA CbPopInv ==
  ASSUME Inv, CbPop
  PROVE  Inv'
<1>1. sLevel' = sLevel - 1 /\ pushes' = pushes /\ sLevel > 0
      /\ lenTesters' = lenTesters /\ valRange' = valRange /\ unrollTries' = unrollTries
      /\ axioms' = {a \in axioms : a.level < sLevel} /\ values' = {b \in values : b.level < sLevel}
      /\ cores' = cores
  BY DEF CbPop, tables, input
<1>2. LcmStrings' = LcmStrings
  BY <1>1, LcmStringsStay
<1>3. sLevel \in 0 .. pushes /\ pushes \in 0 .. MaxPushes /\ MaxPushes \in Nat /\ sLevel \in Nat
      /\ TablesOK(lenTesters, valRange, unrollTries)
  BY Constants, LevelNat DEF Inv
<1>4. sLevel' \in 0 .. pushes' /\ pushes' \in 0 .. MaxPushes
  BY <1>1, <1>3
<1>5. ASSUME NEW a \in axioms, a.level < sLevel
      PROVE  AxiomOK(a, sLevel - 1, lenTesters, valRange, unrollTries, LcmStrings)
  <2>1. PICK l \in 0 .. sLevel :
          \/ \E j \in 1 .. lenTesters : a = LenAxiom(l, j)
          \/ \E j \in 1 .. lenTesters : \E len \in Lengths(j) : \E i \in 0 .. Len(valRange[len]) - 1 :
               a = ValAxiom(l, j, len, i)
          \/ /\ Cardinality(LcmStrings) = 1
             /\ \E i \in 0 .. unrollTries - 1 : a = UnrollAxiom(l, i, OneOf(LcmStrings))
          \/ Cardinality(LcmStrings) # 1 /\ LcmStrings # {} /\ a = EmptyAxiom(l)
    BY DEF Inv, AxiomOK
  <2>2. a.level = l
    BY <2>1 DEF LenAxiom, ValAxiom, UnrollAxiom, EmptyAxiom
  <2>3. l \in 0 .. sLevel - 1
    BY <1>3, <1>5, <2>2
  <2> QED
    BY <2>1, <2>3 DEF AxiomOK
<1>6. \A a \in axioms : a.level \in 0 .. sLevel
  BY AxiomsAre
<1>7. Chained(axioms')
  <2> SUFFICES ASSUME NEW a \in axioms', IsValTester(a.tester), NEW i \in 0 .. a.tester.pos - 1
               PROVE  \E c \in axioms' : c.tester = ValTester(a.tester.len, i) /\ c.level <= a.level
    BY DEF Chained
  <2>1. a \in axioms /\ a.level < sLevel
    BY <1>1
  <2>2. PICK c \in axioms : c.tester = ValTester(a.tester.len, i) /\ c.level <= a.level
    BY <2>1 DEF Inv, Chained
  <2>3. c.level < sLevel
    BY <1>3, <1>6, <2>1, <2>2
  <2> QED
    BY <1>1, <2>2, <2>3
<1>8. ASSUME NEW b \in values' PROVE ValueOK(b, sLevel - 1, axioms', values')
  <2>1. b \in values /\ b.level < sLevel /\ ValueOK(b, sLevel, axioms, values)
    BY <1>1 DEF Inv
  <2>2. b.level \in 0 .. sLevel - 1
    BY <1>3, <2>1 DEF ValueOK
  <2>3. \E a \in axioms' : a.tester = b.tester /\ a.level <= b.level /\ b.value \in Allowed(a)
    <3>1. PICK a \in axioms : a.tester = b.tester /\ a.level <= b.level /\ b.value \in Allowed(a)
      BY <2>1 DEF ValueOK
    <3>2. a.level < sLevel
      BY <1>3, <1>6, <2>2, <3>1
    <3> QED
      BY <1>1, <3>1, <3>2
  <2>4. ASSUME IsLenTester(b.tester), NEW j \in 1 .. b.tester.pos - 1
        PROVE  \E c \in values' : c.tester = LenTester(j) /\ c.value = More /\ c.level <= b.level
    <3>1. PICK c \in values : c.tester = LenTester(j) /\ c.value = More /\ c.level <= b.level
      BY <2>1, <2>4 DEF ValueOK
    <3>2. c.level \in 0 .. sLevel
      BY DEF Inv, ValueOK
    <3>3. c.level < sLevel
      BY <1>3, <2>2, <3>1, <3>2
    <3> QED
      BY <1>1, <3>1, <3>3
  <2>5. /\ b.value = More /\ IsLenTester(b.tester) => (b.tester.pos + 1) * LenDistance - 1 <= MaxLen
        /\ b.value = More /\ IsUnrollTester(b.tester) => (b.tester.pos + 1) * UnrollStep <= MaxUnrolls
    BY <2>1 DEF ValueOK
  <2> QED
    BY <2>2, <2>3, <2>4, <2>5 DEF ValueOK
<1>9. OneValue(values')
  BY <1>1 DEF Inv, OneValue
<1>10. TablesOK(lenTesters', valRange', unrollTries')
  BY <1>1, <1>3
<1>11. \A a \in axioms' : AxiomOK(a, sLevel', lenTesters', valRange', unrollTries', LcmStrings')
  BY <1>1, <1>2, <1>5
<1>12. \A b \in values' : ValueOK(b, sLevel', axioms', values')
  BY <1>1, <1>8
<1>13. CoresOK(cores')
  BY <1>1 DEF Inv
<1> QED
  BY <1>4, <1>7, <1>9, <1>10, <1>11, <1>12, <1>13 DEF Inv

LEMMA InvNext == Inv /\ [Next]_vars => Inv'
<1> SUFFICES ASSUME Inv, [Next]_vars PROVE Inv'
  OBVIOUS
<1>1. CASE CbFinalCheck
  BY <1>1, CbFinalCheckInv
<1>2. CASE Follow
  BY <1>2, CbNewEqInv DEF Follow
<1>3. CASE Guess
  BY <1>3, CbNewEqInv DEF Guess
<1>4. CASE CbPush
  BY <1>4, CbPushInv
<1>5. CASE CbPop
  BY <1>5, CbPopInv
<1>6. CASE UNCHANGED vars
  <2>1. sLevel' = sLevel /\ pushes' = pushes /\ lenTesters' = lenTesters /\ valRange' = valRange
        /\ unrollTries' = unrollTries /\ axioms' = axioms /\ values' = values /\ cores' = cores
    BY <1>6 DEF vars, tables, input
  <2>2. LcmStrings' = LcmStrings
    BY <2>1, LcmStringsStay
  <2> QED
    BY <2>1, <2>2 DEF Inv
<1> QED
  BY <1>1, <1>2, <1>3, <1>4, <1>5, <1>6 DEF Next

LEMMA InvHolds == Spec => []Inv
BY InitInv, InvNext, PTL DEF Spec

-----------------------------------------------------------------------------
LEMMA AtMostTimes ==
  ASSUME NEW m \in Nat, NEW d \in Nat \ {0}
  PROVE  m <= m * d
OBVIOUS

(* Testers of a kind are told apart by their positions.                    *)
LEMMA DifferentTesters ==
  /\ \A i, k : LenTester(i) = LenTester(k) => i = k
  /\ \A len, i, k : ValTester(len, i) = ValTester(len, k) => i = k
  /\ \A i, k : UnrollTester(i) = UnrollTester(k) => i = k
BY DEF LenTester, ValTester, UnrollTester

LEMMA LenFields ==
  ASSUME NEW l, NEW k
  PROVE  /\ LenAxiom(l, k).tester = LenTester(k) /\ LenAxiom(l, k).more
         /\ LenAxiom(l, k).options = [n \in Lengths(k) |-> n]
BY DEF LenAxiom

UnrollOpts(str, k) ==
  [n \in k * UnrollStep .. (k + 1) * UnrollStep - 1 |-> Unrolled(str, n)]

LEMMA UnrollFields ==
  ASSUME NEW l, NEW k, NEW str
  PROVE  /\ UnrollAxiom(l, k, str).tester = UnrollTester(k) /\ UnrollAxiom(l, k, str).more
         /\ UnrollAxiom(l, k, str).options = UnrollOpts(str, k)
BY DEF UnrollAxiom, UnrollOpts

LEMMA EmptyFields ==
  ASSUME NEW l
  PROVE  EmptyAxiom(l).options = [n \in {0} |-> <<>>] /\ EmptyAxiom(l).more \in BOOLEAN /\ ~ EmptyAxiom(l).more
BY DEF EmptyAxiom

(* Every state has its type: the tables stay within the bounds of the core,*)
(* an entry of valRangeMap is the number of a string of its length, and no *)
(* tester has two values.                                                  *)
THEOREM TypeCorrect == Spec => []TypeOK
<1>1. Inv => TypeOK
  <2> SUFFICES ASSUME Inv PROVE TypeOK
    OBVIOUS
  <2>1. /\ TablesOK(lenTesters, valRange, unrollTries) /\ sLevel \in Nat
        /\ \A a \in axioms : AxiomOK(a, sLevel, lenTesters, valRange, unrollTries, LcmStrings)
    BY LevelNat DEF Inv
  <2>2. lenTesters \in 0 .. MaxLen + 1
    <3>1. lenTesters \in Nat /\ lenTesters * LenDistance <= MaxLen + 1 /\ LenDistance \in Nat \ {0}
          /\ MaxLen \in Nat
      BY <2>1, Constants DEF TablesOK
    <3>2. lenTesters <= lenTesters * LenDistance /\ lenTesters * LenDistance \in Nat
      BY <3>1, AtMostTimes
    <3> DEFINE p == lenTesters * LenDistance
    <3>3. lenTesters <= p /\ p \in Nat /\ p <= MaxLen + 1
      BY <3>1, <3>2
    <3> HIDE DEF p
    <3> QED
      BY <3>1, <3>3
  <2>3. ASSUME NEW len \in 0 .. MaxLen, NEW i \in DOMAIN valRange[len]
        PROVE  valRange[len][i] \in 0 .. Power[len] - 1
    <3>1. PICK k \in Nat : valRange[len] = Entries(len, k) /\ Room(len, k)
      BY <2>1 DEF TablesOK, RangesOK
    <3>2. i \in 1 .. k /\ valRange[len][i] = LastOf(len, i - 1)
      BY <3>1 DEF Entries
    <3>3. i - 1 \in 0 .. k - 1 /\ i - 1 \in Nat /\ len \in Nat
      BY <3>2, Constants
    <3>4. Start(i - 1) < Power[len]
      BY <3>1, <3>3 DEF Room
    <3>5. LastOf(len, i - 1) \in Start(i - 1) .. Power[len] - 1 /\ Start(i - 1) \in Nat
      BY <3>3, <3>4, LastIs, StartIs
    <3>6. Power[len] \in Nat
      BY <3>3, PowerPositive
    <3> QED
      BY <3>2, <3>5, <3>6
  <2>4. \A a \in axioms : a.level \in 0 .. sLevel
    BY AxiomsAre
  <2>5. \A b \in values : b.level \in 0 .. sLevel
    BY DEF Inv, ValueOK
  <2>6. \A a, b \in values : a.tester = b.tester => a = b
    BY DEF Inv, OneValue
  <2>7. sLevel \in 0 .. pushes /\ pushes \in 0 .. MaxPushes /\ unrollTries \in 0 .. MaxUnrolls + 1
    BY <2>1 DEF Inv, TablesOK
  <2> QED
    BY <2>2, <2>3, <2>4, <2>5, <2>6, <2>7 DEF TypeOK
<1> QED
  BY <1>1, InvHolds, PTL

-----------------------------------------------------------------------------
(* The axioms of the value testers of a length.                            *)
OfLengthIs(len, a, l, i) ==
  /\ i \in Nat /\ i < Len(valRange[len]) /\ Start(i) < Power[len]
  /\ a.level = l /\ a.tester = ValTester(len, i) /\ a.options = Block(len, i)
  /\ a.more = (Start(i + 1) < Power[len])

LEMMA AxiomsOfLength ==
  ASSUME Inv, NEW len \in 0 .. MaxLen, NEW a \in OfLength(len)
  PROVE  \E i \in Nat : OfLengthIs(len, a, a.level, i)
<1>1. a \in axioms /\ a.tester.len = len /\ len \in Nat
  BY Constants DEF OfLength
<1>2. IsValTester(a.tester)
  BY <1>1 DEF IsValTester
<1>3. TablesOK(lenTesters, valRange, unrollTries) /\ sLevel \in Nat
      /\ AxiomOK(a, sLevel, lenTesters, valRange, unrollTries, LcmStrings)
  BY <1>1, LevelNat DEF Inv
<1>4. PICK j \in 1 .. lenTesters : \E m \in Lengths(j) : \E i \in 0 .. Len(valRange[m]) - 1 :
        m \in 0 .. MaxLen /\ a = ValAxiom(a.level, j, m, i)
  BY <1>1, <1>2, AxiomsAre DEF OfValTester
<1>5. PICK m \in Lengths(j) : \E i \in 0 .. Len(valRange[m]) - 1 :
        m \in 0 .. MaxLen /\ a = ValAxiom(a.level, j, m, i)
  BY <1>4
<1>6. PICK i \in 0 .. Len(valRange[m]) - 1 : m \in 0 .. MaxLen /\ a = ValAxiom(a.level, j, m, i)
  BY <1>5
<1> DEFINE l == a.level
<1>7. a = ValAxiom(l, j, m, i)
  BY <1>6
<1> HIDE DEF l
<1>8. a.tester = ValTester(m, i)
  BY <1>7, FieldsOf
<1>9. a.options = Block(m, i)
  BY <1>7, FieldsOf
<1>10. a.more = (Start(i + 1) < Power[m])
  BY <1>7, FieldsOf
<1>11. m \in Nat /\ Len(valRange[m]) \in Nat /\ Room(m, Len(valRange[m]))
  BY <1>6, Constants, MadeIs
<1>12. m = len
  BY <1>1, <1>8, <1>11, Testers
<1>13. i \in Nat /\ i < Len(valRange[m]) /\ Start(i) < Power[m]
  BY <1>6, <1>11 DEF Room
<1>14. OfLengthIs(len, a, a.level, i)
  BY <1>8, <1>9, <1>10, <1>12, <1>13 DEF OfLengthIs
<1> QED
  BY <1>13, <1>14

(* The numbers of the options of a value tester.                           *)
LEMMA BlockIs ==
  ASSUME NEW len \in Nat, NEW i \in Nat, Start(i) < Power[len]
  PROVE  /\ DOMAIN Block(len, i) = Start(i) .. LastOf(len, i)
         /\ Start(i) \in DOMAIN Block(len, i)
         /\ DOMAIN Block(len, i) \subseteq 0 .. Power[len] - 1
         /\ \A n \in DOMAIN Block(len, i) :
              Block(len, i)[n] = GenValString(len, n) /\ Start(i) <= n /\ n < Start(i + 1)
<1>1. DOMAIN Block(len, i) = Start(i) .. LastOf(len, i)
  BY DEF Block
<1>2. Start(i) \in Nat /\ Start(i + 1) \in Nat /\ Power[len] \in Nat
  BY StartIs, PowerPositive
<1>3. LastOf(len, i) \in Start(i) .. Power[len] - 1 /\ LastOf(len, i) < Start(i + 1)
  BY LastIs
<1>4. \A n \in DOMAIN Block(len, i) : Block(len, i)[n] = GenValString(len, n)
  BY DEF Block
<1> QED
  BY <1>1, <1>2, <1>3, <1>4

(* Blocks of testers do not overlap.                                       *)
LEMMA StartOrder ==
  ASSUME NEW i \in Nat, NEW k \in Nat, i < k
  PROVE  Start(i + 1) <= Start(k)
<1>1. ValDistance \in Nat \ {0}
  BY Constants
<1>2. k = (i + 1) + (k - (i + 1)) /\ k - (i + 1) \in Nat
  OBVIOUS
<1> DEFINE d == k - (i + 1)
           n == i + 1
<1>3. k = n + d /\ d \in Nat /\ n \in Nat
  BY <1>2
<1> HIDE DEF d, n
<1>4. k * ValDistance = n * ValDistance + d * ValDistance /\ d * ValDistance \in Nat
      /\ n * ValDistance \in Nat
  BY <1>1, <1>3
<1>5. n * ValDistance <= k * ValDistance
  BY <1>4
<1> QED
  BY <1>5 DEF Start, n

LEMMA SameBlock ==
  ASSUME NEW i \in Nat, NEW k \in Nat, NEW n \in Nat,
         Start(i) <= n, n < Start(i + 1), Start(k) <= n, n < Start(k + 1)
  PROVE  i = k
<1>1. Start(i) \in Nat /\ Start(k) \in Nat /\ Start(i + 1) \in Nat /\ Start(k + 1) \in Nat
  BY StartIs
<1>2. ~ (i < k)
  <2> SUFFICES ASSUME i < k PROVE FALSE
    OBVIOUS
  <2>1. Start(i + 1) <= Start(k)
    BY StartOrder
  <2> QED
    BY <1>1, <2>1
<1>3. ~ (k < i)
  <2> SUFFICES ASSUME k < i PROVE FALSE
    OBVIOUS
  <2>1. Start(k + 1) <= Start(i)
    BY StartOrder
  <2> QED
    BY <1>1, <2>1
<1> QED
  BY <1>2, <1>3

(* The block, of d numbers each, of a number.                              *)
LEMMA BlockAmong ==
  ASSUME NEW d \in Nat \ {0}, NEW i \in Nat, NEW n \in Nat, n < (i + 1) * d
  PROVE  \E k \in 0 .. i : k * d <= n /\ n < (k + 1) * d
<1> DEFINE k == n \div d
<1>1. k \in Nat /\ n % d \in 0 .. d - 1 /\ n = d * k + (n % d)
  BY Division
<1> HIDE DEF k
<1>2. k * d = d * k /\ k * d \in Nat /\ (k + 1) * d = k * d + d
  BY <1>1
<1>3. k * d <= n /\ n < (k + 1) * d
  BY <1>1, <1>2
<1>4. ~ (i < k)
  <2> SUFFICES ASSUME i < k PROVE FALSE
    OBVIOUS
  <2>1. k = (i + 1) + (k - (i + 1)) /\ k - (i + 1) \in Nat
    BY <1>1
  <2> DEFINE r == k - (i + 1)
             m == i + 1
  <2>2. k = m + r /\ r \in Nat /\ m \in Nat
    BY <2>1
  <2>3. n < m * d
    OBVIOUS
  <2> HIDE DEF r, m
  <2>4. k * d = m * d + r * d /\ r * d \in Nat /\ m * d \in Nat
    BY <2>2
  <2> QED
    BY <1>3, <2>3, <2>4
<1>5. k \in 0 .. i
  BY <1>1, <1>4
<1> QED
  BY <1>3, <1>5, Zenon

LEMMA BlockOf ==
  ASSUME NEW i \in Nat, NEW n \in Nat, n < Start(i + 1)
  PROVE  \E k \in 0 .. i : Start(k) <= n /\ n < Start(k + 1)
BY Constants, BlockAmong DEF Start

LEMMA InBlock ==
  ASSUME NEW len \in Nat, NEW i \in Nat, Start(i) < Power[len],
         NEW n \in 0 .. Power[len] - 1, Start(i) <= n, n < Start(i + 1)
  PROVE  n \in DOMAIN Block(len, i)
<1>1. DOMAIN Block(len, i) = Start(i) .. LastOf(len, i) /\ Start(i) \in Nat
  BY BlockIs, StartIs
<1>2. /\ LastOf(len, i) \in Start(i) .. Power[len] - 1
      /\ Start(i + 1) <= Power[len] => LastOf(len, i) = Start(i + 1) - 1
      /\ ~ (Start(i + 1) < Power[len]) => LastOf(len, i) = Power[len] - 1
  BY LastIs
<1>3. Start(i + 1) \in Nat /\ Power[len] \in Nat
  BY StartIs, PowerPositive
<1>4. n <= LastOf(len, i)
  BY <1>1, <1>2, <1>3
<1> QED
  BY <1>1, <1>2, <1>3, <1>4

-----------------------------------------------------------------------------
(* Every option is one of one tester.                                      *)
LEMMA OptionsDiffer ==
  ASSUME Inv, NEW len \in 0 .. MaxLen, NEW a \in OfLength(len), NEW b \in OfLength(len),
         NEW m \in DOMAIN a.options, NEW n \in DOMAIN b.options, a.options[m] = b.options[n]
  PROVE  a.tester = b.tester /\ m = n
<1>1. len \in Nat
  BY Constants
<1>2. PICK i \in Nat : OfLengthIs(len, a, a.level, i)
  BY AxiomsOfLength
<1>3. PICK k \in Nat : OfLengthIs(len, b, b.level, k)
  BY AxiomsOfLength
<1>4. a.options = Block(len, i) /\ Start(i) < Power[len] /\ a.tester = ValTester(len, i)
  BY <1>2 DEF OfLengthIs
<1>5. b.options = Block(len, k) /\ Start(k) < Power[len] /\ b.tester = ValTester(len, k)
  BY <1>3 DEF OfLengthIs
<1>6. m \in 0 .. Power[len] - 1 /\ a.options[m] = GenValString(len, m)
      /\ Start(i) <= m /\ m < Start(i + 1)
  <2>1. m \in DOMAIN Block(len, i)
    BY <1>4
  <2> QED
    BY <1>1, <1>4, <2>1, BlockIs
<1>7. n \in 0 .. Power[len] - 1 /\ b.options[n] = GenValString(len, n)
      /\ Start(k) <= n /\ n < Start(k + 1)
  <2>1. n \in DOMAIN Block(len, k)
    BY <1>5
  <2> QED
    BY <1>1, <1>5, <2>1, BlockIs
<1>8. m = n
  BY <1>1, <1>6, <1>7, OneEncoding
<1>9. m \in Nat
  BY <1>1, <1>6, PowerPositive
<1>10. i = k
  BY <1>6, <1>7, <1>8, <1>9, SameBlock
<1> QED
  BY <1>4, <1>5, <1>8, <1>10

(* There are options left exactly if "more" is one.                        *)
LEMMA MoreIs ==
  ASSUME Inv, NEW len \in 0 .. MaxLen, NEW a \in OfLength(len)
  PROVE  /\ DOMAIN a.options # {}
         /\ a.more <=> (a.tester.pos + 1) * ValDistance < Cardinality(Strings(len))
<1>1. len \in Nat
  BY Constants
<1>2. PICK i \in Nat : OfLengthIs(len, a, a.level, i)
  BY AxiomsOfLength
<1>3. a.options = Block(len, i) /\ Start(i) < Power[len] /\ a.tester = ValTester(len, i)
      /\ a.more = (Start(i + 1) < Power[len])
  BY <1>2 DEF OfLengthIs
<1>4. DOMAIN a.options # {}
  BY <1>1, <1>3, BlockIs
<1>5. a.tester.pos = i
  BY <1>1, <1>3, Testers
<1>6. Cardinality(Strings(len)) = Power[len]
  BY <1>1, StringsCount
<1>7. Start(i + 1) = (i + 1) * ValDistance
  BY DEF Start
<1>8. a.more = ((a.tester.pos + 1) * ValDistance < Cardinality(Strings(len)))
  BY <1>3, <1>5, <1>6, <1>7
<1> QED
  BY <1>4, <1>8

(* When it is not, every string is an option of some tester.               *)
LEMMA AllStrings ==
  ASSUME Inv, NEW len \in 0 .. MaxLen, NEW a \in OfLength(len), ~ a.more
  PROVE  UNION {Range(b.options) : b \in OfLength(len)} = Strings(len)
<1>1. len \in Nat /\ Power[len] \in Nat
  BY Constants, PowerPositive
<1>2. PICK i \in Nat : OfLengthIs(len, a, a.level, i)
  BY AxiomsOfLength
<1>3. a.tester = ValTester(len, i) /\ ~ (Start(i + 1) < Power[len]) /\ Start(i + 1) \in Nat
  <2>1. i + 1 \in Nat
    OBVIOUS
  <2>2. Start(i + 1) \in Nat
    BY <2>1, StartIs
  <2>3. a.tester = ValTester(len, i) /\ a.more = (Start(i + 1) < Power[len])
    BY <1>2 DEF OfLengthIs
  <2> QED
    BY <2>2, <2>3
<1>4. ASSUME NEW b \in OfLength(len), NEW n \in DOMAIN b.options
      PROVE  b.options[n] \in Strings(len)
  <2>1. PICK k \in Nat : OfLengthIs(len, b, b.level, k)
    BY AxiomsOfLength
  <2>2. b.options = Block(len, k) /\ Start(k) < Power[len]
    BY <2>1 DEF OfLengthIs
  <2>3. n \in 0 .. Power[len] - 1 /\ b.options[n] = GenValString(len, n)
    BY <1>1, <2>2, BlockIs
  <2>4. n \in Nat
    BY <1>1, <2>3
  <2> QED
    BY <1>1, <2>3, <2>4, GenValStringIs
<1>5. ASSUME NEW s \in Strings(len)
      PROVE  \E b \in OfLength(len) : s \in Range(b.options)
  <2>1. PICK n \in 0 .. Power[len] - 1 : GenValString(len, n) = s
    BY <1>1, SomeEncoding
  <2>2. n \in Nat /\ n < Start(i + 1)
    BY <1>1, <1>3, <2>1
  <2>3. PICK k \in 0 .. i : Start(k) <= n /\ n < Start(k + 1)
    BY <2>2, BlockOf
  <2>4. PICK b \in OfLength(len) : b.tester = ValTester(len, k)
    <3>1. CASE k = i
      BY <1>3, <3>1
    <3>2. CASE k # i
      <4>1. k \in 0 .. i - 1
        BY <3>2
      <4>2. a \in axioms /\ IsValTester(a.tester) /\ a.tester.pos = i /\ a.tester.len = len
        BY <1>1, <1>3, Testers DEF OfLength
      <4>3. PICK c \in axioms : c.tester = ValTester(len, k)
        BY <4>1, <4>2 DEF Inv, Chained
      <4>4. c.tester.len = len
        BY <1>1, <4>3, Testers
      <4> QED
        BY <4>3, <4>4 DEF OfLength
    <3> QED
      BY <3>1, <3>2
  <2>5. PICK m \in Nat : OfLengthIs(len, b, b.level, m)
    BY AxiomsOfLength
  <2>6. b.options = Block(len, m) /\ Start(m) < Power[len] /\ b.tester = ValTester(len, m)
    BY <2>5 DEF OfLengthIs
  <2>7. m = k
    BY <2>4, <2>6, DifferentTesters
  <2>8. n \in DOMAIN Block(len, m)
    BY <1>1, <2>1, <2>3, <2>6, <2>7, InBlock
  <2>9. b.options[n] = s /\ n \in DOMAIN b.options
    BY <1>1, <2>1, <2>6, <2>8, BlockIs
  <2> QED
    BY <2>9 DEF Range
<1>6. UNION {Range(b.options) : b \in OfLength(len)} \subseteq Strings(len)
  BY <1>4 DEF Range
<1>7. Strings(len) \subseteq UNION {Range(b.options) : b \in OfLength(len)}
  BY <1>5
<1> QED
  BY <1>6, <1>7

(* genValOptions: every string of a length is one option of one tester, in *)
(* whatever order testers are made, lost with scopes and asserted again,   *)
(* and "more" is an option exactly if strings are left.                    *)
THEOREM EachStringOnce == Spec => []EveryStringOnce
<1>1. Inv => EveryStringOnce
  <2> SUFFICES ASSUME Inv, NEW len \in 0 .. MaxLen
               PROVE  /\ \A a, b \in OfLength(len) : \A m \in DOMAIN a.options, n \in DOMAIN b.options :
                           a.options[m] = b.options[n] => a.tester = b.tester /\ m = n
                      /\ \A a \in OfLength(len) :
                           /\ DOMAIN a.options # {}
                           /\ a.more <=> (a.tester.pos + 1) * ValDistance < Cardinality(Strings(len))
                           /\ a.more \/ UNION {Range(b.options) : b \in OfLength(len)} = Strings(len)
    BY Zenon DEF EveryStringOnce
  <2>1. \A a, b \in OfLength(len) : \A m \in DOMAIN a.options, n \in DOMAIN b.options :
          a.options[m] = b.options[n] => a.tester = b.tester /\ m = n
    BY OptionsDiffer
  <2>2. ASSUME NEW a \in OfLength(len)
        PROVE  /\ DOMAIN a.options # {}
               /\ a.more <=> (a.tester.pos + 1) * ValDistance < Cardinality(Strings(len))
    BY MoreIs
  <2>3. ASSUME NEW a \in OfLength(len)
        PROVE  a.more \/ UNION {Range(b.options) : b \in OfLength(len)} = Strings(len)
    BY AllStrings
  <2> QED
    BY <2>1, <2>2, <2>3
<1> QED
  BY <1>1, InvHolds, PTL

-----------------------------------------------------------------------------
(* A tester is of one of the kinds.                                        *)
LEMMA OneKind ==
  ASSUME Inv, NEW a \in axioms
  PROVE  IsLenTester(a.tester) \/ IsValTester(a.tester) \/ IsUnrollTester(a.tester) \/ a.tester = NoTester
<1>0. /\ TablesOK(lenTesters, valRange, unrollTries) /\ sLevel \in Nat
      /\ AxiomOK(a, sLevel, lenTesters, valRange, unrollTries, LcmStrings)
  BY LevelNat DEF Inv
<1>1. \A j \in 1 .. lenTesters : Lengths(j) \subseteq 0 .. MaxLen
  BY <1>0, LengthsWithin DEF TablesOK
<1>2. \A j \in 1 .. lenTesters : \A len \in Lengths(j) : len \in Nat
  BY <1>1, Constants
<1>3. \A l, j, len, i, str : /\ LenAxiom(l, j).tester = LenTester(j)
                             /\ ValAxiom(l, j, len, i).tester = ValTester(len, i)
                             /\ UnrollAxiom(l, i, str).tester = UnrollTester(i)
                             /\ EmptyAxiom(l).tester = NoTester
  BY DEF LenAxiom, ValAxiom, UnrollAxiom, EmptyAxiom
<1>4. \/ \E j \in 1 .. lenTesters : a.tester = LenTester(j)
      \/ \E j \in 1 .. lenTesters : \E len \in Lengths(j) : \E i : a.tester = ValTester(len, i)
      \/ \E i : a.tester = UnrollTester(i)
      \/ a.tester = NoTester
  BY <1>0, <1>3 DEF AxiomOK
<1> QED
  BY <1>2, <1>4, Testers

-----------------------------------------------------------------------------
(* The history: what was ever asserted is one of the axioms that the       *)
(* tables stand for now.                                                   *)
Learnt ==
  \A fact \in learnt :
    AxiomOK(fact, 0, lenTesters, valRange, unrollTries, LcmStrings)

(* An axiom without its level is one made at level 0.                      *)
LEMMA FactIs ==
  ASSUME NEW level \in Nat, NEW made, NEW ranges, NEW tries, NEW strs, NEW a,
         AxiomOK(a, level, made, ranges, tries, strs)
  PROVE  AxiomOK(Fact(a), 0, made, ranges, tries, strs)
<1>1. PICK l \in 0 .. level :
        \/ \E j \in 1 .. made : a = LenAxiom(l, j)
        \/ \E j \in 1 .. made : \E len \in Lengths(j) : \E i \in 0 .. Len(ranges[len]) - 1 :
             a = ValAxiom(l, j, len, i)
        \/ Cardinality(strs) = 1 /\ \E i \in 0 .. tries - 1 : a = UnrollAxiom(l, i, OneOf(strs))
        \/ Cardinality(strs) # 1 /\ strs # {} /\ a = EmptyAxiom(l)
  BY DEF AxiomOK
<1>2. /\ \A j : Fact(LenAxiom(l, j)) = LenAxiom(0, j)
      /\ \A j, len, i : Fact(ValAxiom(l, j, len, i)) = ValAxiom(0, j, len, i)
      /\ \A i, str : Fact(UnrollAxiom(l, i, str)) = UnrollAxiom(0, i, str)
      /\ Fact(EmptyAxiom(l)) = EmptyAxiom(0)
  <2>1. \A tester, indicator, options, more :
          Fact([level |-> l, tester |-> tester, indicator |-> indicator, options |-> options, more |-> more])
            = [level |-> 0, tester |-> tester, indicator |-> indicator, options |-> options, more |-> more]
    BY DEF Fact
  <2> QED
    BY <2>1, Zenon DEF LenAxiom, ValAxiom, UnrollAxiom, EmptyAxiom
<1>3. 0 \in 0 .. 0
  OBVIOUS
<1>4. CASE \E j \in 1 .. made : a = LenAxiom(l, j)
  BY <1>2, <1>3, <1>4, Zenon DEF AxiomOK
<1>5. CASE \E j \in 1 .. made : \E len \in Lengths(j) : \E i \in 0 .. Len(ranges[len]) - 1 :
             a = ValAxiom(l, j, len, i)
  <2>1. PICK j \in 1 .. made : \E len \in Lengths(j) : \E i \in 0 .. Len(ranges[len]) - 1 :
               a = ValAxiom(l, j, len, i)
    BY <1>5
  <2>2. PICK len \in Lengths(j) : \E i \in 0 .. Len(ranges[len]) - 1 : a = ValAxiom(l, j, len, i)
    BY <2>1
  <2>3. PICK i \in 0 .. Len(ranges[len]) - 1 : a = ValAxiom(l, j, len, i)
    BY <2>2
  <2>4. Fact(a) = ValAxiom(0, j, len, i)
    BY <1>2, <2>3, Zenon
  <2> QED
    BY <1>3, <2>4, Zenon DEF AxiomOK
<1>6. CASE Cardinality(strs) = 1 /\ \E i \in 0 .. tries - 1 : a = UnrollAxiom(l, i, OneOf(strs))
  BY <1>2, <1>3, <1>6, Zenon DEF AxiomOK
<1>7. CASE Cardinality(strs) # 1 /\ strs # {} /\ a = EmptyAxiom(l)
  BY <1>2, <1>3, <1>7, Zenon DEF AxiomOK
<1> QED
  BY <1>1, <1>4, <1>5, <1>6, <1>7

(* A length belongs to one length tester.                                  *)
LEMMA LengthsApart ==
  ASSUME NEW j \in Nat, NEW k \in Nat, NEW len \in Int, len \in Lengths(j), len \in Lengths(k)
  PROVE  j = k
<1>1. LenDistance \in Nat \ {0}
  BY Constants
<1>2. ASSUME NEW m \in Nat, NEW n \in Nat, m < n PROVE m * LenDistance <= (n - 1) * LenDistance
  <2>1. m <= n - 1 /\ n - 1 \in Nat
    BY <1>2
  <2> QED
    BY <1>1, <2>1
<1>3. \A m \in Nat : len \in Lengths(m) =>
        /\ (m - 1) * LenDistance <= len /\ len <= m * LenDistance - 1
        /\ (m - 1) * LenDistance \in Int /\ m * LenDistance \in Int
  BY <1>1 DEF Lengths
<1>4. ~ (j < k) /\ ~ (k < j)
  BY <1>2, <1>3
<1> QED
  BY <1>4

(* Axioms of one tester differ in their levels only.                       *)
LEMMA OneFact ==
  ASSUME NEW made, NEW ranges, NEW tries, NEW strs, TablesOK(made, ranges, tries),
         NEW a, AxiomOK(a, 0, made, ranges, tries, strs),
         NEW b, AxiomOK(b, 0, made, ranges, tries, strs), a.tester = b.tester
  PROVE  a = b
<1>1. /\ \A j : LenAxiom(0, j).tester = LenTester(j)
      /\ \A j, len, i : ValAxiom(0, j, len, i).tester = ValTester(len, i)
      /\ \A i, str : UnrollAxiom(0, i, str).tester = UnrollTester(i)
      /\ EmptyAxiom(0).tester = NoTester
  BY DEF LenAxiom, ValAxiom, UnrollAxiom, EmptyAxiom
<1>2. ASSUME NEW x, AxiomOK(x, 0, made, ranges, tries, strs)
      PROVE  \/ \E j : x = LenAxiom(0, j)
             \/ \E j \in Nat : \E len \in Lengths(j) \cap Nat : \E i : x = ValAxiom(0, j, len, i)
             \/ \E i : x = UnrollAxiom(0, i, OneOf(strs))
             \/ x = EmptyAxiom(0)
  <2>1. PICK l \in 0 .. 0 :
          \/ \E j \in 1 .. made : x = LenAxiom(l, j)
          \/ \E j \in 1 .. made : \E len \in Lengths(j) : \E i \in 0 .. Len(ranges[len]) - 1 :
               x = ValAxiom(l, j, len, i)
          \/ Cardinality(strs) = 1 /\ \E i \in 0 .. tries - 1 : x = UnrollAxiom(l, i, OneOf(strs))
          \/ Cardinality(strs) # 1 /\ strs # {} /\ x = EmptyAxiom(l)
    BY <1>2 DEF AxiomOK
  <2>2. l = 0
    OBVIOUS
  <2>3. \A j \in 1 .. made : j \in Nat /\ \A len \in Lengths(j) : len \in Nat
    <3> TAKE j \in 1 .. made
    <3>1. j \in Nat /\ Lengths(j) \subseteq 0 .. MaxLen
      BY LengthsWithin DEF TablesOK
    <3> QED
      BY <3>1, Constants
  <2> QED
    BY <2>1, <2>2, <2>3, Zenon
<1>3. ASSUME NEW j, a = LenAxiom(0, j) PROVE a = b
  <2>1. a.tester = LenTester(j)
    BY <1>1, <1>3
  <2>2. IsLenTester(b.tester)
    BY <2>1, Testers
  <2>3. PICK k : b = LenAxiom(0, k)
    BY <1>1, <1>2, <2>2, Testers
  <2>4. LenTester(j) = LenTester(k)
    BY <1>1, <2>1, <2>3
  <2>5. j = k
    BY <2>4, DifferentTesters, Zenon
  <2> QED
    BY <1>3, <2>3, <2>5
<1>4. ASSUME NEW j \in Nat, NEW len \in Nat, NEW i, len \in Lengths(j), a = ValAxiom(0, j, len, i)
      PROVE  a = b
  <2>1. a.tester = ValTester(len, i)
    BY <1>1, <1>4
  <2>2. IsValTester(b.tester) /\ b.tester # NoTester
    BY <2>1, Testers
  <2>3. PICK k \in Nat : \E m \in Lengths(k) \cap Nat : \E n : b = ValAxiom(0, k, m, n)
    BY <1>1, <1>2, <2>2, Testers
  <2>4. PICK m \in Lengths(k) \cap Nat : \E n : b = ValAxiom(0, k, m, n)
    BY <2>3
  <2>5. PICK n : b = ValAxiom(0, k, m, n)
    BY <2>4
  <2>6. ValTester(len, i) = ValTester(m, n)
    BY <1>1, <2>1, <2>5
  <2>7. len = m /\ i = n
    BY <2>6, Testers
  <2>8. j = k
    BY <1>4, <2>4, <2>7, LengthsApart
  <2> QED
    BY <1>4, <2>5, <2>7, <2>8
<1>5. ASSUME NEW i, a = UnrollAxiom(0, i, OneOf(strs)) PROVE a = b
  <2>1. a.tester = UnrollTester(i)
    BY <1>1, <1>5
  <2>2. IsUnrollTester(b.tester)
    BY <2>1, Testers
  <2>3. PICK k : b = UnrollAxiom(0, k, OneOf(strs))
    BY <1>1, <1>2, <2>2, Testers
  <2>4. UnrollTester(i) = UnrollTester(k)
    BY <1>1, <2>1, <2>3
  <2>5. i = k
    BY <2>4, DifferentTesters, Zenon
  <2> QED
    BY <1>5, <2>3, <2>5
<1>6. ASSUME a = EmptyAxiom(0) PROVE a = b
  <2>1. b.tester = NoTester
    BY <1>1, <1>6
  <2> QED
    BY <1>1, <1>2, <1>6, <2>1, Testers
<1>7. AxiomOK(a, 0, made, ranges, tries, strs)
  OBVIOUS
<1> QED
  BY <1>2, <1>3, <1>4, <1>5, <1>6, <1>7

(* What a call adds to the history are axioms in force then.               *)
LEMMA Learns ==
  ASSUME NEW call, Perform(call)
  PROVE  \A fact \in learnt' : fact \in learnt \/ \E a \in axioms' : fact = Fact(a)
BY DEF Perform

LEMMA LearntNext == Inv /\ Learnt /\ [Next]_vars => Learnt'
<1> SUFFICES ASSUME Inv, Learnt, [Next]_vars PROVE Learnt'
  OBVIOUS
<1>1. ASSUME Advanced, cores' = cores, NEW call, Perform(call) PROVE Learnt'
  <2>1. LcmStrings' = LcmStrings /\ sLevel \in Nat
    BY <1>1, LcmStringsStay, LevelNat
  <2>2. /\ TablesOK(lenTesters, valRange, unrollTries)
        /\ Grows(lenTesters, valRange, unrollTries, lenTesters', valRange', unrollTries')
    BY <1>1 DEF Inv, Advanced
  <2>3. ASSUME NEW fact \in learnt'
        PROVE  AxiomOK(fact, 0, lenTesters', valRange', unrollTries', LcmStrings)
    <3>1. CASE fact \in learnt
      <4>1. AxiomOK(fact, 0, lenTesters, valRange, unrollTries, LcmStrings)
        BY <3>1 DEF Learnt
      <4>2. 0 \in Nat /\ 0 <= 0
        OBVIOUS
      <4> QED
        BY <2>2, <4>1, <4>2, AxiomStays
    <3>2. ASSUME NEW a \in axioms', fact = Fact(a)
          PROVE  AxiomOK(fact, 0, lenTesters', valRange', unrollTries', LcmStrings)
      <4>1. AxiomOK(a, sLevel, lenTesters', valRange', unrollTries', LcmStrings)
        BY <1>1 DEF Advanced
      <4> QED
        BY <2>1, <3>2, <4>1, FactIs
    <3> QED
      BY <1>1, <3>1, <3>2, Learns
  <2> QED
    BY <2>1, <2>3 DEF Learnt
<1>2. CASE CbFinalCheck
  <2>1. Perform(FinalCheck) /\ cores' = cores
    BY <1>2 DEF CbFinalCheck, input
  <2> QED
    BY <1>1, <1>2, <2>1, FinalCheckAdvances
<1>3. ASSUME NEW a \in axioms, NEW v, CbNewEq(a, v) PROVE Learnt'
  <2>1. /\ cores' = cores /\ Pending(a) /\ v \in Allowed(a)
        /\ (v = More /\ IsLenTester(a.tester) => (a.tester.pos + 1) * LenDistance - 1 <= MaxLen)
        /\ Perform(FreeVarAttempt(a.tester, v))
    BY <1>3 DEF CbNewEq, input
  <2>2. Advanced
    BY <2>1, AttemptAdvances
  <2> QED
    BY <1>1, <2>1, <2>2
<1>4. CASE CbPush \/ CbPop \/ UNCHANGED vars
  <2>1. /\ lenTesters' = lenTesters /\ valRange' = valRange /\ unrollTries' = unrollTries
        /\ cores' = cores /\ learnt' = learnt
    BY <1>4 DEF CbPush, CbPop, vars, tables, input
  <2>2. LcmStrings' = LcmStrings
    BY <2>1, LcmStringsStay
  <2> QED
    BY <2>1, <2>2 DEF Learnt
<1> QED
  BY <1>2, <1>3, <1>4 DEF Next, Follow, Guess

(* A tester that is asserted again, from the tables, stands for what it    *)
(* stood for whenever it was asserted before, in whatever scope, however   *)
(* many were closed since (cb_final_check, pop_scope_eh).                  *)
THEOREM AssertedAlike == Spec => []ReassertedAlike
<1>1. Init => Learnt
  BY DEF Init, Learnt
<1>2. Inv /\ Learnt => ReassertedAlike
  <2> SUFFICES ASSUME Inv, Learnt, NEW a \in axioms, NEW fact \in learnt, a.tester = fact.tester
               PROVE  Fact(a) = fact
    BY DEF ReassertedAlike
  <2>1. TablesOK(lenTesters, valRange, unrollTries) /\ sLevel \in Nat
    BY LevelNat DEF Inv
  <2>2. AxiomOK(a, sLevel, lenTesters, valRange, unrollTries, LcmStrings)
    BY DEF Inv
  <2>3. AxiomOK(Fact(a), 0, lenTesters, valRange, unrollTries, LcmStrings)
    BY <2>1, <2>2, FactIs
  <2>4. AxiomOK(fact, 0, lenTesters, valRange, unrollTries, LcmStrings)
    BY DEF Learnt
  <2>5. Fact(a).tester = fact.tester
    <3>1. Fact(a).tester = a.tester
      BY DEF Fact
    <3> QED
      BY <3>1
  <2> QED
    BY <2>1, <2>3, <2>4, <2>5, OneFact
<1> QED
  BY <1>1, <1>2, LearntNext, InvHolds, PTL DEF Spec

-----------------------------------------------------------------------------
(* The tester after a value tester that is "more" is in the tables.        *)
Continued ==
  \A b \in values : IsValTester(b.tester) /\ b.value = More =>
    b.tester.pos + 1 < Len(valRange[b.tester.len])

(* Only testers in the tables have values.                                 *)
LEMMA GivenAre ==
  ASSUME Inv, NEW b \in values
  PROVE  /\ IsLenTester(b.tester) => b.tester.pos \in 1 .. lenTesters
         /\ IsValTester(b.tester) => /\ b.tester.len \in 0 .. MaxLen
                                     /\ b.tester.pos \in 0 .. Len(valRange[b.tester.len]) - 1
         /\ IsUnrollTester(b.tester) => b.tester.pos \in 0 .. unrollTries - 1
<1>1. PICK a \in axioms : a.tester = b.tester
  BY DEF Inv, ValueOK
<1> DEFINE l == a.level
<1>2. /\ IsLenTester(a.tester) => \E j \in 1 .. lenTesters : a = LenAxiom(l, j)
      /\ IsValTester(a.tester) =>
           \E j \in 1 .. lenTesters : \E len \in Lengths(j) : \E i \in 0 .. Len(valRange[len]) - 1 :
             len \in 0 .. MaxLen /\ a = ValAxiom(l, j, len, i)
      /\ IsUnrollTester(a.tester) =>
           \E i \in 0 .. unrollTries - 1 : a = UnrollAxiom(l, i, OneOf(LcmStrings))
  BY AxiomsAre DEF OfLenTester, OfValTester, OfUnrollTester
<1> HIDE DEF l
<1>3. ASSUME IsLenTester(b.tester) PROVE b.tester.pos \in 1 .. lenTesters
  <2>1. PICK j \in 1 .. lenTesters : a = LenAxiom(l, j)
    BY <1>1, <1>2, <1>3
  <2>2. a.tester = LenTester(j)
    BY <2>1 DEF LenAxiom
  <2> QED
    BY <1>1, <2>2, Testers
<1>4. ASSUME IsValTester(b.tester)
      PROVE  /\ b.tester.len \in 0 .. MaxLen
             /\ b.tester.pos \in 0 .. Len(valRange[b.tester.len]) - 1
  <2>1. PICK j \in 1 .. lenTesters : \E len \in Lengths(j) : \E i \in 0 .. Len(valRange[len]) - 1 :
          len \in 0 .. MaxLen /\ a = ValAxiom(l, j, len, i)
    BY <1>1, <1>2, <1>4
  <2>2. PICK len \in Lengths(j) : \E i \in 0 .. Len(valRange[len]) - 1 :
          len \in 0 .. MaxLen /\ a = ValAxiom(l, j, len, i)
    BY <2>1
  <2>3. PICK i \in 0 .. Len(valRange[len]) - 1 : len \in 0 .. MaxLen /\ a = ValAxiom(l, j, len, i)
    BY <2>2
  <2>4. a.tester = ValTester(len, i)
    BY <2>3, FieldsOf
  <2>5. len \in Nat
    BY <2>3
  <2>6. b.tester.len = len /\ b.tester.pos = i
    BY <1>1, <2>4, <2>5, Testers
  <2> QED
    BY <2>3, <2>6
<1>5. ASSUME IsUnrollTester(b.tester) PROVE b.tester.pos \in 0 .. unrollTries - 1
  <2>1. PICK i \in 0 .. unrollTries - 1 : a = UnrollAxiom(l, i, OneOf(LcmStrings))
    BY <1>1, <1>2, <1>5
  <2>2. a.tester = UnrollTester(i)
    BY <2>1 DEF UnrollAxiom
  <2> QED
    BY <1>1, <2>2, Testers
<1> QED
  BY <1>3, <1>4, <1>5

(* Values that were there before stay continued when tables only grow.     *)
LEMMA ContinuedGrows ==
  ASSUME Inv, Continued, NEW b \in values, IsValTester(b.tester), b.value = More,
         Grows(lenTesters, valRange, unrollTries, lenTesters', valRange', unrollTries')
  PROVE  b.tester.pos + 1 < Len(valRange'[b.tester.len])
<1>1. b.tester.len \in 0 .. MaxLen /\ b.tester.pos \in Int
  BY GivenAre
<1>2. b.tester.pos + 1 < Len(valRange[b.tester.len])
  BY DEF Continued
<1>3. /\ Len(valRange[b.tester.len]) <= Len(valRange'[b.tester.len])
      /\ Len(valRange'[b.tester.len]) \in Nat
  BY <1>1 DEF Grows
<1>4. Len(valRange[b.tester.len]) \in Nat
  BY <1>1, MadeIs
<1> DEFINE p == Len(valRange[b.tester.len])
           q == Len(valRange'[b.tester.len])
<1>5. b.tester.pos + 1 < p /\ p <= q /\ p \in Nat /\ q \in Nat
  BY <1>2, <1>3, <1>4
<1> HIDE DEF p, q
<1>6. b.tester.pos + 1 < q
  BY <1>1, <1>5
<1> QED
  BY <1>6 DEF q

(* Every step keeps it.                                                    *)
LEMMA ContinuedNext == Inv /\ Continued /\ [Next]_vars => Continued'
<1> SUFFICES ASSUME Inv, Continued, [Next]_vars,
                    NEW b \in values', IsValTester(b.tester), b.value = More
             PROVE  b.tester.pos + 1 < Len(valRange'[b.tester.len])
  BY DEF Continued
<1>1. CASE CbFinalCheck
  <2>1. Advanced /\ values' = values
    BY <1>1, FinalCheckAdvances DEF CbFinalCheck
  <2> QED
    BY <2>1, ContinuedGrows DEF Advanced
<1>2. ASSUME NEW a \in axioms, NEW v, CbNewEq(a, v)
      PROVE  b.tester.pos + 1 < Len(valRange'[b.tester.len])
  <2> DEFINE new == [level |-> sLevel, tester |-> a.tester, value |-> v]
  <2>1. /\ values' = values \cup {new} /\ Pending(a) /\ v \in Allowed(a)
        /\ (v = More /\ IsLenTester(a.tester) => (a.tester.pos + 1) * LenDistance - 1 <= MaxLen)
        /\ Perform(FreeVarAttempt(a.tester, v))
    BY <1>2 DEF CbNewEq
  <2>2. /\ Advanced
        /\ IsValTester(a.tester) /\ v = More => a.tester.pos + 1 < Len(valRange'[a.tester.len])
    BY <2>1, AttemptAdvances
  <2>3. new.tester = a.tester /\ new.value = v
    OBVIOUS
  <2> HIDE DEF new
  <2>4. CASE b \in values
    BY <2>2, <2>4, ContinuedGrows DEF Advanced
  <2>5. CASE b = new
    BY <2>2, <2>3, <2>5
  <2> QED
    BY <2>1, <2>4, <2>5
<1>3. CASE CbPush \/ CbPop \/ UNCHANGED vars
  <2>1. valRange' = valRange /\ b \in values
    BY <1>3 DEF CbPush, CbPop, vars, tables
  <2> QED
    BY <2>1 DEF Continued
<1> QED
  BY <1>1, <1>2, <1>3 DEF Next, Follow, Guess

-----------------------------------------------------------------------------
(* A length tester without a value, after those that are "more", is pending; *)
(* so is a value tester, and that of an unrolling.                         *)
LEMMA LenHelps ==
  ASSUME Inv, NEW j \in Nat, ~ Assigned(LenTester(j)), \A k \in 1 .. j - 1 : ValueOf(LenTester(k)) = More
  PROVE  Pending(GenLenTestOptions(j))
<1>1. GenLenTestOptions(j).tester = LenTester(j)
  BY DEF GenLenTestOptions
<1>2. Applies(GenLenTestOptions(j))
  BY <1>1, Testers DEF Applies
<1> QED
  BY <1>1, <1>2, Testers DEF Pending

(* The axioms of the value testers that a call asserts.                    *)
LEMMA AssertsTester ==
  ASSUME NEW j, NEW len, NEW testers, NEW total, NEW i \in testers
  PROVE  \E a \in AssertValTesters(j, len, testers, total).asserted :
           a.tester = ValTester(len, i) /\ a.indicator = j
<1> DEFINE ranges == valRange[len] \o [n \in 1 .. total - Len(valRange[len]) |-> -1]
           after == RangesAfter(len, testers, ranges)
           Prior(n) == IF n = 0 THEN -1 ELSE after[n]
           added == {GenValOptions(j, len, n, Prior(n)) : n \in testers}
           entries == [valRange EXCEPT ![len] = after]
<1>1. AssertValTesters(j, len, testers, total) =
        [Nothing EXCEPT !.valRange = entries, !.asserted = added]
  BY DEF AssertValTesters, Nothing
<1>2. GenValOptions(j, len, i, Prior(i)) \in added
  OBVIOUS
<1>3. GenValOptions(j, len, i, Prior(i)).tester = ValTester(len, i)
      /\ GenValOptions(j, len, i, Prior(i)).indicator = j
  BY DEF GenValOptions
<1> HIDE DEF added, entries
<1>4. AssertValTesters(j, len, testers, total).asserted = added
  BY <1>1 DEF Nothing
<1> QED
  BY <1>2, <1>3, <1>4

LEMMA ValHelps ==
  ASSUME Inv, Continued, ~ XKnown, NEW j \in Nat, NEW len \in 0 .. MaxLen, ValueOf(LenTester(j)) = len
  PROVE  \E a \in GenFreeVarOptions(j, len, Len(valRange[len]), FALSE).asserted : Pending(a)
<1> DEFINE total == Len(valRange[len])
           again == {i \in 0 .. total - 1 : ~ Assigned(ValTester(len, i))}
           call == GenFreeVarOptions(j, len, total, FALSE)
<1>1. total \in Nat /\ len \in Nat
  BY Constants, MadeIs
<1>2. ASSUME NEW a, NEW i \in Nat, a.tester = ValTester(len, i), a.indicator = j,
             ~ Assigned(ValTester(len, i)),
             \A k \in 0 .. i - 1 : ValueOf(ValTester(len, k)) = More
      PROVE  Pending(a)
  <2>1. /\ ~ IsLenTester(a.tester) /\ a.tester # NoTester
        /\ a.tester.pos = i /\ a.tester.len = len
        /\ \A k : [a.tester EXCEPT !.pos = k] = ValTester(len, k)
    BY <1>1, <1>2, Testers
  <2>2. Applies(a)
    BY <1>2, <2>1 DEF Applies
  <2> QED
    BY <1>2, <2>1, <2>2 DEF Pending
<1>3. ASSUME NEW b \in values, NEW i, b.tester = ValTester(len, i)
      PROVE  i + 1 < total /\ i \in 0 .. total - 1 /\ b.value = More
  <2>1. IsValTester(b.tester) /\ ~ IsLenTester(b.tester) /\ b.tester.len = len /\ b.tester.pos = i
    BY <1>1, <1>3, Testers
  <2>2. b.value = More
    BY <2>1 DEF XKnown
  <2> QED
    BY <2>1, <2>2, GivenAre DEF Continued
<1>4. CASE total = 0
  <2>1. ~ Assigned(ValTester(len, 0))
    <3> SUFFICES ASSUME Assigned(ValTester(len, 0)) PROVE FALSE
      OBVIOUS
    <3>1. PICK b \in values : b.tester = ValTester(len, 0)
      BY DEF Assigned
    <3> QED
      BY <1>3, <1>4, <3>1
  <2>2. call = AssertValTesters(j, len, {0}, 1)
    BY <1>4 DEF GenFreeVarOptions
  <2> HIDE DEF call
  <2>3. PICK a \in call.asserted : a.tester = ValTester(len, 0) /\ a.indicator = j
    <3>1. 0 \in {0}
      OBVIOUS
    <3>2. \E a \in AssertValTesters(j, len, {0}, 1).asserted : a.tester = ValTester(len, 0) /\ a.indicator = j
      BY <3>1, AssertsTester
    <3> QED
      BY <2>2, <3>2
  <2>4. \A k \in 0 .. 0 - 1 : ValueOf(ValTester(len, k)) = More
    OBVIOUS
  <2>5. 0 \in Nat
    OBVIOUS
  <2>6. Pending(a)
    BY <1>2, <2>1, <2>3, <2>4, <2>5
  <2> QED
    BY <2>3, <2>6 DEF call
<1>5. CASE total # 0
  <2>1. again # {} /\ again \subseteq Nat
    <3>1. total - 1 \in 0 .. total - 1
      BY <1>1, <1>5
    <3>2. ~ Assigned(ValTester(len, total - 1))
      <4> SUFFICES ASSUME Assigned(ValTester(len, total - 1)) PROVE FALSE
        OBVIOUS
      <4>1. PICK b \in values : b.tester = ValTester(len, total - 1)
        BY DEF Assigned
      <4>2. total - 1 + 1 < total
        BY <1>3, <4>1
      <4> QED
        BY <1>1, <4>2
    <3> QED
      BY <3>1, <3>2
  <2>2. PICK i \in again : \A k \in again : i <= k
    <3> HIDE DEF again
    <3> QED
      BY <2>1, LeastOf
  <2>3. i \in Nat /\ i \in 0 .. total - 1 /\ ~ Assigned(ValTester(len, i))
    BY <2>1, <2>2
  <2>4. ASSUME NEW k \in 0 .. i - 1 PROVE ValueOf(ValTester(len, k)) = More
    <3>1. k \in 0 .. total - 1 /\ ~ (i <= k)
      BY <1>1, <2>3
    <3>2. Assigned(ValTester(len, k))
      BY <2>2, <3>1
    <3>3. PICK b \in values : b.tester = ValTester(len, k) /\ b.value = ValueOf(ValTester(len, k))
      BY <3>2, ValueIs
    <3> QED
      BY <1>3, <3>3
  <2>5. call = AssertValTesters(j, len, again \cup {}, Max({total} \cup {n + 1 : n \in {}}))
    BY <1>5 DEF GenFreeVarOptions
  <2> DEFINE all == again \cup {}
             new == Max({total} \cup {n + 1 : n \in {}})
  <2>6. i \in all /\ call = AssertValTesters(j, len, all, new)
    BY <2>5
  <2> HIDE DEF again, call, all, new
  <2>7. PICK a \in call.asserted : a.tester = ValTester(len, i) /\ a.indicator = j
    <3>1. \E a \in AssertValTesters(j, len, all, new).asserted : a.tester = ValTester(len, i) /\ a.indicator = j
      BY <2>6, AssertsTester
    <3> QED
      BY <2>6, <3>1
  <2>8. Pending(a)
    BY <1>2, <2>3, <2>4, <2>7
  <2> QED
    BY <2>7, <2>8 DEF call
<1> QED
  BY <1>4, <1>5

LEMMA LenCallHelps ==
  ASSUME Inv, Continued, ~ XKnown
  PROVE  \E a \in GenLenValOptions(LenTester(0), Unknown).asserted : Pending(a)
<1> DEFINE Value(j) == ValueIn(j, LenTester(0), Unknown)
           candidates == {j \in 1 .. lenTesters + 1 : j = lenTesters + 1 \/ Value(j) # More}
           first == Min(candidates)
<1>1. lenTesters \in Nat
  BY DEF Inv, TablesOK
<1>2. GenLenValOptions(LenTester(0), Unknown) =
        IF first <= lenTesters /\ Value(first) # Unknown
        THEN GenFreeVarOptions(first, Value(first), Len(valRange[Value(first)]), FALSE)
        ELSE LenCall(first)
  BY DEF GenLenValOptions, ValueIn, LenCall
<1>3. candidates \subseteq Nat /\ lenTesters + 1 \in candidates
  BY <1>1
<1>4. first \in candidates /\ \A j \in candidates : first <= j
  <2> HIDE DEF candidates
  <2> QED
    BY <1>3, MinIs
<1>5. first \in 1 .. lenTesters + 1 /\ first \in Nat \ {0}
      /\ (first # lenTesters + 1 => Value(first) # More)
  BY <1>4
<1>6. \A j \in 1 .. first - 1 : Value(j) = More
  <2> SUFFICES ASSUME NEW j \in 1 .. first - 1, Value(j) # More PROVE FALSE
    OBVIOUS
  <2>1. j \in 1 .. lenTesters + 1 /\ ~ (first <= j)
    BY <1>1, <1>5
  <2>2. j \in candidates
    BY <2>1
  <2> HIDE DEF candidates, first
  <2> QED
    BY <1>4, <2>1, <2>2
<1> HIDE DEF first, candidates
<1>7. \A j \in Nat \ {0} : Value(j) = ValueOf(LenTester(j))
  BY DEF ValueIn, LenTester
<1> HIDE DEF Value
<1>8. CASE first <= lenTesters /\ Value(first) # Unknown
  <2>1. first \in 1 .. lenTesters /\ Value(first) # More
    BY <1>1, <1>5, <1>8
  <2>2. Value(first) \in Lengths(first)
    BY <1>5, <1>7, <1>8, <2>1, LenValues
  <2>3. Value(first) \in 0 .. MaxLen
    BY <1>1, <2>1, <2>2, LengthsWithin DEF Inv, TablesOK
  <2> QED
    BY <1>2, <1>5, <1>7, <1>8, <2>3, ValHelps
<1>9. CASE ~ (first <= lenTesters /\ Value(first) # Unknown)
  <2>1. ~ Assigned(LenTester(first))
    <3> SUFFICES ASSUME Assigned(LenTester(first)) PROVE FALSE
      OBVIOUS
    <3>1. PICK b \in values : b.tester = LenTester(first) /\ b.value = ValueOf(LenTester(first))
      BY ValueIs
    <3>2. IsLenTester(b.tester) /\ b.tester.pos = first
      BY <3>1, Testers
    <3>3. first \in 1 .. lenTesters
      BY <3>2, GivenAre
    <3>4. first \in Nat \ {0} /\ first <= lenTesters
      BY <1>1, <1>5, <3>3
    <3>5. b.value = Unknown
      BY <1>7, <1>9, <3>1, <3>4
    <3>6. PICK a \in axioms : a.tester = b.tester /\ b.value \in Allowed(a)
      BY DEF Inv, ValueOK
    <3>7. OfLenTester(a, lenTesters) /\ a.level \in 0 .. sLevel
      BY <3>2, <3>6, AxiomsAre
    <3> DEFINE l == a.level
    <3>8. PICK p \in 1 .. lenTesters : a = LenAxiom(l, p)
      BY <3>7 DEF OfLenTester
    <3>9. l \in Nat /\ p \in Nat \ {0}
      BY <1>1, <3>7, LevelNat
    <3> HIDE DEF l
    <3>10. Unknown \in Lengths(p) \cup {More}
      BY <3>5, <3>6, <3>8, <3>9, OptionsOf
    <3>11. Unknown \in Lengths(p)
      BY <3>10 DEF Unknown, More
    <3> QED
      BY <3>9, <3>11, LengthsPositive
  <2>2. \A k \in 1 .. first - 1 : ValueOf(LenTester(k)) = More
    <3>1. \A k \in 1 .. first - 1 : k \in Nat \ {0}
      BY <1>5
    <3> QED
      BY <1>6, <1>7, <3>1
  <2>3. Pending(GenLenTestOptions(first))
    BY <1>5, <2>1, <2>2, LenHelps
  <2>4. GenLenValOptions(LenTester(0), Unknown).asserted = {GenLenTestOptions(first)}
    BY <1>2, <1>9, LenCallIs
  <2> QED
    BY <2>3, <2>4
<1> QED
  BY <1>8, <1>9

LEMMA UnrollCallHelps ==
  ASSUME Inv, ~ XKnown
  PROVE  \E a \in GenUnrollOptions.asserted : a.tester = NoTester \/ Pending(a)
<1> DEFINE without == {k \in 0 .. unrollTries : ~ Assigned(UnrollTester(k))}
           i == Min(without)
<1>1. unrollTries \in Nat
  BY Constants DEF Inv, TablesOK
<1>2. ~ Assigned(UnrollTester(unrollTries))
  <2> SUFFICES ASSUME Assigned(UnrollTester(unrollTries)) PROVE FALSE
    OBVIOUS
  <2>1. PICK b \in values : b.tester = UnrollTester(unrollTries)
    BY DEF Assigned
  <2>2. unrollTries \in 0 .. unrollTries - 1
    BY <2>1, GivenAre, Testers
  <2> QED
    BY <1>1, <2>2
<1>3. without \subseteq Nat /\ unrollTries \in without
  BY <1>1, <1>2
<1>4. i \in without /\ \A k \in without : i <= k
  <2> HIDE DEF without
  <2> QED
    BY <1>3, MinIs
<1>5. i \in 0 .. unrollTries /\ i \in Nat /\ ~ Assigned(UnrollTester(i))
  BY <1>1, <1>4
<1>6. ASSUME NEW k \in 0 .. i - 1 PROVE ValueOf(UnrollTester(k)) = More
  <2>1. k \in 0 .. unrollTries /\ ~ (i <= k)
    BY <1>1, <1>5
  <2>2. Assigned(UnrollTester(k))
    BY <1>4, <2>1
  <2>3. PICK b \in values : b.tester = UnrollTester(k) /\ b.value = ValueOf(UnrollTester(k))
    BY <2>2, ValueIs
  <2> QED
    BY <2>3, Testers DEF XKnown
<1>7. CASE Cardinality(LcmStrings) = 1
  <2> DEFINE call == [Nothing EXCEPT !.unrollTries = Max({@, i + 1}), !.asserted = {GenUnrollAssign(i)}]
  <2>1. GenUnrollOptions = call
    BY <1>7 DEF GenUnrollOptions
  <2>2. call.asserted = {GenUnrollAssign(i)}
    BY DEF Nothing
  <2>3. GenUnrollAssign(i).tester = UnrollTester(i)
    BY DEF GenUnrollAssign
  <2> HIDE DEF i, call
  <2> DEFINE a == GenUnrollAssign(i)
  <2> HIDE DEF a
  <2>4. a.tester = UnrollTester(i)
    BY <2>3 DEF a
  <2>5. /\ ~ IsLenTester(a.tester) /\ ~ IsValTester(a.tester) /\ a.tester # NoTester /\ a.tester.pos = i
    BY <2>4, Testers
  <2>6. \A k : [a.tester EXCEPT !.pos = k] = UnrollTester(k)
    BY <2>4 DEF UnrollTester
  <2>7. Applies(a)
    BY <1>6, <2>5, <2>6 DEF Applies
  <2>8. Pending(a)
    BY <1>5, <2>4, <2>5, <2>7 DEF Pending
  <2> QED
    BY <2>1, <2>2, <2>8 DEF a
<1>8. CASE Cardinality(LcmStrings) # 1
  <2> DEFINE call == [Nothing EXCEPT !.asserted = {EmptyAssign}]
  <2>1. GenUnrollOptions = call
    BY <1>8 DEF GenUnrollOptions
  <2>2. call.asserted = {EmptyAssign}
    BY DEF Nothing
  <2>3. EmptyAssign.tester = NoTester
    BY DEF EmptyAssign
  <2> HIDE DEF call
  <2> QED
    BY <2>1, <2>2, <2>3
<1> QED
  BY <1>7, <1>8

(* cb_final_check: while x has no value, there is a tester to give one to, *)
(* or the final check asserts the axiom of one, or x = "".                 *)
THEOREM CheckHelps == Spec => []NeverStuck
<1>1. Init => Continued
  BY DEF Init, Continued
<1>2. Inv /\ Continued => NeverStuck
  <2> SUFFICES ASSUME Inv, Continued, ~ XKnown
               PROVE  \E a \in FinalCheck.asserted : a.tester = NoTester \/ Pending(a)
    BY DEF NeverStuck
  <2>1. CASE cores = {}
    BY <2>1, LenCallHelps DEF FinalCheck
  <2>2. CASE cores # {}
    BY <2>2, UnrollCallHelps DEF FinalCheck
  <2> QED
    BY <2>1, <2>2
<1>3. Spec => []Inv
  BY InvHolds
<1> QED
  BY <1>1, <1>2, <1>3, ContinuedNext, PTL DEF Spec

-----------------------------------------------------------------------------
(* Divisors and common multiples.                                          *)
Divides(d, m) == \E q \in Nat : m = q * d

(* Products.                                                               *)
LEMMA Cancel ==
  ASSUME NEW x \in Int, NEW y \in Int, NEW l \in Nat \ {0}, x * l = y * l
  PROVE  x = y
OBVIOUS

LEMMA Times ==
  ASSUME NEW x \in Int, NEW y \in Int, NEW z \in Int
  PROVE  /\ x * y = y * x /\ (x * y) * z = x * (y * z) /\ (x * y) * z = (x * z) * y
         /\ (x - y) * z = (x * z) - (y * z)
OBVIOUS

LEMMA AtLeastOnce ==
  ASSUME NEW q \in Int, NEW d \in Nat \ {0}
  PROVE  /\ q * d >= 0 => q \in Nat
         /\ q * d > 0 => q \in Nat \ {0} /\ q * d >= d /\ q * d >= q
         /\ q \in Nat \ {0} => q * d \in Nat \ {0} /\ q * d >= d /\ q * d >= q
         /\ q * d <= d => q <= 1
OBVIOUS

LEMMA DividesIs ==
  ASSUME NEW d \in Nat \ {0}, NEW m \in Nat
  PROVE  Divides(d, m) <=> m % d = 0
<1>1. ASSUME NEW q \in Nat, m = q * d PROVE m % d = 0
  <2>1. 0 \in 0 .. d - 1 /\ m = d * q + 0
    BY <1>1
  <2> QED
    BY <2>1, Divided
<1>2. ASSUME m % d = 0 PROVE Divides(d, m)
  <2>1. m \div d \in Nat /\ m = d * (m \div d) + (m % d)
    BY Division
  <2>2. m = (m \div d) * d
    BY <1>2, <2>1
  <2> QED
    BY <2>1, <2>2 DEF Divides
<1> QED
  BY <1>1, <1>2 DEF Divides

(* A divisor of two numbers divides the rest of their division.            *)
LEMMA DividesRest ==
  ASSUME NEW d \in Nat \ {0}, NEW l \in Nat \ {0}, NEW m \in Nat, Divides(d, l), Divides(d, m)
  PROVE  Divides(d, m % l)
<1>1. PICK x \in Nat : l = x * d
  BY DEF Divides
<1>2. PICK y \in Nat : m = y * d
  BY DEF Divides
<1> DEFINE q == m \div l
           r == m % l
<1>3. q \in Nat /\ r \in Nat /\ m = (l * q) + r
  <2>1. /\ m \div l \in Nat /\ m % l \in 0 .. l - 1
        /\ m = l * (m \div l) + (m % l)
    BY Division
  <2>2. q = m \div l /\ r = m % l
    OBVIOUS
  <2> HIDE DEF q, r
  <2> QED
    BY <2>1, <2>2
<1> HIDE DEF q, r
<1>4. r = (y - q * x) * d
  <2>1. l * q = (q * x) * d
    BY <1>1, <1>3, Times
  <2>2. (y - q * x) * d = (y * d) - ((q * x) * d)
    BY <1>3, Times
  <2>3. r = m - (l * q)
    <3>1. l * q \in Int
      BY <1>3
    <3> QED
      BY <1>3, <3>1
  <2> QED
    BY <1>2, <2>1, <2>2, <2>3
<1>5. y - q * x \in Nat
  <2>1. y - q * x \in Int /\ (y - q * x) * d >= 0
    BY <1>3, <1>4
  <2> QED
    BY <2>1, AtLeastOnce
<1>6. Divides(d, r)
  BY <1>4, <1>5 DEF Divides
<1> QED
  BY <1>6 DEF r

CommonMultiple(S, m) == \A d \in S : Divides(d, m)

(* The least common multiple divides the others.                           *)
LEMMA LeastDivides ==
  ASSUME NEW S, S \subseteq Nat \ {0}, NEW l \in Nat \ {0}, CommonMultiple(S, l),
         \A k \in Nat \ {0} : CommonMultiple(S, k) => l <= k,
         NEW m \in Nat, CommonMultiple(S, m)
  PROVE  Divides(l, m)
<1>1. m % l \in 0 .. l - 1
  BY Division
<1>2. CommonMultiple(S, m % l)
  BY DividesRest DEF CommonMultiple
<1>3. m % l = 0
  BY <1>1, <1>2
<1> QED
  BY <1>3, DividesIs

(* A bounded set has a greatest number.                                    *)
LEMMA MaxOfBounded ==
  ASSUME NEW D, D \subseteq Nat, D # {}, NEW n \in Nat, \A d \in D : d <= n
  PROVE  Max(D) \in D /\ \A d \in D : d <= Max(D)
<1> DEFINE T == {n - d : d \in D}
<1>1. T \subseteq Nat /\ T # {}
  <2>1. \A d \in D : n - d \in Nat
    OBVIOUS
  <2>2. PICK d : d \in D
    OBVIOUS
  <2> QED
    BY <2>1, <2>2
<1>2. PICK x \in T : \A y \in T : x <= y
  <2> HIDE DEF T
  <2> QED
    BY <1>1, LeastOf
<1>3. PICK g \in D : x = n - g
  OBVIOUS
<1>4. ASSUME NEW d \in D PROVE g >= d
  <2>1. n - d \in T /\ d \in Nat /\ g \in Nat
    BY <1>3
  <2>2. n - g <= n - d
    BY <1>2, <1>3, <2>1
  <2> QED
    BY <2>1, <2>2
<1>5. Max(D) \in D /\ \A d \in D : Max(D) >= d
  BY <1>3, <1>4 DEF Max
<1> QED
  BY <1>5

(* computeGCD                                                              *)
LEMMA GcdIs ==
  ASSUME NEW a \in Nat \ {0}, NEW b \in Nat \ {0}
  PROVE  /\ Gcd(a, b) \in 1 .. a /\ Divides(Gcd(a, b), a) /\ Divides(Gcd(a, b), b)
         /\ \A d \in Nat \ {0} : Divides(d, a) /\ Divides(d, b) => d <= Gcd(a, b)
<1> DEFINE D == {d \in 1 .. a : a % d = 0 /\ b % d = 0}
<1>1. \A d \in Nat \ {0} : (Divides(d, a) <=> a % d = 0) /\ (Divides(d, b) <=> b % d = 0)
  <2> TAKE d \in Nat \ {0}
  <2>1. a \in Nat /\ b \in Nat
    OBVIOUS
  <2>2. Divides(d, a) <=> a % d = 0
    BY <2>1, DividesIs
  <2>3. Divides(d, b) <=> b % d = 0
    BY <2>1, DividesIs
  <2> QED
    BY <2>2, <2>3
<1>2. \A d \in Nat \ {0} : Divides(d, a) => d <= a
  <2> SUFFICES ASSUME NEW d \in Nat \ {0}, NEW q \in Nat, a = q * d PROVE d <= a
    BY DEF Divides
  <2> QED
    BY AtLeastOnce
<1>3. \A d \in Nat \ {0} : Divides(d, a) /\ Divides(d, b) => d \in D
  BY <1>1, <1>2
<1>4. \A d \in D : d \in 1 .. a /\ d \in Nat \ {0} /\ Divides(d, a) /\ Divides(d, b)
  BY <1>1
<1>5. Divides(1, a) /\ Divides(1, b)
  BY DEF Divides
<1>6. D \subseteq Nat /\ D # {} /\ a \in Nat /\ \A d \in D : d <= a
  <2>1. 1 \in D
    BY <1>3, <1>5
  <2> QED
    BY <2>1
<1>7. Gcd(a, b) = Max(D)
  BY DEF Gcd
<1> HIDE DEF D
<1>8. Max(D) \in D /\ \A d \in D : d <= Max(D)
  BY <1>6, MaxOfBounded
<1> QED
  BY <1>3, <1>4, <1>7, <1>8

(* computeLCM                                                              *)
LEMMA LcmIs ==
  ASSUME NEW a \in Nat \ {0}, NEW b \in Nat \ {0}
  PROVE  /\ Lcm(a, b) \in Nat \ {0} /\ CommonMultiple({a, b}, Lcm(a, b))
         /\ \A m \in Nat : CommonMultiple({a, b}, m) => Divides(Lcm(a, b), m)
<1> DEFINE g == Gcd(a, b)
           L == Lcm(a, b)
           T == {k \in Nat \ {0} : CommonMultiple({a, b}, k)}
<1>1. g \in Nat \ {0} /\ Divides(g, a) /\ Divides(g, b)
      /\ \A d \in Nat \ {0} : Divides(d, a) /\ Divides(d, b) => d <= g
  BY GcdIs
<1>2. PICK u \in Nat : a = u * g
  BY <1>1 DEF Divides
<1>3. PICK v \in Nat : b = v * g
  BY <1>1 DEF Divides
<1>4. L = u * b
  <2>1. a \div g = u
    <3>1. a = g * u + 0 /\ 0 \in 0 .. g - 1
      BY <1>1, <1>2
    <3> QED
      BY <1>1, <3>1, Divided
  <2> QED
    BY <2>1 DEF Lcm
<1> HIDE DEF g, L
<1>5. u \in Nat \ {0} /\ v \in Nat \ {0}
  BY <1>1, <1>2, <1>3
<1>6. L \in Nat \ {0}
  BY <1>4, <1>5, AtLeastOnce
<1>7. CommonMultiple({a, b}, L)
  <2>1. L = v * a
    BY <1>1, <1>2, <1>3, <1>4, <1>5
  <2> QED
    BY <1>4, <2>1 DEF CommonMultiple, Divides
<1>8. PICK l \in T : \A k \in T : l <= k
  <2>1. L \in T /\ T \subseteq Nat
    BY <1>6, <1>7
  <2> HIDE DEF T
  <2> QED
    BY <2>1, LeastOf
<1>9. l \in Nat \ {0} /\ CommonMultiple({a, b}, l) /\ \A k \in Nat \ {0} : CommonMultiple({a, b}, k) => l <= k
  BY <1>8
<1>10. \A m \in Nat : CommonMultiple({a, b}, m) => Divides(l, m)
  <2>1. {a, b} \subseteq Nat \ {0}
    OBVIOUS
  <2> QED
    BY <1>9, <2>1, LeastDivides
<1>11. PICK d \in Nat : a * b = d * l
  <2>1. a * b \in Nat /\ a * b = b * a
    OBVIOUS
  <2>2. CommonMultiple({a, b}, a * b)
    BY <2>1 DEF CommonMultiple, Divides
  <2>3. Divides(l, a * b)
    BY <1>10, <2>1, <2>2
  <2> QED
    BY <2>3 DEF Divides
<1>12. PICK t \in Nat : L = t * l
  BY <1>6, <1>7, <1>10 DEF Divides
<1>13. d \in Nat \ {0} /\ Divides(d, a) /\ Divides(d, b)
  <2>1. a * b \in Nat \ {0}
    BY AtLeastOnce
  <2>2. d \in Nat \ {0}
    BY <1>9, <1>11, <2>1
  <2>3. PICK x \in Nat : l = x * a
    BY <1>9 DEF CommonMultiple, Divides
  <2>4. PICK y \in Nat : l = y * b
    BY <1>9 DEF CommonMultiple, Divides
  <2>5. b = x * d
    <3>1. d * l = (x * d) * a
      BY <2>2, <2>3, Times
    <3>2. b * a = (x * d) * a
      BY <1>11, <3>1, Times
    <3>3. x * d \in Int
      BY <2>2
    <3> QED
      BY <3>2, <3>3, Cancel
  <2>6. a = y * d
    <3>1. d * l = (y * d) * b
      BY <2>2, <2>4, Times
    <3>2. a * b = (y * d) * b
      BY <1>11, <3>1
    <3>3. y * d \in Int
      BY <2>2
    <3> QED
      BY <3>2, <3>3, Cancel
  <2> QED
    BY <2>2, <2>5, <2>6 DEF Divides
<1>14. t * g = d
  <2>1. L * g = d * l
    <3>1. (u * b) * g = (u * g) * b
      BY <1>1, Times
    <3> QED
      BY <1>2, <1>4, <1>11, <3>1
  <2>2. (t * g) * l = (t * l) * g
    BY <1>1, <1>9, Times
  <2>3. (t * g) * l = d * l
    BY <1>12, <2>1, <2>2
  <2>4. t * g \in Int
    BY <1>1
  <2> QED
    BY <1>9, <2>3, <2>4, Cancel
<1>15. t = 1
  <2>1. t * g <= g
    BY <1>1, <1>13, <1>14
  <2>2. t <= 1
    BY <1>1, <2>1, AtLeastOnce
  <2>3. t # 0
    BY <1>6, <1>9, <1>12
  <2> QED
    BY <2>2, <2>3
<1>16. L = l
  BY <1>9, <1>12, <1>15
<1> QED
  BY <1>6, <1>7, <1>10, <1>16 DEF L

-----------------------------------------------------------------------------
(* The least common multiple of a set.                                     *)
Least(S, l) ==
  /\ l \in Nat \ {0} /\ CommonMultiple(S, l)
  /\ \A k \in Nat \ {0} : CommonMultiple(S, k) => l <= k

(* One number more; there is one of every finite set (least counterexample). *)
LEMMA LeastStep ==
  ASSUME NEW S, S \subseteq Nat \ {0}, NEW x \in S, NEW m, Least(S \ {x}, m)
  PROVE  Least(S, Lcm(x, m))
<1> DEFINE L == Lcm(x, m)
<1>1. x \in Nat \ {0} /\ m \in Nat \ {0}
  BY DEF Least
<1>2. /\ L \in Nat \ {0} /\ CommonMultiple({x, m}, L)
      /\ \A k \in Nat : CommonMultiple({x, m}, k) => Divides(L, k)
  BY <1>1, LcmIs
<1> HIDE DEF L
<1>3. ASSUME NEW d \in S PROVE Divides(d, L)
  <2>1. CASE d = x
    BY <1>2, <2>1 DEF CommonMultiple
  <2>2. CASE d # x
    <3>1. PICK q \in Nat : m = q * d
      BY <2>2 DEF Least, CommonMultiple, Divides
    <3>2. PICK p \in Nat : L = p * m
      BY <1>2 DEF CommonMultiple, Divides
    <3>3. L = (p * q) * d /\ p * q \in Nat
      <4>1. d \in Int
        OBVIOUS
      <4> QED
        BY <3>1, <3>2, <4>1, Times
    <3> QED
      BY <3>3 DEF Divides
  <2> QED
    BY <2>1, <2>2
<1>4. ASSUME NEW k \in Nat \ {0}, CommonMultiple(S, k) PROVE L <= k
  <2>1. CommonMultiple(S \ {x}, k)
    BY <1>4 DEF CommonMultiple
  <2>2. Divides(m, k)
    BY <1>1, <2>1, LeastDivides DEF Least
  <2>3. CommonMultiple({x, m}, k)
    BY <1>4, <2>2 DEF CommonMultiple
  <2>4. PICK q \in Nat : k = q * L
    BY <1>2, <2>3 DEF Divides
  <2> QED
    BY <1>2, <2>4, AtLeastOnce
<1>5. Least(S, L)
  BY <1>2, <1>3, <1>4 DEF Least, CommonMultiple
<1> QED
  BY <1>5 DEF L

LEMMA LeastOfNone == Least({}, 1)
BY DEF Least, CommonMultiple

LEMMA LeastUnique ==
  ASSUME NEW S, NEW l, NEW m, Least(S, l), Least(S, m)
  PROVE  l = m
BY DEF Least

LEMMA LeastExists ==
  ASSUME NEW S, S \subseteq Nat \ {0}, IsFiniteSet(S)
  PROVE  \E l : Least(S, l)
<1> DEFINE Without == {T \in SUBSET S : ~ \E l : Least(T, l)}
           Bad == {Cardinality(T) : T \in Without}
<1>1. \A T \in SUBSET S : IsFiniteSet(T) /\ Cardinality(T) \in Nat
  BY FS_Subset, FS_CardinalityType
<1> SUFFICES ASSUME S \in Without PROVE FALSE
  OBVIOUS
<1>2. PICK c \in Bad : \A d \in Bad : c <= d
  <2>1. Bad \subseteq Nat /\ Bad # {}
    BY <1>1
  <2> HIDE DEF Bad
  <2> QED
    BY <2>1, LeastOf
<1>3. PICK T \in Without : c = Cardinality(T)
  BY <1>2
<1>4. T # {}
  BY LeastOfNone
<1>5. PICK x : x \in T
  BY <1>4
<1>6. IsFiniteSet(T \ {x}) /\ Cardinality(T \ {x}) = Cardinality(T) - 1
  BY <1>1, <1>5, FS_RemoveElement
<1>7. T \ {x} \notin Without
  <2> SUFFICES ASSUME T \ {x} \in Without PROVE FALSE
    OBVIOUS
  <2>1. Cardinality(T \ {x}) \in Bad
    OBVIOUS
  <2>2. c <= Cardinality(T) - 1 /\ c \in Nat
    BY <1>1, <1>2, <1>3, <1>6, <2>1
  <2> QED
    BY <1>3, <2>2
<1>8. PICK m : Least(T \ {x}, m)
  BY <1>7
<1>9. Least(T, Lcm(x, m))
  BY <1>5, <1>8, LeastStep
<1> QED
  BY <1>9

(* The function that FoldSet chooses.                                      *)
Folds(S, g) ==
  g = [T \in SUBSET S |-> IF T = {} THEN 1
                          ELSE LET x == CHOOSE y \in T : TRUE IN Lcm(x, g[T \ {x}])]

LEMMA FoldsWith ==
  ASSUME NEW S, NEW g, Folds(S, g)
  PROVE  \A T \in SUBSET S : g[T] = IF T = {} THEN 1 ELSE Lcm(OneOf(T), g[T \ {OneOf(T)}])
BY DEF Folds, OneOf

(* The fold of computeLCM is the least common multiple.                    *)
LEMMA FoldIs ==
  ASSUME NEW S, S \subseteq Nat \ {0}, IsFiniteSet(S)
  PROVE  Least(S, FoldSet(Lcm, 1, S))
<1> DEFINE least(T) == CHOOSE l : Least(T, l)
           h == [T \in SUBSET S |-> least(T)]
           g == CHOOSE f : Folds(S, f)
           Without == {T \in SUBSET S : ~ Least(T, g[T])}
           Bad == {Cardinality(T) : T \in Without}
<1>1. \A T \in SUBSET S : /\ IsFiniteSet(T) /\ Cardinality(T) \in Nat
                          /\ T # {} => OneOf(T) \in T
  BY FS_Subset, FS_CardinalityType DEF OneOf
<1>2. \A T \in SUBSET S : Least(T, least(T))
  BY <1>1, LeastExists
<1> HIDE DEF least
<1>3. \A T \in SUBSET S : T # {} => least(T) = Lcm(OneOf(T), least(T \ {OneOf(T)}))
  <2> SUFFICES ASSUME NEW T \in SUBSET S, T # {}
               PROVE  least(T) = Lcm(OneOf(T), least(T \ {OneOf(T)}))
    OBVIOUS
  <2>1. T \ {OneOf(T)} \in SUBSET S
    OBVIOUS
  <2>2. Least(T, Lcm(OneOf(T), least(T \ {OneOf(T)})))
    BY <1>1, <1>2, <2>1, LeastStep
  <2> QED
    BY <1>2, <2>2, LeastUnique
<1>4. least({}) = 1
  BY <1>2, LeastOfNone, LeastUnique
<1>5. Folds(S, h)
  <2>1. \A T \in SUBSET S : h[T] = IF T = {} THEN 1 ELSE Lcm(OneOf(T), h[T \ {OneOf(T)}])
    BY <1>3, <1>4
  <2>2. h = [T \in SUBSET S |-> h[T]]
    OBVIOUS
  <2> HIDE DEF h
  <2> QED
    BY <2>1, <2>2 DEF Folds, OneOf
<1>6. Folds(S, g)
  BY <1>5
<1>7. FoldSet(Lcm, 1, S) = g[S]
  BY DEF FoldSet, MapThenFoldSet, Folds
<1> HIDE DEF g, h
<1>8. \A T \in SUBSET S : g[T] = IF T = {} THEN 1 ELSE Lcm(OneOf(T), g[T \ {OneOf(T)}])
  BY <1>6, FoldsWith
<1>9. Without = {}
  <2> SUFFICES ASSUME Without # {} PROVE FALSE
    OBVIOUS
  <2>1. PICK c \in Bad : \A d \in Bad : c <= d
    <3>1. Bad \subseteq Nat /\ Bad # {}
      BY <1>1
    <3> HIDE DEF Bad
    <3> QED
      BY <3>1, LeastOf
  <2>2. PICK T \in Without : c = Cardinality(T)
    BY <2>1
  <2>3. T \in SUBSET S /\ ~ Least(T, g[T])
    OBVIOUS
  <2>4. T # {}
    BY <1>8, <2>3, LeastOfNone
  <2>5. OneOf(T) \in T
    BY <1>1, <2>4
  <2>6. Cardinality(T \ {OneOf(T)}) = Cardinality(T) - 1
    BY <1>1, <2>5, FS_RemoveElement
  <2>7. T \ {OneOf(T)} \notin Without
    <3> SUFFICES ASSUME T \ {OneOf(T)} \in Without PROVE FALSE
      OBVIOUS
    <3>1. Cardinality(T \ {OneOf(T)}) \in Bad
      OBVIOUS
    <3>2. c <= Cardinality(T) - 1 /\ c = Cardinality(T) /\ Cardinality(T) \in Nat
      <4> HIDE DEF Bad
      <4> QED
        BY <1>1, <2>1, <2>2, <2>6, <3>1
    <3> QED
      BY <3>2
  <2>8. Least(T \ {OneOf(T)}, g[T \ {OneOf(T)}])
    BY <2>7
  <2>9. Least(T, Lcm(OneOf(T), g[T \ {OneOf(T)}]))
    <3>1. T \subseteq Nat \ {0}
      BY <2>3
    <3> QED
      BY <2>5, <2>8, <3>1, LeastStep
  <2> QED
    BY <1>8, <2>3, <2>4, <2>9
<1> QED
  BY <1>7, <1>9

-----------------------------------------------------------------------------
(* A constant that is not empty, and what it is when unrolled.             *)
Core(core) == core \in Seq(Nat) /\ core # <<>>

Repeat(core, n) == [p \in 1 .. n * Len(core) |-> core[((p - 1) % Len(core)) + 1]]

LEMMA CoreLength ==
  ASSUME NEW core, Core(core)
  PROVE  Len(core) \in Nat \ {0} /\ core = [p \in 1 .. Len(core) |-> core[p]]
BY DEF Core

(* The letters of an unrolled constant; one unrolling more.                *)
LEMMA RepeatIs ==
  ASSUME NEW core, Core(core), NEW n \in Nat
  PROVE  /\ Repeat(core, n) \in Seq(Nat) /\ Len(Repeat(core, n)) = n * Len(core)
         /\ \A p \in 1 .. n * Len(core) : Repeat(core, n)[p] = core[((p - 1) % Len(core)) + 1]
         /\ n # 0 => Core(Repeat(core, n))
<1> DEFINE L == Len(core)
           N == n * L
           e == [p \in 1 .. N |-> core[((p - 1) % L) + 1]]
<1>1. L \in Nat \ {0}
  BY CoreLength
<1>2. N \in Nat /\ (n # 0 => N # 0)
  <2> HIDE DEF L
  <2> QED
    BY <1>1, AtLeastOnce
<1>3. \A p \in 1 .. N : core[((p - 1) % L) + 1] \in Nat
  <2> SUFFICES ASSUME NEW p \in 1 .. N PROVE core[((p - 1) % L) + 1] \in Nat
    OBVIOUS
  <2>1. p - 1 \in Nat
    BY <1>2
  <2> HIDE DEF L
  <2>2. (p - 1) % L \in 0 .. L - 1
    BY <1>1, <2>1, Division
  <2>3. ((p - 1) % L) + 1 \in 1 .. L
    BY <1>1, <2>2
  <2> QED
    BY <2>3 DEF L, Core
<1>4. Repeat(core, n) = e
  BY DEF Repeat
<1> HIDE DEF N, L
<1>5. e \in Seq(Nat) /\ Len(e) = N /\ \A p \in 1 .. N : e[p] = core[((p - 1) % L) + 1]
  BY <1>2, <1>3
<1> HIDE DEF e
<1>6. n # 0 => Core(e)
  BY <1>2, <1>5 DEF Core
<1> QED
  BY <1>4, <1>5, <1>6 DEF N, L

LEMMA RepeatOnce ==
  ASSUME NEW core, Core(core)
  PROVE  Repeat(core, 1) = core
<1> DEFINE L == Len(core)
<1>1. L \in Nat \ {0} /\ core = [p \in 1 .. L |-> core[p]]
  BY CoreLength
<1> HIDE DEF L
<1>2. \A p \in 1 .. L : ((p - 1) % L) + 1 = p
  <2> SUFFICES ASSUME NEW p \in 1 .. L PROVE ((p - 1) % L) + 1 = p
    OBVIOUS
  <2>1. p - 1 \in 0 .. L - 1 /\ p - 1 = L * 0 + (p - 1)
    BY <1>1
  <2>2. (p - 1) % L = p - 1
    BY <1>1, <2>1, Divided
  <2> QED
    BY <2>2
<1>3. 1 * L = L
  BY <1>1
<1>4. Repeat(core, 1) = [p \in 1 .. L |-> core[p]]
  BY <1>2, <1>3 DEF Repeat, L
<1> QED
  BY <1>1, <1>4

LEMMA SameSeq ==
  ASSUME NEW s \in Seq(Nat), NEW t \in Seq(Nat), NEW n \in Nat, Len(s) = n, Len(t) = n,
         \A p \in 1 .. n : s[p] = t[p]
  PROVE  s = t
OBVIOUS

LEMMA RepeatNext ==
  ASSUME NEW core, Core(core), NEW n \in Nat
  PROVE  Repeat(core, n + 1) = Repeat(core, n) \o core
<1> DEFINE L == Len(core)
           a == Repeat(core, n)
           b == Repeat(core, n + 1)
<1>1. L \in Nat \ {0} /\ core \in Seq(Nat)
  BY CoreLength DEF Core
<1>2. a \in Seq(Nat) /\ Len(a) = n * L /\ \A p \in 1 .. n * L : a[p] = core[((p - 1) % L) + 1]
  BY RepeatIs
<1>3. /\ b \in Seq(Nat) /\ Len(b) = (n + 1) * L
      /\ \A p \in 1 .. (n + 1) * L : b[p] = core[((p - 1) % L) + 1]
  BY RepeatIs
<1>4. Len(core) = L
  OBVIOUS
<1> HIDE DEF L, a, b
<1> DEFINE N == n * L
<1>5. N \in Nat /\ Len(a) = N
  BY <1>1, <1>2
<1>c. (n + 1) * L = N + L /\ N = L * n
  BY <1>1
<1>a. \A p \in 1 .. N : a[p] = core[((p - 1) % L) + 1]
  BY <1>2
<1>b. Len(b) = N + L /\ \A p \in 1 .. N + L : b[p] = core[((p - 1) % L) + 1]
  BY <1>3, <1>c
<1> HIDE DEF N
<1>d. L \in Nat /\ core \in Seq(Nat) /\ a \in Seq(Nat)
  BY <1>1, <1>2
<1>6. ASSUME NEW p \in 1 .. N + L PROVE b[p] = (a \o core)[p]
  <2>1. CASE p <= N
    <3>1. p \in 1 .. N
      BY <1>5, <2>1
    <3>2. (a \o core)[p] = a[p]
      BY <1>1, <1>2, <1>5, <3>1
    <3> QED
      BY <1>1, <1>5, <1>a, <1>b, <3>1, <3>2
  <2>2. CASE p > N
    <3> DEFINE r == (p - 1) - N
    <3>1. r \in 0 .. L - 1 /\ p - 1 = L * n + r /\ r + 1 = p - N
      BY <1>1, <1>5, <1>c, <2>2
    <3> HIDE DEF r
    <3>2. (p - 1) % L = r
      BY <1>1, <3>1, Divided
    <3>3. (a \o core)[p] = core[p - N]
      BY <1>1, <1>2, <1>4, <1>5, <2>2
    <3> QED
      BY <1>b, <3>1, <3>2, <3>3
  <2>3. p <= N \/ p > N
    BY <1>5, <1>d
  <2> QED
    BY <2>1, <2>2, <2>3
<1>7. a \o core \in Seq(Nat) /\ Len(a \o core) = N + L
  BY <1>4, <1>5, <1>d
<1>8. b = a \o core
  <2>1. b \in Seq(Nat) /\ Len(b) = N + L
    BY <1>3, <1>b
  <2>2. N + L \in Nat
    BY <1>5, <1>d
  <2> QED
    BY <1>6, <1>7, <2>1, <2>2, SameSeq
<1> QED
  BY <1>8 DEF a, b

(* The function that FlattenSeq chooses.                                   *)
Flattens(core, n, g) ==
  g = [i \in 1 .. n |-> IF i = 1 THEN core ELSE g[i - 1] \o core]

(* getUnrolledString                                                       *)
LEMMA UnrolledIs ==
  ASSUME NEW core, Core(core), NEW n \in Nat
  PROVE  Unrolled(core, n) = Repeat(core, n)
<1> DEFINE s == [i \in 1 .. n |-> core]
           h == [i \in 1 .. n |-> Repeat(core, i)]
           g == CHOOSE f : Flattens(core, n, f)
           Bad == {i \in 1 .. n : g[i] # Repeat(core, i)}
<1>1. s \in Seq({core}) /\ Len(s) = n /\ \A i \in 1 .. n : s[i] = core
  OBVIOUS
<1>2. CASE n = 0
  <2>1. Unrolled(core, n) = s
    BY <1>1, <1>2 DEF Unrolled, FlattenSeq
  <2>2. s = <<>>
    BY <1>1, <1>2
  <2>3. Repeat(core, n) \in Seq(Nat) /\ Len(Repeat(core, n)) = 0
    BY <1>2, RepeatIs, CoreLength
  <2> QED
    BY <2>1, <2>2, <2>3
<1>3. CASE n # 0
  <2>1. Unrolled(core, n) =
          (CHOOSE f : f = [i \in 1 .. n |-> IF i = 1 THEN s[i] ELSE f[i - 1] \o s[i]])[n]
    BY <1>1, <1>3 DEF Unrolled, FlattenSeq
  <2>2. \A f : [i \in 1 .. n |-> IF i = 1 THEN s[i] ELSE f[i - 1] \o s[i]]
               = [i \in 1 .. n |-> IF i = 1 THEN core ELSE f[i - 1] \o core]
    OBVIOUS
  <2>3. Unrolled(core, n) = g[n]
    BY <2>1, <2>2 DEF Flattens
  <2>4. Flattens(core, n, h)
    <3>1. \A i \in 1 .. n : h[i] = IF i = 1 THEN core ELSE h[i - 1] \o core
      <4> SUFFICES ASSUME NEW i \in 1 .. n PROVE h[i] = IF i = 1 THEN core ELSE h[i - 1] \o core
        OBVIOUS
      <4>1. CASE i = 1
        BY <4>1, RepeatOnce
      <4>2. CASE i # 1
        <5>1. i - 1 \in Nat /\ i - 1 \in 1 .. n /\ (i - 1) + 1 = i
          BY <4>2
        <5>2. Repeat(core, (i - 1) + 1) = Repeat(core, i - 1) \o core
          BY <5>1, RepeatNext
        <5> QED
          BY <4>2, <5>1, <5>2
      <4> QED
        BY <4>1, <4>2
    <3>2. h = [i \in 1 .. n |-> h[i]]
      OBVIOUS
    <3> HIDE DEF h
    <3> QED
      BY <3>1, <3>2 DEF Flattens
  <2>5. Flattens(core, n, g)
    BY <2>4
  <2>6. \A i \in 1 .. n : g[i] = IF i = 1 THEN core ELSE g[i - 1] \o core
    <3> HIDE DEF g
    <3> QED
      BY <2>5 DEF Flattens
  <2> HIDE DEF g
  <2>7. Bad = {}
    <3> SUFFICES ASSUME Bad # {} PROVE FALSE
      OBVIOUS
    <3>1. PICK i \in Bad : \A j \in Bad : i <= j
      <4>1. Bad \subseteq Nat
        OBVIOUS
      <4> HIDE DEF Bad
      <4> QED
        BY <4>1, LeastOf
    <3>2. i # 1
      BY <2>6, RepeatOnce
    <3>3. i - 1 \in 1 .. n /\ i - 1 \in Nat /\ (i - 1) + 1 = i /\ ~ (i <= i - 1)
      BY <3>2
    <3>4. g[i - 1] = Repeat(core, i - 1)
      BY <3>1, <3>3
    <3>5. Repeat(core, (i - 1) + 1) = Repeat(core, i - 1) \o core
      BY <3>3, RepeatNext
    <3> QED
      BY <2>6, <3>2, <3>3, <3>4, <3>5
  <2>8. n \in 1 .. n
    BY <1>3
  <2> QED
    BY <2>3, <2>7, <2>8
<1> QED
  BY <1>2, <1>3

(* What is unrolled twice is unrolled once, the product of the times.      *)
LEMMA RepeatTwice ==
  ASSUME NEW core, Core(core), NEW m \in Nat \ {0}, NEW n \in Nat
  PROVE  Repeat(Repeat(core, m), n) = Repeat(core, n * m)
<1> DEFINE L == Len(core)
           a == Repeat(core, m)
           M == m * L
           b == Repeat(a, n)
           c == Repeat(core, n * m)
<1>1. L \in Nat \ {0}
  BY CoreLength
<1>2. Core(a) /\ Len(a) = M /\ \A p \in 1 .. M : a[p] = core[((p - 1) % L) + 1]
  BY RepeatIs
<1>3. n * m \in Nat
  OBVIOUS
<1>4. c \in Seq(Nat) /\ Len(c) = (n * m) * L /\ \A p \in 1 .. (n * m) * L : c[p] = core[((p - 1) % L) + 1]
  BY <1>3, RepeatIs
<1> HIDE DEF a
<1>5. b \in Seq(Nat) /\ Len(b) = n * M /\ \A p \in 1 .. n * M : b[p] = a[((p - 1) % M) + 1]
  <2>1. /\ b \in Seq(Nat) /\ Len(b) = n * Len(a)
        /\ \A p \in 1 .. n * Len(a) : b[p] = a[((p - 1) % Len(a)) + 1]
    BY <1>2, RepeatIs
  <2> HIDE DEF M
  <2> QED
    BY <1>2, <2>1
<1> HIDE DEF b, c, L
<1>6. M \in Nat \ {0} /\ n * M = (n * m) * L
  BY <1>1, Times, AtLeastOnce
<1> HIDE DEF M
<1>7. ASSUME NEW p \in 1 .. n * M PROVE b[p] = c[p]
  <2> DEFINE r == (p - 1) % M
  <2>1. p - 1 \in Nat
    BY <1>6
  <2>2. (p - 1) \div M \in Nat /\ r \in 0 .. M - 1 /\ p - 1 = M * ((p - 1) \div M) + r
    BY <1>6, <2>1, Division
  <2>3. PICK q \in Nat : p - 1 = M * q + r
    BY <2>2
  <2>4. b[p] = a[r + 1]
    BY <1>5
  <2> HIDE DEF r
  <2>5. r \in Nat /\ r + 1 \in 1 .. M /\ (r + 1) - 1 = r
    BY <1>6, <2>2
  <2>6. a[r + 1] = core[(r % L) + 1]
    BY <1>2, <2>5
  <2>7. r % L = (p - 1) % L
    <3>1. r \div L \in Nat /\ r % L \in 0 .. L - 1 /\ r = L * (r \div L) + (r % L)
      BY <1>1, <2>5, Division
    <3>2. PICK t \in Nat, u \in 0 .. L - 1 : r % L = u /\ r = L * t + u
      BY <3>1
    <3>3. p - 1 = L * (m * q + t) + u
      <4>1. M * q = L * (m * q)
        BY <1>1, Times DEF M
      <4>2. L * (m * q + t) = (L * (m * q)) + (L * t)
        BY <1>1
      <4>3. L * (m * q) \in Int /\ L * t \in Int /\ L * (m * q + t) \in Int
        BY <1>1
      <4> QED
        BY <2>3, <3>2, <4>1, <4>2, <4>3
    <3>4. m * q + t \in Nat
      OBVIOUS
    <3>5. (L * (m * q + t) + u) % L = u
      BY <1>1, <3>2, <3>4, Divided
    <3> QED
      BY <3>2, <3>3, <3>5
  <2>8. c[p] = core[((p - 1) % L) + 1]
    BY <1>4, <1>6
  <2> QED
    BY <2>4, <2>6, <2>7, <2>8
<1>8. b = c
  BY <1>4, <1>5, <1>6, <1>7
<1> QED
  BY <1>8 DEF a, b, c

-----------------------------------------------------------------------------
(* The length to which the constants are unrolled.                         *)
CommonLen == FoldSet(Lcm, 1, {Len(core) : core \in cores})
UnrollTimes(core) == CommonLen \div Len(core)

(* The constants, each unrolled to CommonLen.                              *)
LEMMA CoresAre ==
  ASSUME CoresOK(cores)
  PROVE  /\ CommonLen \in Nat \ {0}
         /\ \A core \in cores : /\ Core(core) /\ Len(core) \in Nat \ {0}
                                /\ UnrollTimes(core) \in Nat \ {0}
                                /\ UnrollTimes(core) * Len(core) = CommonLen
         /\ \A m \in Nat : (\A core \in cores : Divides(Len(core), m)) => Divides(CommonLen, m)
<1> DEFINE S == {Len(core) : core \in cores}
<1>1. \A core \in cores : Core(core) /\ Len(core) \in Nat \ {0}
  BY CoreLength DEF CoresOK, Core
<1>2. S \subseteq Nat \ {0} /\ IsFiniteSet(S)
  <2> DEFINE f == [core \in cores |-> Len(core)]
  <2>1. f \in Surjection(cores, S)
    BY DEF Surjection
  <2>2. IsFiniteSet(S)
    BY <2>1, FS_Surjection DEF CoresOK
  <2> QED
    BY <1>1, <2>2
<1>3. Least(S, CommonLen)
  <2> HIDE DEF S
  <2>1. Least(S, FoldSet(Lcm, 1, S))
    BY <1>2, FoldIs
  <2> QED
    BY <2>1 DEF CommonLen, S
<1>4. CommonLen \in Nat \ {0} /\ CommonMultiple(S, CommonLen)
  BY <1>3 DEF Least
<1>5. \A m \in Nat : CommonMultiple(S, m) => Divides(CommonLen, m)
  <2> HIDE DEF S
  <2> QED
    BY <1>2, <1>3, LeastDivides DEF Least
<1>6. ASSUME NEW core \in cores
      PROVE  UnrollTimes(core) \in Nat \ {0} /\ UnrollTimes(core) * Len(core) = CommonLen
  <2> DEFINE L == Len(core)
             C == CommonLen
  <2>1. L \in Nat \ {0} /\ C \in Nat \ {0} /\ Divides(L, C)
    BY <1>1, <1>4 DEF CommonMultiple
  <2>2. UnrollTimes(core) = C \div L
    BY DEF UnrollTimes
  <2> HIDE DEF L, C
  <2>3. PICK q \in Nat : C = q * L
    BY <2>1 DEF Divides
  <2>4. C = L * q + 0 /\ 0 \in 0 .. L - 1
    BY <2>1, <2>3
  <2>5. C \div L = q
    BY <2>1, <2>4, Divided
  <2>6. q # 0
    BY <2>1, <2>3
  <2> QED
    BY <2>2, <2>3, <2>5, <2>6 DEF L, C
<1>7. ASSUME NEW m \in Nat, \A core \in cores : Divides(Len(core), m)
      PROVE  Divides(CommonLen, m)
  BY <1>5, <1>7 DEF CommonMultiple
<1> QED
  BY <1>1, <1>4, <1>6, <1>7

LEMMA LcmStringsAre ==
  ASSUME CoresOK(cores)
  PROVE  /\ LcmStrings = {Repeat(core, UnrollTimes(core)) : core \in cores}
         /\ IsFiniteSet(LcmStrings)
<1>1. LcmStrings = {Unrolled(core, UnrollTimes(core)) : core \in cores}
  BY DEF LcmStrings, UnrollTimes, CommonLen
<1>2. \A core \in cores : Unrolled(core, UnrollTimes(core)) = Repeat(core, UnrollTimes(core))
  <2> TAKE core \in cores
  <2>1. Core(core) /\ UnrollTimes(core) \in Nat
    BY CoresAre
  <2> QED
    BY <2>1, UnrolledIs
<1> DEFINE f == [core \in cores |-> Repeat(core, UnrollTimes(core))]
           T == {Repeat(core, UnrollTimes(core)) : core \in cores}
<1>3. f \in Surjection(cores, T)
  BY DEF Surjection
<1>4. IsFiniteSet(T)
  BY <1>3, FS_Surjection DEF CoresOK
<1> QED
  BY <1>1, <1>2, <1>4

(* The strings that unroll every constant: their lengths are multiples of  *)
(* CommonLen, and they are fixed by their lengths.                         *)
Common(str) == \A core \in cores : \E k \in Nat : str = Repeat(core, k)

LEMMA CommonIs ==
  ASSUME CoresOK(cores), cores # {}, NEW low \in Nat, NEW high \in Nat
  PROVE  CommonUnrollings(low, high) = {str \in Seq(Nat) : Common(str) /\ Len(str) \in low .. high - 1}
<1>1. \A core \in cores : \A k \in Nat :
        /\ Unrolled(core, k) = Repeat(core, k)
        /\ Repeat(core, k) \in Seq(Nat) /\ k <= Len(Repeat(core, k)) /\ Len(Repeat(core, k)) \in Nat
  <2> TAKE core \in cores
  <2> TAKE k \in Nat
  <2>1. Core(core) /\ Len(core) \in Nat \ {0}
    BY CoresAre
  <2>2. Repeat(core, k) \in Seq(Nat) /\ Len(Repeat(core, k)) = k * Len(core)
    BY <2>1, RepeatIs
  <2>3. k <= k * Len(core)
    BY <2>1
  <2> QED
    BY <2>1, <2>2, <2>3, UnrolledIs
<1>2. ASSUME NEW str \in CommonUnrollings(low, high)
      PROVE  str \in Seq(Nat) /\ Common(str) /\ Len(str) \in low .. high - 1
  <2>1. PICK core \in cores, k \in 0 .. high - 1 : str = Unrolled(core, k)
    BY DEF CommonUnrollings
  <2>2. str \in Seq(Nat) /\ Len(str) \in Nat
    BY <1>1, <2>1
  <2>3. Len(str) \in low .. high - 1 /\ \A c \in cores : \E n \in 0 .. Len(str) : str = Unrolled(c, n)
    BY DEF CommonUnrollings
  <2> QED
    BY <1>1, <2>2, <2>3 DEF Common
<1>3. ASSUME NEW str \in Seq(Nat), Common(str), Len(str) \in low .. high - 1
      PROVE  str \in CommonUnrollings(low, high)
  <2>1. Len(str) \in Nat /\ Len(str) <= high - 1
    BY <1>3
  <2>2. ASSUME NEW core \in cores
        PROVE  \E k \in 0 .. Len(str) : str = Unrolled(core, k)
    <3>1. PICK k \in Nat : str = Repeat(core, k)
      BY <1>3 DEF Common
    <3>2. k \in 0 .. Len(str) /\ str = Unrolled(core, k)
      BY <1>1, <3>1
    <3> QED
      BY <3>2
  <2>3. PICK core \in cores : TRUE
    OBVIOUS
  <2>4. PICK k \in 0 .. Len(str) : str = Unrolled(core, k)
    BY <2>2
  <2>5. k \in 0 .. high - 1
    BY <2>1
  <2>6. str \in UNION {{Unrolled(c, n) : n \in 0 .. high - 1} : c \in cores}
    BY <2>4, <2>5
  <2> QED
    BY <1>3, <2>2, <2>6 DEF CommonUnrollings
<1> QED
  BY <1>2, <1>3

LEMMA CommonLength ==
  ASSUME CoresOK(cores), cores # {}, NEW str, Common(str)
  PROVE  str \in Seq(Nat) /\ \E n \in Nat : Len(str) = n * CommonLen
<1>1. ASSUME NEW core \in cores
      PROVE  str \in Seq(Nat) /\ Len(str) \in Nat /\ Divides(Len(core), Len(str))
  <2>1. Core(core) /\ Len(core) \in Nat \ {0}
    BY CoresAre
  <2>2. PICK k \in Nat : str = Repeat(core, k)
    BY DEF Common
  <2>3. Repeat(core, k) \in Seq(Nat) /\ Len(Repeat(core, k)) = k * Len(core)
    BY <2>1, RepeatIs
  <2> QED
    BY <2>1, <2>2, <2>3 DEF Divides
<1>2. str \in Seq(Nat) /\ Len(str) \in Nat
  BY <1>1
<1>3. Divides(CommonLen, Len(str))
  BY <1>1, <1>2, CoresAre
<1> QED
  BY <1>2, <1>3 DEF Divides

LEMMA CommonSame ==
  ASSUME CoresOK(cores), NEW str, Common(str), NEW n \in Nat, Len(str) = n * CommonLen,
         NEW core \in cores
  PROVE  str = Repeat(Repeat(core, UnrollTimes(core)), n)
<1> DEFINE L == Len(core)
           t == UnrollTimes(core)
           C == CommonLen
<1>1. Core(core) /\ L \in Nat \ {0} /\ t \in Nat \ {0} /\ t * L = C
  BY CoresAre
<1>2. PICK k \in Nat : str = Repeat(core, k)
  BY DEF Common
<1>3. Len(str) = k * L
  BY <1>1, <1>2, RepeatIs
<1>4. Len(str) = n * C
  OBVIOUS
<1>5. Repeat(Repeat(core, t), n) = Repeat(core, n * t)
  BY <1>1, RepeatTwice
<1> HIDE DEF L, t, C
<1>6. k * L = (n * t) * L /\ n * t \in Int
  BY <1>1, <1>3, <1>4, Times
<1>7. k = n * t
  BY <1>1, <1>6, Cancel
<1> QED
  BY <1>2, <1>5, <1>7 DEF t

LEMMA UnrolledToCommonLen ==
  ASSUME CoresOK(cores), NEW core \in cores
  PROVE  /\ Core(Repeat(core, UnrollTimes(core)))
         /\ Len(Repeat(core, UnrollTimes(core))) = CommonLen
BY CoresAre, RepeatIs

LEMMA RepeatFirst ==
  ASSUME NEW core, Core(core), NEW n \in Nat \ {0}, NEW p \in 1 .. Len(core)
  PROVE  Repeat(core, n)[p] = core[p]
<1> DEFINE L == Len(core)
<1>1. L \in Nat \ {0}
  BY CoreLength
<1>2. p \in 1 .. L
  OBVIOUS
<1>3. \A r \in 1 .. n * L : Repeat(core, n)[r] = core[((r - 1) % L) + 1]
  BY RepeatIs
<1> HIDE DEF L
<1>4. p \in 1 .. n * L
  <2>1. n * L >= L /\ n * L \in Nat
    BY <1>1, AtLeastOnce
  <2> QED
    BY <1>1, <1>2, <2>1
<1>5. p - 1 = L * 0 + (p - 1) /\ p - 1 \in 0 .. L - 1
  BY <1>1, <1>2
<1>6. (p - 1) % L = p - 1
  BY <1>1, <1>5, Divided
<1>7. ((p - 1) % L) + 1 = p
  BY <1>2, <1>6
<1> QED
  BY <1>3, <1>4, <1>7

(* If a string that is not empty unrolls all constants, they are the same  *)
(* when they are unrolled to their common length.                          *)
LEMMA CommonNeedsOne ==
  ASSUME CoresOK(cores), cores # {}, NEW str, Common(str), str # <<>>
  PROVE  Cardinality(LcmStrings) = 1
<1>1. PICK n \in Nat : str \in Seq(Nat) /\ Len(str) = n * CommonLen
  BY CommonLength
<1>2. CommonLen \in Nat \ {0}
  BY CoresAre
<1>3. n # 0
  <2>1. Len(str) # 0
    BY <1>1
  <2> QED
    BY <1>1, <1>2, <2>1
<1>4. ASSUME NEW c \in cores, NEW d \in cores
      PROVE  Repeat(c, UnrollTimes(c)) = Repeat(d, UnrollTimes(d))
  <2> DEFINE a == Repeat(c, UnrollTimes(c))
             b == Repeat(d, UnrollTimes(d))
             C == CommonLen
  <2>1. Core(a) /\ Len(a) = C /\ Core(b) /\ Len(b) = C
    BY UnrolledToCommonLen
  <2>2. str = Repeat(a, n) /\ str = Repeat(b, n)
    BY <1>1, CommonSame
  <2>3. C \in Nat
    BY <1>2
  <2> HIDE DEF a, b, C
  <2>4. ASSUME NEW p \in 1 .. C PROVE a[p] = b[p]
    <3>1. n \in Nat \ {0} /\ p \in 1 .. Len(a) /\ p \in 1 .. Len(b)
      BY <1>3, <2>1
    <3>2. str[p] = a[p]
      <4>1. Repeat(a, n)[p] = a[p]
        BY <2>1, <3>1, RepeatFirst
      <4> QED
        BY <2>2, <4>1
    <3>3. str[p] = b[p]
      <4>1. Repeat(b, n)[p] = b[p]
        BY <2>1, <3>1, RepeatFirst
      <4> QED
        BY <2>2, <4>1
    <3> QED
      BY <3>2, <3>3
  <2>5. a = b
    BY <2>1, <2>3, <2>4, SameSeq DEF Core
  <2> QED
    BY <2>5 DEF a, b
<1>5. PICK core \in cores : TRUE
  OBVIOUS
<1>6. LcmStrings = {Repeat(core, UnrollTimes(core))}
  <2>1. LcmStrings = {Repeat(c, UnrollTimes(c)) : c \in cores}
    BY LcmStringsAre
  <2>2. \A c \in cores : Repeat(c, UnrollTimes(c)) = Repeat(core, UnrollTimes(core))
    BY <1>4, <1>5
  <2> QED
    BY <1>5, <2>1, <2>2
<1> QED
  BY <1>6, FS_Singleton

(* The one string that the constants are when unrolled to CommonLen.       *)
LEMMA OneLcmString ==
  ASSUME CoresOK(cores), cores # {}, Cardinality(LcmStrings) = 1
  PROVE  /\ \A core \in cores : Repeat(core, UnrollTimes(core)) = OneOf(LcmStrings)
         /\ Core(OneOf(LcmStrings)) /\ Len(OneOf(LcmStrings)) = CommonLen
<1>1. /\ LcmStrings = {Repeat(c, UnrollTimes(c)) : c \in cores}
      /\ IsFiniteSet(LcmStrings)
  BY LcmStringsAre
<1>2. PICK x : LcmStrings = {x}
  BY <1>1, FS_Singleton
<1>3. OneOf(LcmStrings) = x
  BY <1>2 DEF OneOf
<1>4. \A c \in cores : Repeat(c, UnrollTimes(c)) = x
  BY <1>1, <1>2
<1>5. PICK core \in cores : TRUE
  OBVIOUS
<1>6. Core(Repeat(core, UnrollTimes(core))) /\ Len(Repeat(core, UnrollTimes(core))) = CommonLen
  BY <1>5, UnrolledToCommonLen
<1> QED
  BY <1>3, <1>4, <1>5, <1>6

LEMMA Scaled ==
  ASSUME NEW x \in Nat, NEW y \in Nat, NEW c \in Nat \ {0}
  PROVE  /\ x <= y => x * c <= y * c
         /\ x < y => x * c < y * c
         /\ x * c <= y * c => x <= y
         /\ x * c < y * c => x < y
OBVIOUS

(* The options of an unroll tester.                                        *)
LEMMA UnrollOptionsAre ==
  ASSUME CoresOK(cores), cores # {}, Cardinality(LcmStrings) = 1, NEW i \in Nat
  PROVE  LET low == i * UnrollStep * Len(OneOf(LcmStrings))
         IN  Range(UnrollOpts(OneOf(LcmStrings), i))
               = CommonUnrollings(low, low + UnrollStep * Len(OneOf(LcmStrings)))
<1> DEFINE s == OneOf(LcmStrings)
           C == CommonLen
           a == i * UnrollStep
           b == (i + 1) * UnrollStep
           low == a * C
           high == low + UnrollStep * C
<1>1. Core(s) /\ Len(s) = C /\ \A core \in cores : Repeat(core, UnrollTimes(core)) = s
  BY OneLcmString
<1>2. C \in Nat \ {0} /\ UnrollStep \in Nat \ {0}
  BY CoresAre, Constants
<1>3. \A core \in cores : Core(core) /\ UnrollTimes(core) \in Nat \ {0}
  BY CoresAre
<1> HIDE DEF s, C
<1>4. a \in Nat /\ b \in Nat /\ low \in Nat /\ high \in Nat /\ high = b * C
  <2>1. b = a + UnrollStep /\ a \in Nat /\ b \in Nat
    BY <1>2
  <2> HIDE DEF a, b
  <2>2. (a + UnrollStep) * C = (a * C) + (UnrollStep * C)
    BY <1>2, <2>1
  <2> QED
    BY <1>2, <2>1, <2>2
<1>5. UnrollOpts(s, i) = [n \in a .. b - 1 |-> Unrolled(s, n)]
  BY DEF UnrollOpts
<1> HIDE DEF a, b, low, high
<1>6. CommonUnrollings(low, high) = {str \in Seq(Nat) : Common(str) /\ Len(str) \in low .. high - 1}
  BY <1>4, CommonIs
<1>7. ASSUME NEW n \in a .. b - 1 PROVE Unrolled(s, n) \in CommonUnrollings(low, high)
  <2>1. n \in Nat /\ a <= n /\ n < b
    BY <1>4
  <2>2. Unrolled(s, n) = Repeat(s, n)
    BY <1>1, <2>1, UnrolledIs
  <2>3. Repeat(s, n) \in Seq(Nat) /\ Len(Repeat(s, n)) = n * C
    BY <1>1, <2>1, RepeatIs
  <2>4. ASSUME NEW core \in cores PROVE \E k \in Nat : Repeat(s, n) = Repeat(core, k)
    <3>1. Repeat(Repeat(core, UnrollTimes(core)), n) = Repeat(core, n * UnrollTimes(core))
      BY <1>3, <2>1, RepeatTwice
    <3>2. n * UnrollTimes(core) \in Nat
      BY <1>3, <2>1
    <3> QED
      BY <1>1, <3>1, <3>2
  <2>5. low <= n * C /\ n * C < high
    BY <1>2, <1>4, <2>1, Scaled DEF low
  <2>6. n * C \in low .. high - 1
    <3>1. n * C \in Nat
      BY <1>2, <2>1
    <3> QED
      BY <1>4, <2>5, <3>1
  <2> QED
    BY <1>6, <2>2, <2>3, <2>4, <2>6 DEF Common
<1>8. ASSUME NEW str \in CommonUnrollings(low, high)
      PROVE  \E n \in a .. b - 1 : str = Unrolled(s, n)
  <2>1. Common(str) /\ Len(str) \in low .. high - 1
    BY <1>6
  <2>2. PICK n \in Nat : Len(str) = n * C
    BY <2>1, CommonLength DEF C
  <2>3. n * C \in Nat
    BY <1>2
  <2>4. low <= n * C /\ n * C < high
    BY <1>4, <2>1, <2>2, <2>3
  <2>5. a <= n /\ n < b
    BY <1>2, <1>4, <2>4, Scaled DEF low
  <2>6. n \in a .. b - 1
    BY <1>4, <2>5
  <2>7. PICK core \in cores : TRUE
    OBVIOUS
  <2>8. str = Repeat(s, n)
    <3>1. Len(str) = n * CommonLen
      BY <2>2 DEF C
    <3>2. str = Repeat(Repeat(core, UnrollTimes(core)), n)
      BY <2>1, <2>7, <3>1, CommonSame
    <3> QED
      BY <1>1, <2>7, <3>2
  <2>9. Unrolled(s, n) = Repeat(s, n)
    BY <1>1, UnrolledIs
  <2> QED
    BY <2>6, <2>8, <2>9
<1>9. Range(UnrollOpts(s, i)) = {Unrolled(s, n) : n \in a .. b - 1}
  BY <1>5 DEF Range
<1>10. Range(UnrollOpts(s, i)) = CommonUnrollings(low, high)
  BY <1>7, <1>8, <1>9
<1> QED
  BY <1>1, <1>10 DEF s, C, a, low, high

(* The constants have no string in common but the empty one.               *)
LEMMA OnlyEmpty ==
  ASSUME CoresOK(cores), cores # {}, Cardinality(LcmStrings) # 1, NEW high \in Nat \ {0}
  PROVE  CommonUnrollings(0, high) = {<<>>}
<1>1. CommonUnrollings(0, high) = {str \in Seq(Nat) : Common(str) /\ Len(str) \in 0 .. high - 1}
  BY CommonIs
<1>2. \A str : Common(str) => str = <<>>
  BY CommonNeedsOne
<1>3. Common(<<>>)
  <2> SUFFICES ASSUME NEW core \in cores PROVE \E k \in Nat : <<>> = Repeat(core, k)
    BY DEF Common
  <2>1. Core(core) /\ Len(core) \in Nat
    BY CoresAre
  <2>2. Repeat(core, 0) \in Seq(Nat) /\ Len(Repeat(core, 0)) = 0
    BY <2>1, RepeatIs
  <2> QED
    BY <2>2
<1>4. <<>> \in Seq(Nat) /\ Len(<<>>) \in 0 .. high - 1
  OBVIOUS
<1> QED
  BY <1>1, <1>2, <1>3, <1>4

LEMMA MaxLenOfCores ==
  ASSUME CoresOK(cores), cores # {}
  PROVE  2 * Max({Len(core) : core \in cores}) + 1 \in Nat \ {0}
<1> DEFINE S == {Len(core) : core \in cores}
<1>1. ASSUME NEW core \in cores
      PROVE  Len(core) \in Nat /\ Len(core) <= CommonLen
  <2>1. /\ Len(core) \in Nat \ {0} /\ UnrollTimes(core) \in Nat \ {0}
        /\ UnrollTimes(core) * Len(core) = CommonLen
    BY CoresAre
  <2>2. UnrollTimes(core) * Len(core) >= Len(core)
    BY <2>1, AtLeastOnce
  <2> QED
    BY <2>1, <2>2
<1>2. CommonLen \in Nat
  BY CoresAre
<1>3. S \subseteq Nat /\ S # {} /\ \A d \in S : d <= CommonLen
  BY <1>1
<1> HIDE DEF S
<1>4. Max(S) \in Nat
  BY <1>2, <1>3, MaxOfBounded
<1>5. 2 * Max(S) + 1 \in Nat \ {0}
  BY <1>4
<1> QED
  BY <1>5 DEF S

(* genAssignUnrollStr2Reg and genUnrollAssign: the options of an unroll    *)
(* tester are all the strings, of the lengths it stands for, that unroll   *)
(* every constant; x is made empty only if there are none but <<>>.        *)
THEOREM UnrollsAreExact == Spec => []UnrollsExact
<1>1. Inv => UnrollsExact
  <2> SUFFICES ASSUME Inv, NEW a \in axioms
               PROVE  /\ IsUnrollTester(a.tester) =>
                           LET low == a.tester.pos * UnrollStep * Len(LcmStr)
                           IN Range(a.options) = CommonUnrollings(low, low + UnrollStep * Len(LcmStr))
                      /\ a.tester = NoTester =>
                           CommonUnrollings(0, 2 * Max({Len(core) : core \in cores}) + 1) = {<<>>}
    BY DEF UnrollsExact
  <2>1. /\ TablesOK(lenTesters, valRange, unrollTries) /\ sLevel \in Nat
        /\ AxiomOK(a, sLevel, lenTesters, valRange, unrollTries, LcmStrings)
        /\ CoresOK(cores)
    BY LevelNat DEF Inv
  <2>2. LcmStr = OneOf(LcmStrings)
    BY DEF LcmStr, OneOf
  <2>3. cores = {} => Cardinality(LcmStrings) # 1 /\ LcmStrings = {}
    BY <2>1, LcmStringsAre, FS_EmptySet
  <2>4. ASSUME IsUnrollTester(a.tester)
        PROVE  LET low == a.tester.pos * UnrollStep * Len(LcmStr)
               IN Range(a.options) = CommonUnrollings(low, low + UnrollStep * Len(LcmStr))
    <3>a. OfUnrollTester(a, unrollTries, LcmStrings)
      BY <2>4, AxiomsAre
    <3>1. Cardinality(LcmStrings) = 1
          /\ \E i \in 0 .. unrollTries - 1 : a = UnrollAxiom(a.level, i, OneOf(LcmStrings))
      BY <3>a DEF OfUnrollTester
    <3>2. PICK i \in 0 .. unrollTries - 1 : a = UnrollAxiom(a.level, i, OneOf(LcmStrings))
      BY <3>1
    <3> DEFINE l == a.level
    <3>3. a = UnrollAxiom(l, i, OneOf(LcmStrings))
      BY <3>2
    <3> HIDE DEF l
    <3>4. a.tester = UnrollTester(i) /\ a.options = UnrollOpts(OneOf(LcmStrings), i)
      BY <3>3, UnrollFields, SMTT(30)
    <3>5. a.tester.pos = i /\ i \in Nat
      BY <2>1, <3>4 DEF UnrollTester, TablesOK
    <3>6. cores # {}
      BY <2>3, <3>1
    <3> DEFINE s == OneOf(LcmStrings)
               low == i * UnrollStep * Len(s)
    <3>7. Range(UnrollOpts(s, i)) = CommonUnrollings(low, low + UnrollStep * Len(s))
      BY <2>1, <3>1, <3>5, <3>6, UnrollOptionsAre
    <3> QED
      BY <2>2, <3>4, <3>5, <3>7
  <2>5. ASSUME a.tester = NoTester
        PROVE  CommonUnrollings(0, 2 * Max({Len(core) : core \in cores}) + 1) = {<<>>}
    <3>1. Cardinality(LcmStrings) # 1 /\ LcmStrings # {}
      BY <2>5, AxiomsAre DEF OfNoTester
    <3>2. cores # {}
      BY <2>3, <3>1
    <3>3. 2 * Max({Len(core) : core \in cores}) + 1 \in Nat \ {0}
      BY <2>1, <3>2, MaxLenOfCores
    <3> QED
      BY <2>1, <3>1, <3>2, <3>3, OnlyEmpty
  <2> QED
    BY <2>4, <2>5
<1> QED
  BY <1>1, InvHolds, PTL

-----------------------------------------------------------------------------
(* The value of x is a string, and unrolls all the constants.              *)
InputOK ==
  /\ solution \in Seq(0 .. charSetSize - 1)
  /\ \A core \in cores : \E k \in Nat : solution = Unrolled(core, k)

(* It is at first, and the input never changes.                            *)
LEMMA InitInput == Init => InputOK
<1> SUFFICES ASSUME NEW i \in Inputs, cores = i.cores, solution = i.x
             PROVE  InputOK
  BY DEF Init
<1>1. solution \in Seq(0 .. charSetSize - 1) /\ Len(solution) \in Nat
  <2>1. solution \in Seq(0 .. charSetSize - 1)
    BY ConstantsAssumption
  <2> QED
    BY <2>1, LenProperties
<1>2. \A core \in cores : \E k \in 0 .. Len(solution) : solution = Unrolled(core, k)
  BY ConstantsAssumption
<1> QED
  BY <1>1, <1>2 DEF InputOK

LEMMA InputStays == InputOK /\ [Next]_vars => InputOK'
<1> SUFFICES ASSUME InputOK, [Next]_vars PROVE cores' = cores /\ solution' = solution
  BY DEF InputOK
<1> QED
  BY DEF Next, vars, input, CbFinalCheck, Follow, Guess, CbNewEq, CbPush, CbPop

LEMMA SolutionIsCommon ==
  ASSUME Inv, InputOK
  PROVE  Common(solution)
<1> SUFFICES ASSUME NEW core \in cores PROVE \E k \in Nat : solution = Repeat(core, k)
  BY DEF Common
<1>1. Core(core)
  BY CoresAre DEF Inv
<1>2. PICK k \in Nat : solution = Unrolled(core, k)
  BY DEF InputOK
<1> QED
  BY <1>1, <1>2, UnrolledIs

-----------------------------------------------------------------------------
(* What the solution asks of a tester; it is Right if it is an option.     *)
Wanted(a) == IF IsLenTester(a.tester) THEN Len(solution) ELSE solution

LEMMA RightIs ==
  ASSUME NEW a
  PROVE  \/ Right(a) = More /\ \A k \in DOMAIN a.options : a.options[k] # Wanted(a)
         \/ Right(a) \in DOMAIN a.options /\ a.options[Right(a)] = Wanted(a)
<1> DEFINE n == {k \in DOMAIN a.options : a.options[k] = Wanted(a)}
<1>1. Right(a) = IF n = {} THEN More ELSE CHOOSE k \in n : TRUE
  BY DEF Right, Wanted
<1>2. CASE n = {}
  BY <1>1, <1>2
<1>3. CASE n # {}
  BY <1>1, <1>3
<1> QED
  BY <1>2, <1>3

(* Unless a guess is refuted, a value is what the solution gives the tester.*)
LEMMA ValueIsRight ==
  ASSUME Inv, ~ Refuted, NEW t, ValueOf(t) # Unknown
  PROVE  \E c \in axioms : c.tester = t /\ Right(c) = ValueOf(t)
<1>1. PICK b \in values : b.tester = t /\ b.value = ValueOf(t)
  BY ValueIs
<1>2. PICK c \in axioms : c.tester = b.tester
  BY DEF Inv, ValueOK
<1>3. b.value = Right(c)
  BY <1>2 DEF Refuted
<1> QED
  BY <1>1, <1>2, <1>3

(* A length tester is "more" only if the length is not one of its own.     *)
LEMMA LenAxiomIn ==
  ASSUME Inv, NEW a \in axioms, NEW j, a.tester = LenTester(j)
  PROVE  /\ j \in 1 .. lenTesters /\ a.more
         /\ Right(a) = More => Len(solution) \notin Lengths(j)
         /\ Right(a) # More => Right(a) \in DOMAIN a.options /\ Right(a) = Len(solution)
<1>1. IsLenTester(a.tester)
  BY Testers
<1>2. PICK k \in 1 .. lenTesters : a = LenAxiom(a.level, k)
  BY <1>1, AxiomsAre DEF OfLenTester
<1> DEFINE l == a.level
<1>3. a = LenAxiom(l, k)
  BY <1>2
<1> HIDE DEF l
<1>4. a.tester = LenTester(k) /\ a.more /\ a.options = [n \in Lengths(k) |-> n]
  BY <1>3, LenFields, SMTT(30)
<1>5. k = j
  <2>1. LenTester(k) = LenTester(j)
    BY <1>4
  <2> QED
    BY <2>1, DifferentTesters, Zenon
<1>6. Wanted(a) = Len(solution)
  BY <1>1 DEF Wanted
<1>7. DOMAIN a.options = Lengths(j) /\ \A n \in Lengths(j) : a.options[n] = n
  BY <1>4, <1>5
<1>8. More \notin Lengths(j)
  <2>1. lenTesters \in Nat
    BY DEF Inv, TablesOK
  <2>2. j \in Nat \ {0}
    BY <1>2, <1>5, <2>1
  <2> QED
    BY <2>2, LengthsPositive
<1> QED
  BY <1>2, <1>4, <1>5, <1>6, <1>7, <1>8, RightIs

LEMMA LenKept ==
  ASSUME Inv, InputOK, ~ Refuted, NEW a \in axioms, IsLenTester(a.tester), Applies(a)
  PROVE  Right(a) \in Allowed(a) /\ (Right(a) = More => Len(solution) >= a.tester.pos * LenDistance)
<1>1. PICK j \in 1 .. lenTesters : a.tester = LenTester(j)
  <2>1. PICK j \in 1 .. lenTesters : a = LenAxiom(a.level, j)
    BY AxiomsAre DEF OfLenTester
  <2> DEFINE l == a.level
  <2>2. a = LenAxiom(l, j)
    BY <2>1
  <2> HIDE DEF l
  <2> QED
    BY <2>2, LenFields
<1>2. a.tester.pos = j /\ j \in Nat \ {0} /\ LenDistance \in Nat \ {0} /\ Len(solution) \in Nat
  <2>1. lenTesters \in Nat
    BY DEF Inv, TablesOK
  <2>2. Len(solution) \in Nat
    BY LenProperties DEF InputOK
  <2>3. a.tester.pos = j
    BY <1>1, Testers
  <2> QED
    BY <2>1, <2>2, <2>3, Constants
<1>3. Right(a) \in Allowed(a)
  BY <1>1, LenAxiomIn DEF Allowed
<1>4. ASSUME Right(a) = More PROVE Len(solution) >= j * LenDistance
  <2> SUFFICES ASSUME Len(solution) < j * LenDistance PROVE FALSE
    <3>1. j * LenDistance \in Nat
      BY <1>2
    <3> QED
      BY <1>2, <3>1
  <2> DEFINE m == j - 1
  <2>1. m \in Nat /\ m + 1 = j
    BY <1>2
  <2>2. Len(solution) < (m + 1) * LenDistance
    BY <2>1
  <2> HIDE DEF m
  <2>3. PICK k \in 0 .. m : k * LenDistance <= Len(solution) /\ Len(solution) < (k + 1) * LenDistance
    BY <1>2, <2>1, <2>2, BlockAmong
  <2>4. Len(solution) \in Lengths(k + 1)
    <3>1. k \in Nat /\ (k + 1) - 1 = k
      BY <2>1
    <3>2. k * LenDistance \in Nat /\ (k + 1) * LenDistance \in Nat
      BY <1>2, <3>1
    <3>3. Lengths(k + 1) = k * LenDistance .. (k + 1) * LenDistance - 1
      BY <3>1 DEF Lengths
    <3> QED
      BY <1>2, <2>3, <3>2, <3>3
  <2>5. PICK c \in axioms : c.tester = LenTester(k + 1) /\ Right(c) = More
    <3>1. CASE k = m
      BY <1>1, <1>4, <2>1, <3>1
    <3>2. CASE k # m
      <4>1. k + 1 \in 1 .. j - 1
        BY <1>2, <2>1, <3>2
      <4>2. ValueOf(LenTester(k + 1)) = More
        BY <1>2, <4>1 DEF Applies
      <4>3. More # Unknown
        BY DEF More, Unknown
      <4> QED
        BY <4>2, <4>3, ValueIsRight
    <3> QED
      BY <3>1, <3>2
  <2> QED
    BY <2>4, <2>5, LenAxiomIn
<1> QED
  BY <1>2, <1>3, <1>4

-----------------------------------------------------------------------------
(* A value tester is "more" only if no option of it is the solution.       *)
LEMMA ValAxiomIn ==
  ASSUME Inv, NEW len \in 0 .. MaxLen, NEW i, NEW a \in axioms, a.tester = ValTester(len, i),
         NEW e \in 0 .. Power[len] - 1, GenValString(len, e) = solution,
         i \in Nat, Start(i) <= e, e < Start(i + 1)
  PROVE  Right(a) # More /\ Right(a) \in DOMAIN a.options
<1>1. len \in Nat
  BY Constants
<1>2. a \in OfLength(len) /\ ~ IsLenTester(a.tester)
  BY <1>1, Testers DEF OfLength
<1>3. PICK k \in Nat : OfLengthIs(len, a, a.level, k)
  BY <1>2, AxiomsOfLength
<1>4. k = i
  BY <1>3, DifferentTesters DEF OfLengthIs
<1>5. a.options = Block(len, i) /\ Start(i) < Power[len]
  BY <1>3, <1>4 DEF OfLengthIs
<1>6. e \in DOMAIN Block(len, i)
  BY <1>1, <1>5, InBlock
<1>7. Block(len, i)[e] = solution
  BY <1>1, <1>5, <1>6, BlockIs
<1>8. Wanted(a) = solution
  BY <1>2 DEF Wanted
<1>9. More \notin DOMAIN Block(len, i)
  <2>1. DOMAIN Block(len, i) \subseteq 0 .. Power[len] - 1
    BY <1>1, <1>5, BlockIs
  <2> QED
    BY <2>1 DEF More
<1> QED
  BY <1>5, <1>6, <1>7, <1>8, <1>9, RightIs

LEMMA ValKept ==
  ASSUME Inv, InputOK, ~ Refuted, NEW a \in axioms, IsValTester(a.tester), Applies(a)
  PROVE  /\ Right(a) \in Allowed(a)
         /\ Right(a) = More =>
              \E n \in (a.tester.pos + 1) * ValDistance .. Power[a.tester.len] - 1 :
                GenValString(a.tester.len, n) = solution
<1>1. PICK j \in 1 .. lenTesters : \E m \in Lengths(j) : \E i \in 0 .. Len(valRange[m]) - 1 :
        m \in 0 .. MaxLen /\ a = ValAxiom(a.level, j, m, i)
  BY AxiomsAre DEF OfValTester
<1>2. PICK m \in Lengths(j) : \E i \in 0 .. Len(valRange[m]) - 1 :
        m \in 0 .. MaxLen /\ a = ValAxiom(a.level, j, m, i)
  BY <1>1
<1>3. PICK i \in 0 .. Len(valRange[m]) - 1 : m \in 0 .. MaxLen /\ a = ValAxiom(a.level, j, m, i)
  BY <1>2
<1> DEFINE l == a.level
<1>4. a = ValAxiom(l, j, m, i)
  BY <1>3
<1> HIDE DEF l
<1>5. a.tester = ValTester(m, i) /\ a.indicator = j
  BY <1>4, FieldsOf
<1>6. a.options = Block(m, i) /\ a.more = (Start(i + 1) < Power[m])
  BY <1>4, FieldsOf
<1>7. m \in Nat /\ m \in 0 .. MaxLen /\ i \in Nat /\ Start(i) < Power[m]
  <2>1. m \in Nat /\ Len(valRange[m]) \in Nat /\ Room(m, Len(valRange[m]))
    BY <1>3, Constants, MadeIs
  <2> QED
    BY <1>3, <2>1 DEF Room
<1>8. /\ IsValTester(a.tester) /\ ~ IsLenTester(a.tester) /\ a.tester.len = m /\ a.tester.pos = i
      /\ \A k : [a.tester EXCEPT !.pos = k] = ValTester(m, k)
  BY <1>5, <1>7, Testers
<1>9. Len(solution) = m
  <2>1. ValueOf(LenTester(j)) = m
    BY <1>5, <1>8 DEF Applies
  <2>2. m # Unknown /\ m # More
    BY <1>7 DEF Unknown, More
  <2>3. PICK c \in axioms : c.tester = LenTester(j) /\ Right(c) = m
    BY <2>1, <2>2, ValueIsRight
  <2> QED
    BY <2>2, <2>3, LenAxiomIn
<1>10. solution \in Strings(m)
  <2>1. solution \in Seq(0 .. charSetSize - 1)
    BY DEF InputOK
  <2> DEFINE S == 0 .. charSetSize - 1
  <2> HIDE DEF S
  <2>2. solution \in [1 .. Len(solution) -> S]
    <3>1. solution \in Seq(S)
      BY <2>1 DEF S
    <3> QED
      BY <3>1, LenProperties
  <2> QED
    BY <1>9, <2>2 DEF Strings, S
<1>11. PICK e \in 0 .. Power[m] - 1 : GenValString(m, e) = solution
  BY <1>7, <1>10, SomeEncoding
<1>12. e \in Nat /\ Power[m] \in Nat /\ Start(i + 1) \in Nat
  <2>1. i + 1 \in Nat
    BY <1>7
  <2>2. Start(i + 1) \in Nat
    BY <2>1, StartIs
  <2>3. Power[m] \in Nat
    BY <1>7, PowerPositive
  <2> QED
    BY <2>2, <2>3
<1>13. CASE e < Start(i + 1)
  <2>1. PICK k \in 0 .. i : Start(k) <= e /\ e < Start(k + 1)
    BY <1>7, <1>12, <1>13, BlockOf
  <2>2. k = i
    <3> SUFFICES ASSUME k # i PROVE FALSE
      OBVIOUS
    <3>1. k \in 0 .. i - 1 /\ k \in Nat
      BY <1>7
    <3>2. ValueOf(ValTester(m, k)) = More
      BY <1>8, <3>1 DEF Applies
    <3>3. More # Unknown
      BY DEF More, Unknown
    <3>4. PICK c \in axioms : c.tester = ValTester(m, k) /\ Right(c) = More
      BY <3>2, <3>3, ValueIsRight
    <3> QED
      BY <1>7, <1>11, <2>1, <3>1, <3>4, ValAxiomIn
  <2>3. Right(a) # More /\ Right(a) \in DOMAIN a.options
    BY <1>5, <1>7, <1>11, <2>1, <2>2, ValAxiomIn
  <2> QED
    BY <2>3 DEF Allowed
<1>14. CASE ~ (e < Start(i + 1))
  <2>1. Start(i + 1) < Power[m] /\ Start(i + 1) <= e
    BY <1>11, <1>12, <1>14
  <2>2. Right(a) \in Allowed(a)
    BY <1>6, <2>1, RightIs DEF Allowed
  <2>3. e \in Start(i + 1) .. Power[m] - 1
    BY <1>11, <1>12, <2>1
  <2> QED
    BY <1>8, <1>11, <2>2, <2>3 DEF Start
<1> QED
  BY <1>13, <1>14

-----------------------------------------------------------------------------
(* An unroll tester is "more" only if the solution unrolls the constants   *)
(* a number of times that is not one of its options.                       *)
LEMMA UnrollAxiomIn ==
  ASSUME Inv, NEW i \in Nat, NEW a \in axioms, a.tester = UnrollTester(i),
         NEW n \in Nat, solution = Unrolled(OneOf(LcmStrings), n),
         i * UnrollStep <= n, n < (i + 1) * UnrollStep
  PROVE  Right(a) # More
<1>1. IsUnrollTester(a.tester) /\ ~ IsLenTester(a.tester)
  BY Testers
<1>2. PICK k \in 0 .. unrollTries - 1 : a = UnrollAxiom(a.level, k, OneOf(LcmStrings))
  BY <1>1, AxiomsAre DEF OfUnrollTester
<1> DEFINE l == a.level
<1>3. a = UnrollAxiom(l, k, OneOf(LcmStrings))
  BY <1>2
<1> HIDE DEF l
<1>4. a.tester = UnrollTester(k) /\ a.options = UnrollOpts(OneOf(LcmStrings), k)
  BY <1>3, UnrollFields, SMTT(30)
<1>5. k = i
  <2>1. UnrollTester(k) = UnrollTester(i)
    BY <1>4
  <2> QED
    BY <2>1, DifferentTesters, Zenon
<1> DEFINE low == i * UnrollStep
           high == (i + 1) * UnrollStep
<1>6. low \in Nat /\ high \in Nat
  BY Constants
<1>7. a.options = [p \in low .. high - 1 |-> Unrolled(OneOf(LcmStrings), p)]
  BY <1>4, <1>5 DEF UnrollOpts
<1>8. low <= n /\ n < high
  OBVIOUS
<1>9. Wanted(a) = solution
  BY <1>1 DEF Wanted
<1> HIDE DEF low, high
<1>10. n \in DOMAIN a.options /\ a.options[n] = solution
  BY <1>6, <1>7, <1>8
<1>11. More \notin DOMAIN a.options
  BY <1>6, <1>7 DEF More
<1> QED
  BY <1>9, <1>10, <1>11, RightIs

LEMMA UnrollKept ==
  ASSUME Inv, InputOK, ~ Refuted, NEW a \in axioms, IsUnrollTester(a.tester), Applies(a)
  PROVE  /\ Right(a) \in Allowed(a)
         /\ Right(a) = More => Len(solution) >= (a.tester.pos + 1) * UnrollStep * Len(LcmStr)
<1>1. /\ Cardinality(LcmStrings) = 1
      /\ \E i \in 0 .. unrollTries - 1 : a = UnrollAxiom(a.level, i, OneOf(LcmStrings))
  BY AxiomsAre DEF OfUnrollTester
<1>2. PICK i \in 0 .. unrollTries - 1 : a = UnrollAxiom(a.level, i, OneOf(LcmStrings))
  BY <1>1
<1> DEFINE l == a.level
<1>3. a = UnrollAxiom(l, i, OneOf(LcmStrings))
  BY <1>2
<1> HIDE DEF l
<1>4. a.tester = UnrollTester(i) /\ a.more
  BY <1>3, UnrollFields, SMTT(30)
<1>5. Right(a) \in Allowed(a)
  BY <1>4, RightIs DEF Allowed
<1>6. /\ a.tester.pos = i /\ ~ IsLenTester(a.tester) /\ i \in Nat
      /\ \A k : [a.tester EXCEPT !.pos = k] = UnrollTester(k)
  <2>1. i \in Nat
    BY DEF Inv, TablesOK
  <2> QED
    BY <1>4, <2>1, Testers DEF UnrollTester
<1>7. CoresOK(cores) /\ cores # {}
  <2>1. CoresOK(cores)
    BY DEF Inv
  <2>2. cores = {} => LcmStrings = {}
    BY <2>1, LcmStringsAre
  <2> QED
    BY <1>1, <2>1, <2>2, FS_EmptySet
<1> DEFINE s == OneOf(LcmStrings)
           C == CommonLen
<1>8. Core(s) /\ Len(s) = C /\ C \in Nat \ {0} /\ UnrollStep \in Nat \ {0}
  BY <1>1, <1>7, OneLcmString, CoresAre, Constants
<1>9. PICK n \in Nat : Len(solution) = n * C
  BY <1>7, SolutionIsCommon, CommonLength
<1>10. solution = Unrolled(s, n)
  <2>1. PICK core \in cores : TRUE
    BY <1>7
  <2>2. solution = Repeat(Repeat(core, UnrollTimes(core)), n)
    BY <1>7, <1>9, <2>1, SolutionIsCommon, CommonSame
  <2>3. Repeat(core, UnrollTimes(core)) = s
    BY <1>1, <1>7, <2>1, OneLcmString
  <2> QED
    BY <1>8, <2>2, <2>3, UnrolledIs
<1> HIDE DEF C
<1>11. ASSUME Right(a) = More PROVE n >= (i + 1) * UnrollStep
  <2> SUFFICES ASSUME n < (i + 1) * UnrollStep PROVE FALSE
    <3>1. (i + 1) * UnrollStep \in Nat
      BY <1>6, <1>8
    <3> QED
      BY <3>1
  <2>1. PICK k \in 0 .. i : k * UnrollStep <= n /\ n < (k + 1) * UnrollStep
    BY <1>6, <1>8, BlockAmong
  <2>2. k \in Nat
    BY <1>6
  <2>3. PICK c \in axioms : c.tester = UnrollTester(k) /\ Right(c) = More
    <3>1. CASE k = i
      BY <1>4, <1>11, <3>1
    <3>2. CASE k # i
      <4>1. k \in 0 .. i - 1
        BY <1>6, <3>2
      <4>2. ValueOf(UnrollTester(k)) = More
        BY <1>6, <4>1 DEF Applies
      <4>3. More # Unknown
        BY DEF More, Unknown
      <4> QED
        BY <4>2, <4>3, ValueIsRight
    <3> QED
      BY <3>1, <3>2
  <2> QED
    BY <1>10, <2>1, <2>2, <2>3, UnrollAxiomIn
<1>12. ASSUME Right(a) = More PROVE Len(solution) >= (i + 1) * UnrollStep * C
  <2> DEFINE low == (i + 1) * UnrollStep
  <2>1. low \in Nat /\ low <= n
    BY <1>6, <1>8, <1>11, <1>12
  <2> HIDE DEF low
  <2>2. low * C <= n * C /\ low * C \in Nat /\ n * C \in Nat
    BY <1>8, <2>1, Scaled
  <2> QED
    BY <1>9, <2>2 DEF low, C
<1>13. Len(LcmStr) = C
  BY <1>8 DEF LcmStr, OneOf
<1> QED
  BY <1>5, <1>6, <1>12, <1>13

(* x is made empty only if its value is.                                   *)
LEMMA EmptyKept ==
  ASSUME Inv, InputOK, NEW a \in axioms, a.tester = NoTester
  PROVE  Right(a) \in Allowed(a) /\ Right(a) # More
<1>1. Cardinality(LcmStrings) # 1 /\ LcmStrings # {} /\ a = EmptyAxiom(a.level)
  BY AxiomsAre DEF OfNoTester
<1> DEFINE l == a.level
<1>2. a = EmptyAxiom(l)
  BY <1>1
<1> HIDE DEF l
<1>3. a.options = [n \in {0} |-> <<>>]
  BY <1>2, EmptyFields, SMTT(30)
<1>4. CoresOK(cores) /\ cores # {}
  <2>1. CoresOK(cores)
    BY DEF Inv
  <2>2. cores = {} => LcmStrings = {}
    BY <2>1, LcmStringsAre
  <2> QED
    BY <1>1, <2>1, <2>2
<1>5. solution = <<>>
  BY <1>1, <1>4, SolutionIsCommon, CommonNeedsOne
<1>6. Wanted(a) = <<>>
  BY <1>5, Testers DEF Wanted
<1>7. Right(a) \in DOMAIN a.options /\ Right(a) = 0
  BY <1>3, <1>6, RightIs
<1> QED
  BY <1>7 DEF Allowed, More

(* The axioms of genLenTestOptions, genValOptions and genUnrollAssign leave*)
(* the solution: unless a guess is refuted, what it gives a tester is what *)
(* the axiom allows, and "more" only if its option is a later tester's.    *)
THEOREM KeepsSolution == Spec => []SolutionKept
<1>1. Inv /\ InputOK => SolutionKept
  <2> SUFFICES ASSUME Inv, InputOK, ~ Refuted, NEW a \in axioms, Applies(a)
               PROVE  Right(a) \in Allowed(a) /\ (Right(a) = More => Beyond(a))
    BY DEF SolutionKept
  <2>1. CASE IsLenTester(a.tester)
    <3>1. Right(a) \in Allowed(a) /\ (Right(a) = More => Len(solution) >= a.tester.pos * LenDistance)
      BY <2>1, LenKept
    <3>2. ~ IsValTester(a.tester) /\ ~ IsUnrollTester(a.tester)
      BY <2>1 DEF IsLenTester, IsValTester, IsUnrollTester
    <3> QED
      BY <3>1, <3>2 DEF Beyond
  <2>2. CASE IsValTester(a.tester)
    <3>1. ~ IsLenTester(a.tester) /\ ~ IsUnrollTester(a.tester)
      BY <2>2 DEF IsLenTester, IsValTester, IsUnrollTester
    <3> QED
      BY <2>2, <3>1, ValKept DEF Beyond
  <2>3. CASE IsUnrollTester(a.tester)
    <3>1. ~ IsLenTester(a.tester) /\ ~ IsValTester(a.tester)
      BY <2>3 DEF IsLenTester, IsValTester, IsUnrollTester
    <3> QED
      BY <2>3, <3>1, UnrollKept DEF Beyond
  <2>4. CASE a.tester = NoTester
    BY <2>4, EmptyKept
  <2> QED
    BY <2>1, <2>2, <2>3, <2>4, OneKind
<1> QED
  BY <1>1, InitInput, InputStays, InvHolds, PTL DEF Spec

=============================================================================

---------------------- MODULE MultiFaultRepair_proofs ----------------------
(***************************************************************************)
(* Proofs about MultiFaultRepair, for every number of rules, layers, tests *)
(* and mutants of a position, and for both rankings.                       *)
(***************************************************************************)
EXTENDS MultiFaultRepair, FiniteSetTheorems, SequenceTheorems, WellFoundedInduction, TLAPS

Mutations == Int \X Int

Nodes == [file : Seq(Mutations), parent : Nat, total : Nat, layer : Nat,
          result : Results \cup {NotRun}]

(* What is known of a ranking, however it was made: it has positions, and  *)
(* only the last rule's may be listed twice, in random order.              *)
IsRanking(s) ==
  /\ s \in Seq(Positions \cup {-1}) /\ s # <<>>
  /\ \A p, q \in DOMAIN s : s[p] = s[q] /\ p # q =>
       search.method = "random" /\ s[p] = search.rules

-----------------------------------------------------------------------------
(* The inductive invariant, part by part.  The loop has a node at hand at  *)
(* every place but its head.                                               *)
AtHand == pc \notin {"search", "done"}

TypeInv ==
  /\ search \in Searches /\ pc \in Locations
  /\ nodes \in Seq(Nodes)
  /\ node \in 0 .. Len(nodes) /\ (AtHand => node # 0)
  /\ queue \subseteq DOMAIN nodes
  /\ \A f \in DOMAIN verdicts : verdicts[f] \in Results
  /\ \A f \in DOMAIN suspicion : IsRanking(suspicion[f])

(* A node is a mutant of a node made before it, which has been run.        *)
TreeInv ==
  \A i \in DOMAIN nodes :
    /\ nodes[i].parent \in 0 .. i - 1
    /\ nodes[i].layer = Len(nodes[i].file) /\ nodes[i].layer <= search.layers
    /\ nodes[i].parent = 0 => nodes[i].file = Original
    /\ nodes[i].parent # 0 =>
         /\ nodes[nodes[i].parent].result # NotRun
         /\ \E m \in Mutations : nodes[i].file = Append(nodes[nodes[i].parent].file, m)

(* While the loop is on, the nodes not run are those queued and the one    *)
(* just polled.                                                            *)
QueueInv ==
  /\ node \notin queue
  /\ pc # "done" => \A i \in DOMAIN nodes :
       nodes[i].result = NotRun <=> i \in queue \/ (i = node /\ pc = "run")

(* What has been run and dealt with fails, and was mutated if it should.   *)
HasChild(i) == \E j \in DOMAIN nodes : nodes[j].parent = i

Settled(i) ==
  /\ ~ AllPass(nodes[i].result)
  /\ Promising(nodes[i]) /\ ~ Deepest(nodes[i]) => HasChild(i)

SettledInv ==
  pc # "done" => \A i \in DOMAIN nodes :
    /\ nodes[i].result # NotRun /\ (i = node => pc = "search") => Settled(i)
    /\ i = node /\ AtHand => ~ HasChild(i)

(* Best first: what has been run is no dearer than the node at hand, and   *)
(* that no dearer than the nodes queued.                                   *)
OrderInv ==
  pc # "done" =>
    /\ \A i \in DOMAIN nodes, j \in queue :
         nodes[i].result # NotRun => nodes[i].total <= nodes[j].total
    /\ AtHand => /\ \A j \in queue : nodes[node].total <= nodes[j].total
                 /\ \A i \in DOMAIN nodes :
                      nodes[i].result # NotRun => nodes[i].total <= nodes[node].total

(* What the places between the run of a node and its mutation stand for.   *)
PlaceInv ==
  /\ pc \in {"judge", "rank", "expand"} => ~ AllPass(nodes[node].result)
  /\ pc \in {"judge", "rank", "expand"} => covered = {Policy(nodes[node])}
  /\ pc \in {"rank", "expand"} => Promising(nodes[node]) /\ ~ Deepest(nodes[node])
  /\ pc = "expand" => IsRanking(ranking)
  /\ pc = "expand" /\ search.method = "spectrum" =>
       Policy(nodes[node]) \in DOMAIN suspicion /\ ranking = suspicion[Policy(nodes[node])]
  /\ pc = "found" => /\ AllPass(nodes[node].result)
                     /\ Policy(nodes[node]) \in DOMAIN verdicts
                     /\ verdicts[Policy(nodes[node])] = nodes[node].result

(* Two nodes have one file only if a mutation was listed twice, and every  *)
(* node has a file.                                                        *)
Doubled(file) == \E k \in DOMAIN file : ListedTwice(file[k])

FileInv ==
  /\ \A i, j \in DOMAIN nodes : i # j /\ nodes[i].file = nodes[j].file => Doubled(nodes[i].file)
  /\ pc # "done" => \A i \in DOMAIN nodes : nodes[i].file \in DOMAIN disk

(* A mutant that can be told by its name is what its file holds, and the   *)
(* results of its nodes are what the suite says of it.                     *)
NameInv ==
  /\ pc # "done" => \A i \in DOMAIN nodes :
       Plain(nodes[i].file) => disk[nodes[i].file] = nodes[i].file
  /\ \A i \in DOMAIN nodes :
       nodes[i].result # NotRun /\ Plain(nodes[i].file) =>
         nodes[i].file \in DOMAIN verdicts /\ verdicts[nodes[i].file] = nodes[i].result

(* The answer is given once, and is right then.                            *)
DoneInv ==
  /\ pc # "done" => outcome.kind = "nothing yet"
  /\ pc = "done" => CheapestFirst /\ GaveUpExhausted /\ RepairKept

IInv == TypeInv /\ TreeInv /\ QueueInv /\ SettledInv /\ OrderInv /\ PlaceInv /\ FileInv /\ NameInv
        /\ DoneInv

-----------------------------------------------------------------------------
(* Rankings.                                                               *)
LEMMA SpectrumRankingsAreRankings ==
  ASSUME search \in Searches, NEW s \in SpectrumRankings
  PROVE  IsRanking(s)
<1>1. search.rules \in Nat
  BY SearchesAssumption
<1> DEFINE c == Cardinality(Positions)
<1>2. c = search.rules + 1
  BY <1>1, FS_Interval DEF Positions
<1>3. PICK t \in [1 .. c -> Positions] :
        /\ s = <<-1>> \o t
        /\ \A i, j \in 1 .. c : i # j => t[i] # t[j]
  BY DEF SpectrumRankings, SetToSeqs
<1>4. t \in Seq(Positions) /\ Len(t) = c
  BY <1>1, <1>2
<1>5. <<-1>> \in Seq({-1}) /\ Len(<<-1>>) = 1
  OBVIOUS
<1>6. /\ s \in Seq(Positions \cup {-1}) /\ Len(s) = c + 1 /\ s[1] = -1
      /\ \A i \in 2 .. c + 1 : s[i] = t[i - 1]
  BY <1>1, <1>2, <1>3, <1>4, <1>5
<1>7. -1 \notin Positions
  BY <1>1 DEF Positions
<1>8. ASSUME NEW p \in DOMAIN s, NEW q \in DOMAIN s, s[p] = s[q], p # q
      PROVE  FALSE
  <2>1. p \in 1 .. c + 1 /\ q \in 1 .. c + 1
    BY <1>6, <1>8
  <2>2. CASE p = 1
    BY <2>1, <2>2, <1>1, <1>2, <1>3, <1>6, <1>7, <1>8
  <2>3. CASE q = 1
    BY <2>1, <2>3, <1>1, <1>2, <1>3, <1>6, <1>7, <1>8
  <2>4. CASE p # 1 /\ q # 1
    BY <2>1, <2>4, <1>1, <1>2, <1>3, <1>6, <1>8
  <2> QED
    BY <2>2, <2>3, <2>4
<1> QED
  BY <1>1, <1>2, <1>6, <1>8 DEF IsRanking

LEMMA RandomRankingsAreRankings ==
  ASSUME search \in Searches, search.method = "random", NEW s \in RandomRankings
  PROVE  IsRanking(s)
<1>1. search.rules \in Nat
  BY SearchesAssumption
<1>2. s \in [1 .. search.rules + 3 -> Positions \cup {-1}]
  BY DEF RandomRankings
<1>3. ASSUME NEW p \in DOMAIN s, NEW q \in DOMAIN s, s[p] = s[q], p # q, s[p] # search.rules
      PROVE  FALSE
  <2> DEFINE S == {i \in DOMAIN s : s[i] = s[p]}
  <2>1. s[p] \in Positions \cup {-1}
    BY <1>2
  <2>2. Cardinality(S) = 1
    BY <2>1, <1>3 DEF RandomRankings
  <2>3. IsFiniteSet(DOMAIN s)
    BY <1>1, <1>2, FS_Interval
  <2>4. IsFiniteSet(S)
    BY <2>3, FS_Subset
  <2>5. PICK x : S = {x}
    BY <2>2, <2>4, FS_Singleton
  <2> QED
    BY <2>5, <1>3
<1> QED
  BY <1>1, <1>2, <1>3 DEF IsRanking

-----------------------------------------------------------------------------
(* The mutants of a node.                                                  *)
LEMMA DivMod ==
  ASSUME NEW k \in Nat, NEW v \in Nat \ {0}
  PROVE  k \div v \in Nat /\ k % v \in 0 .. v - 1 /\ k = v * (k \div v) + (k % v)
OBVIOUS

(* Two places in the listing differ in the position or in the variant.     *)
LEMMA PlacesDiffer ==
  ASSUME NEW k \in Nat \ {0}, NEW l \in Nat \ {0}, NEW v \in Nat \ {0}, k # l,
         (k - 1) % v = (l - 1) % v
  PROVE  (k - 1) \div v # (l - 1) \div v
<1>1. k - 1 = v * ((k - 1) \div v) + ((k - 1) % v)
  BY DivMod
<1>2. l - 1 = v * ((l - 1) \div v) + ((l - 1) % v)
  BY DivMod
<1> QED
  BY <1>1, <1>2

LEMMA PlaceInRanking ==
  ASSUME NEW n \in Nat, NEW v \in Nat \ {0}, NEW k \in 1 .. n * v
  PROVE  1 + ((k - 1) \div v) \in 1 .. n
<1> DEFINE r == (k - 1) \div v
<1>1. n * v \in Nat
  OBVIOUS
<1>2. k \in Nat \ {0} /\ k <= n * v
  BY <1>1
<1>3. r \in Nat /\ (k - 1) % v \in 0 .. v - 1 /\ k - 1 = v * r + ((k - 1) % v)
  <2>1. k - 1 \in Nat
    BY <1>2
  <2> QED
    BY ONLY <2>1, v \in Nat \ {0}, DivMod
<1>4. v * r <= k - 1
  BY <1>2, <1>3
<1>5. v * r < n * v
  BY <1>1, <1>2, <1>3, <1>4
<1>6. r < n
  <2> SUFFICES ASSUME r >= n PROVE FALSE
    BY <1>3
  <2>1. v * r >= v * n
    BY <1>3
  <2> QED
    BY <2>1, <1>3, <1>5
<1> QED
  BY <1>3, <1>6

LEMMA ChildFields ==
  ASSUME TypeInv, TreeInv, PlaceInv, pc = "expand", NEW k \in DOMAIN Children
  PROVE  /\ k \in 1 .. Len(ranking) * Variants
         /\ \E r \in DOMAIN ranking, v \in Nat :
              /\ r = RankOf(k) /\ v = VariantOf(k)
              /\ ranking[r] \in Positions \cup {-1}
              /\ Children[k] = Node(Append(nodes[node].file, Mutation(ranking[r], v)), node,
                                    nodes[node].total + r, nodes[node].layer + 1)
<1>1. k \in 1 .. Len(ranking) * Variants
  BY DEF Children
<1>2. IsRanking(ranking)
  BY DEF PlaceInv
<1>3. ranking \in Seq(Positions \cup {-1}) /\ Len(ranking) \in Nat
  BY <1>2 DEF IsRanking
<1> DEFINE r == RankOf(k)
           v == VariantOf(k)
<1> USE DEF RankOf, VariantOf
<1>4. r \in 1 .. Len(ranking)
  BY <1>1, <1>3, PlaceInRanking, SuiteAssumption
<1>5. v \in Nat
  <2>1. k - 1 \in Nat
    BY <1>1
  <2>2. (k - 1) % Variants \in 0 .. Variants - 1
    BY <2>1, DivMod, SuiteAssumption
  <2> QED
    BY <2>2, SuiteAssumption
<1>6. r \in DOMAIN ranking /\ ranking[r] \in Positions \cup {-1}
  BY <1>3, <1>4
<1>7. Children[k] = Node(Append(nodes[node].file, Mutation(ranking[r], v)), node,
                         nodes[node].total + r, nodes[node].layer + 1)
  BY <1>1 DEF Children
<1> HIDE DEF r, v
<1>8. r = RankOf(k) /\ v = VariantOf(k)
  BY DEF r, v
<1> QED
  BY <1>1, <1>5, <1>6, <1>7, <1>8

LEMMA ChildrenTyped ==
  ASSUME TypeInv, TreeInv, PlaceInv, pc = "expand"
  PROVE  /\ Children \in Seq(Nodes) /\ Len(Children) \in Nat \ {0}
         /\ \A k \in DOMAIN Children :
              /\ Children[k].parent = node
              /\ Children[k].total >= nodes[node].total
              /\ Children[k].layer = Len(Children[k].file) /\ Children[k].layer <= search.layers
              /\ Children[k].result = NotRun
              /\ \E m \in Mutations : Children[k].file = Append(nodes[node].file, m)
<1>1. IsRanking(ranking) /\ ~ Deepest(nodes[node])
  BY DEF PlaceInv
<1>2. Len(ranking) \in Nat \ {0}
  BY <1>1 DEF IsRanking
<1>3. Len(ranking) * Variants \in Nat \ {0}
  BY <1>2, SuiteAssumption
<1>4. nodes[node] \in Nodes /\ node \in DOMAIN nodes
  BY DEF TypeInv, AtHand
<1>5. nodes[node].layer = Len(nodes[node].file)
  BY <1>4 DEF TreeInv
<1>6. search.rules \in Nat /\ search.layers \in Nat
  BY SearchesAssumption DEF TypeInv
<1>7. ASSUME NEW k \in DOMAIN Children
      PROVE  /\ Children[k] \in Nodes
             /\ Children[k].parent = node
             /\ Children[k].total >= nodes[node].total
             /\ Children[k].layer = Len(Children[k].file) /\ Children[k].layer <= search.layers
             /\ Children[k].result = NotRun
             /\ \E m \in Mutations : Children[k].file = Append(nodes[node].file, m)
  <2>1. PICK r \in DOMAIN ranking, v \in Nat :
          /\ ranking[r] \in Positions \cup {-1}
          /\ Children[k] = Node(Append(nodes[node].file, Mutation(ranking[r], v)), node,
                                nodes[node].total + r, nodes[node].layer + 1)
    BY ChildFields
  <2>2. r \in Nat
    BY <1>1 DEF IsRanking
  <2>3. Mutation(ranking[r], v) \in Mutations
    BY <1>6, <2>1 DEF Positions, Mutation, Change, Mutations
  <2> DEFINE m == Mutation(ranking[r], v)
  <2> HIDE DEF m
  <2>4. m \in Mutations /\ Children[k] = Node(Append(nodes[node].file, m), node,
                                nodes[node].total + r, nodes[node].layer + 1)
    BY <2>1, <2>3 DEF m
  <2>5. /\ nodes[node].file \in Seq(Mutations) /\ nodes[node].layer \in Nat
        /\ nodes[node].total \in Nat /\ node \in Nat
    BY <1>4 DEF Nodes, TypeInv
  <2>6. /\ Append(nodes[node].file, m) \in Seq(Mutations)
        /\ Len(Append(nodes[node].file, m)) = Len(nodes[node].file) + 1
    BY <2>4, <2>5
  <2>7. nodes[node].layer + 1 <= search.layers
    BY <1>1, <1>6, <2>5 DEF Deepest
  <2>8. /\ Children[k].file = Append(nodes[node].file, m) /\ Children[k].parent = node
        /\ Children[k].total = nodes[node].total + r
        /\ Children[k].layer = nodes[node].layer + 1 /\ Children[k].result = NotRun
    BY <2>4 DEF Node
  <2>9. nodes[node].total + r \in Nat /\ nodes[node].layer + 1 \in Nat
    BY <2>2, <2>5
  <2>10. Children[k] \in Nodes
    BY <2>4, <2>5, <2>6, <2>9 DEF Node, Nodes
  <2> QED
    BY <2>2, <2>4, <2>5, <2>6, <2>7, <2>8, <2>10, <1>5
<1>8. Children = [k \in 1 .. Len(ranking) * Variants |-> Children[k]]
  BY DEF Children
<1>9. Children \in [1 .. Len(ranking) * Variants -> Nodes]
  BY <1>7, <1>8
<1> HIDE DEF Children
<1>10. Children \in Seq(Nodes) /\ Len(Children) = Len(ranking) * Variants
  BY <1>3, <1>9
<1> QED
  BY <1>3, <1>7, <1>10

LEMMA SameFile ==
  ASSUME NEW a \in Seq(Mutations), NEW b \in Seq(Mutations),
         NEW m \in Mutations, NEW o \in Mutations, Append(a, m) = Append(b, o)
  PROVE  a = b /\ m = o
BY AppendInjective

(* Two mutants of a node have one file only if a mutation is listed twice. *)
LEMMA ChildrenApart ==
  ASSUME TypeInv, TreeInv, PlaceInv, pc = "expand",
         NEW k \in DOMAIN Children, NEW l \in DOMAIN Children, k # l,
         Children[k].file = Children[l].file
  PROVE  Doubled(Children[k].file)
<1>1. PICK r \in DOMAIN ranking, v \in Nat :
        /\ r = RankOf(k) /\ v = VariantOf(k)
        /\ ranking[r] \in Positions \cup {-1}
        /\ Children[k] = Node(Append(nodes[node].file, Mutation(ranking[r], v)), node,
                              nodes[node].total + r, nodes[node].layer + 1)
  BY ChildFields
<1>2. PICK q \in DOMAIN ranking, w \in Nat :
        /\ q = RankOf(l) /\ w = VariantOf(l)
        /\ ranking[q] \in Positions \cup {-1}
        /\ Children[l] = Node(Append(nodes[node].file, Mutation(ranking[q], w)), node,
                              nodes[node].total + q, nodes[node].layer + 1)
  BY ChildFields
<1>3. /\ k \in 1 .. Len(ranking) * Variants /\ l \in 1 .. Len(ranking) * Variants
      /\ IsRanking(ranking) /\ Len(ranking) \in Nat
  BY ChildFields DEF PlaceInv, IsRanking
<1>4. k \in Nat \ {0} /\ l \in Nat \ {0}
  BY <1>3, SuiteAssumption
<1> DEFINE m == Mutation(ranking[r], v)
           o == Mutation(ranking[q], w)
<1>5. nodes[node].file \in Seq(Mutations) /\ search.rules \in Nat
  <2>1. nodes[node] \in Nodes
    BY DEF TypeInv, AtHand
  <2> QED
    BY <2>1, SearchesAssumption DEF TypeInv, Nodes
<1>6. m \in Mutations /\ o \in Mutations
  BY <1>1, <1>2, <1>5 DEF Mutation, Change, Mutations, Positions
<1>7. Append(nodes[node].file, m) = Append(nodes[node].file, o)
  BY <1>1, <1>2 DEF Node
<1>8. m = o
  <2> HIDE DEF m, o
  <2> QED
    BY <1>5, <1>6, <1>7, SameFile
<1>9. v = w
  BY <1>8 DEF Mutation, Change
<1>10. r # q
  <2>1. (k - 1) % Variants = (l - 1) % Variants
    <3>1. k - 1 \in Nat /\ l - 1 \in Nat
      BY <1>4
    <3>2. (k - 1) % Variants \in Int /\ (l - 1) % Variants \in Int
      BY <3>1, SuiteAssumption
    <3> QED
      BY <3>2, <1>1, <1>2, <1>9 DEF VariantOf
  <2>2. (k - 1) \div Variants # (l - 1) \div Variants
    BY <2>1, <1>4, PlacesDiffer, SuiteAssumption
  <2>3. (k - 1) \div Variants \in Int /\ (l - 1) \div Variants \in Int
    BY <1>4, SuiteAssumption
  <2> QED
    BY <2>2, <2>3, <1>1, <1>2 DEF RankOf
<1>11. ListedTwice(m)
  <2> DEFINE Named(p, x) == p \in search.compares /\ x \in IntegerCCF
  <2>1. m[1] = (IF Named(ranking[r], v) THEN -1 ELSE IF ranking[r] = -1 THEN 0 ELSE ranking[r])
    BY DEF Mutation, Change
  <2>2. o[1] = (IF Named(ranking[q], w) THEN -1 ELSE IF ranking[q] = -1 THEN 0 ELSE ranking[q])
    BY DEF Mutation, Change
  <2>3. m[1] = o[1]
    BY <1>8
  <2>4. ranking[r] \in Positions \cup {-1} /\ ranking[q] \in Positions \cup {-1}
    BY <1>1, <1>2
  <2>5. ranking[r] = ranking[q] => search.method = "random" /\ ranking[r] = search.rules
    BY <1>3, <1>10 DEF IsRanking
  <2> HIDE DEF m, o
  <2>6. CASE m[1] = -1
    <3>1. Named(ranking[r], v) /\ Named(ranking[q], w)
      BY <2>1, <2>2, <2>3, <2>4, <2>6, <1>5 DEF Positions
    <3> QED
      BY <2>5, <2>6, <3>1 DEF ListedTwice
  <2>7. CASE m[1] # -1
    <3>1. /\ m[1] = (IF ranking[r] = -1 THEN 0 ELSE ranking[r])
          /\ o[1] = (IF ranking[q] = -1 THEN 0 ELSE ranking[q])
      BY <2>1, <2>2, <2>3, <2>7
    <3> QED
      BY <2>3, <2>4, <2>5, <3>1, <1>5 DEF ListedTwice, Positions
  <2> QED
    BY <2>6, <2>7
<1>12. /\ Children[k].file = Append(nodes[node].file, m)
       /\ Len(nodes[node].file) + 1 \in DOMAIN Append(nodes[node].file, m)
       /\ Append(nodes[node].file, m)[Len(nodes[node].file) + 1] = m
  <2>1. Children[k].file = Append(nodes[node].file, m)
    BY <1>1 DEF Node
  <2> HIDE DEF m
  <2> QED
    BY <2>1, <1>5, <1>6
<1> QED
  BY <1>11, <1>12 DEF Doubled

(* Of the mutants with one name there is a last.                           *)
LEMMA LastExists ==
  ASSUME NEW n \in Nat, NEW S \in SUBSET (1 .. n), S # {}
  PROVE  \E k \in S : \A l \in S : l <= k
<1>a. \A k \in S : k \in Nat /\ n - k \in Nat
  OBVIOUS
<1> DEFINE T == {n - k : k \in S}
<1>2. T \subseteq Nat /\ T # {}
  BY ONLY <1>a, S # {}
<1> DEFINE R == OpToRel(<, Nat)
<1>1. IsWellFoundedOn(R, Nat)
  BY NatLessThanWellFounded
<1> HIDE DEF R
<1>3. PICK x \in T : \A y \in T : ~ (<<y, x>> \in R)
  BY <1>1, <1>2, WFMin
<1>4. PICK k \in S : x = n - k
  OBVIOUS
<1>5. ASSUME NEW l \in S, k < l PROVE FALSE
  <2>1. n - l \in T
    OBVIOUS
  <2>3. n - l \in Nat /\ n - k \in Nat /\ n - l < n - k
    BY ONLY <1>a, <1>5, n \in Nat, k \in S, l \in S
  <2>2. <<n - l, n - k>> \in R
    BY <2>3 DEF R, OpToRel
  <2> QED
    BY <1>3, <1>4, <2>1, <2>2
<1> QED
  BY <1>a, <1>5

(* What is on disk when the mutants of a node are written: all of them and *)
(* what was there; under a name that tells its mutant, that mutant.        *)
LEMMA WrittenIs ==
  ASSUME TypeInv, TreeInv, PlaceInv, NameInv, pc = "expand"
  PROVE  /\ DOMAIN Written = DOMAIN disk \cup {Children[k].file : k \in DOMAIN Children}
         /\ \A f \in DOMAIN disk :
              f \notin {Children[k].file : k \in DOMAIN Children} => Written[f] = disk[f]
         /\ \A k \in DOMAIN Children :
              Plain(Children[k].file) => Written[Children[k].file] = Children[k].file
<1> DEFINE new == {Children[k].file : k \in DOMAIN Children}
<1>1. node \in DOMAIN nodes /\ nodes[node].file \in Seq(Mutations) /\ search.rules \in Nat
  <2>1. nodes[node] \in Nodes /\ node \in DOMAIN nodes
    BY DEF TypeInv, AtHand
  <2> QED
    BY <2>1, SearchesAssumption DEF TypeInv, Nodes
<1>2. ASSUME NEW k \in DOMAIN Children, Plain(Children[k].file)
      PROVE  Written[Children[k].file] = Children[k].file
  <2> DEFINE f == Children[k].file
             l == LastNamed(f)
             S == {j \in DOMAIN Children : Children[j].file = f}
  <2>1. S \in SUBSET (1 .. Len(Children)) /\ S # {} /\ Len(Children) \in Nat
    <3>1. Children \in Seq(Nodes)
      BY ChildrenTyped
    <3> HIDE DEF Children
    <3> QED
      BY <3>1
  <2>2. \E j \in S : \A h \in S : h <= j
    <3> HIDE DEF S
    <3> QED
      BY <2>1, LastExists
  <2>3. l \in DOMAIN Children /\ Children[l].file = f
    <3>1. \E j \in DOMAIN Children : /\ Children[j].file = f
                                     /\ \A h \in DOMAIN Children : Children[h].file = f => h <= j
      BY <2>2
    <3> HIDE DEF Children
    <3> QED
      BY <3>1 DEF LastNamed
  <2>4. Written[f] = Append(Policy(nodes[node]), Change(ranking[RankOf(l)], VariantOf(l)))
    <3> HIDE DEF Children, LastNamed
    <3> QED
      BY DEF Written
  <2> HIDE DEF l
  <2>5. PICK r \in DOMAIN ranking, v \in Nat :
          /\ r = RankOf(l) /\ v = VariantOf(l)
          /\ ranking[r] \in Positions \cup {-1}
          /\ Children[l] = Node(Append(nodes[node].file, Mutation(ranking[r], v)), node,
                                nodes[node].total + r, nodes[node].layer + 1)
    BY <2>3, ChildFields
  <2> DEFINE m == Mutation(ranking[r], v)
             c == Change(ranking[r], v)
  <2>6. m \in Mutations
    BY <1>1, <2>5 DEF Mutation, Change, Mutations, Positions
  <2>7. m[1] # -1 => m = c
    BY DEF Mutation
  <2> HIDE DEF m, c
  <2>8. f = Append(nodes[node].file, m)
    BY <2>3, <2>5 DEF Node, m
  <2> HIDE DEF f
  <2>9. /\ Len(nodes[node].file) + 1 \in DOMAIN f /\ f[Len(nodes[node].file) + 1] = m
        /\ \A i \in DOMAIN nodes[node].file : i \in DOMAIN f /\ f[i] = nodes[node].file[i]
    BY <1>1, <2>6, <2>8, AppendProperties
  <2>10. Plain(f)
    BY <1>2 DEF f
  <2>11. m = c /\ Plain(nodes[node].file)
    BY <2>7, <2>9, <2>10 DEF Plain
  <2>12. Policy(nodes[node]) = nodes[node].file
    BY <1>1, <2>11 DEF NameInv, Policy
  <2>13. Written[f] = Append(nodes[node].file, c)
    BY <2>4, <2>5, <2>12 DEF c
  <2> QED
    BY <2>8, <2>11, <2>13 DEF f
<1> HIDE DEF Children
<1>3. /\ DOMAIN Written = DOMAIN disk \cup new
      /\ \A f \in DOMAIN disk : f \notin new => Written[f] = disk[f]
  BY DEF Written
<1> QED
  BY <1>2, <1>3

-----------------------------------------------------------------------------
LEMMA InitInv == Init => IInv
<1> SUFFICES ASSUME Init PROVE IInv
  OBVIOUS
<1>1. search.layers \in Nat
  BY SearchesAssumption DEF Init
<1>2. Node(Original, 0, 0, 0) \in Nodes
  BY DEF Node, Nodes, Original, NotRun
<1>3. nodes \in Seq(Nodes) /\ Len(nodes) = 1 /\ nodes[1] = Node(Original, 0, 0, 0)
  <2> DEFINE n == Node(Original, 0, 0, 0)
  <2>1. n \in Nodes /\ nodes = <<n>>
    BY <1>2 DEF Init
  <2> HIDE DEF n
  <2>2. nodes \in Seq(Nodes) /\ Len(nodes) = 1 /\ nodes[1] = n
    BY <2>1
  <2> QED
    BY <2>2 DEF n
<1>4. DOMAIN nodes = {1}
  BY <1>3
<1>5. /\ nodes[1].file = Original /\ nodes[1].parent = 0 /\ nodes[1].total = 0
      /\ nodes[1].layer = 0 /\ nodes[1].result = NotRun
  BY <1>3 DEF Node
<1>6. TypeInv
  <2>1. DOMAIN verdicts = {} /\ DOMAIN suspicion = {}
    BY DEF Init
  <2>2. node = 0 /\ queue = {1}
    BY DEF Init
  <2>3. node \in 0 .. Len(nodes) /\ queue \subseteq DOMAIN nodes
    BY <1>3, <1>4, <2>2
  <2> QED
    BY <1>3, <2>1, <2>3 DEF Init, TypeInv, Locations, AtHand
<1>7. TreeInv
  BY <1>1, <1>4, <1>5 DEF TreeInv, Original
<1>8. QueueInv /\ SettledInv /\ OrderInv /\ PlaceInv
  <2>1. pc = "search" /\ queue = {1} /\ node = 0
    BY DEF Init
  <2> QED
    BY <1>4, <1>5, <2>1 DEF QueueInv, SettledInv, OrderInv, PlaceInv, AtHand
<1>9. FileInv /\ NameInv /\ DoneInv
  <2>1. disk = [f \in {Original} |-> Original] /\ pc = "search" /\ outcome.kind = "nothing yet"
    BY DEF Init, Returned
  <2> QED
    BY <1>4, <1>5, <2>1 DEF FileInv, NameInv, DoneInv
<1> QED
  BY <1>6, <1>7, <1>8, <1>9 DEF IInv

LEMMA PollInv == IInv /\ Poll => IInv'
<1> SUFFICES ASSUME IInv, Poll PROVE IInv'
  OBVIOUS
<1> USE DEF IInv, Poll, known
<1>1. PICK i \in queue : (\A j \in queue : nodes[i].total <= nodes[j].total)
                         /\ node' = i /\ queue' = queue \ {i}
  OBVIOUS
<1>2. i \in DOMAIN nodes /\ i \in 1 .. Len(nodes)
  BY DEF TypeInv
<1>3. TypeInv'
  BY <1>1, <1>2 DEF TypeInv, Locations, AtHand, IsRanking, Positions
<1>4. TreeInv'
  BY DEF TreeInv
<1>5. QueueInv'
  BY <1>1 DEF QueueInv, TypeInv
<1>6. nodes[i].result = NotRun
  BY <1>1, <1>2 DEF QueueInv
<1>7. ~ HasChild(i)
  BY <1>2, <1>6 DEF HasChild, TreeInv, TypeInv
<1>8. SettledInv'
  BY <1>1, <1>2, <1>6, <1>7 DEF SettledInv, Settled, HasChild, Promising, Deepest, AtHand
<1>9. OrderInv'
  BY <1>1, <1>2 DEF OrderInv, AtHand
<1>10. PlaceInv'
  BY DEF PlaceInv, Policy
<1>11. FileInv' /\ NameInv'
  BY DEF FileInv, NameInv, Doubled, ListedTwice
<1>12. DoneInv'
  BY DEF DoneInv
<1> QED
  BY <1>3, <1>4, <1>5, <1>8, <1>9, <1>10, <1>11, <1>12

LEMMA DiscardInv == IInv /\ Discard => IInv'
<1> SUFFICES ASSUME IInv, Discard PROVE IInv'
  OBVIOUS
<1> USE DEF IInv, Discard, known
<1>1. TypeInv'
  BY DEF TypeInv, Locations, AtHand, IsRanking, Positions
<1>2. TreeInv'
  BY DEF TreeInv
<1>3. QueueInv'
  BY DEF QueueInv
<1>4. Settled(node)
  BY DEF Settled, PlaceInv
<1>5. SettledInv'
  BY <1>4 DEF SettledInv, Settled, HasChild, Promising, Deepest, AtHand
<1>6. OrderInv'
  BY DEF OrderInv, AtHand
<1>7. PlaceInv'
  BY DEF PlaceInv, Policy
<1>8. FileInv' /\ NameInv'
  BY DEF FileInv, NameInv, Doubled, ListedTwice
<1>9. DoneInv'
  BY DEF DoneInv
<1> QED
  BY <1>1, <1>2, <1>3, <1>5, <1>6, <1>7, <1>8, <1>9

LEMMA SuspectInv == IInv /\ Suspect => IInv'
<1> SUFFICES ASSUME IInv, Suspect PROVE IInv'
  OBVIOUS
<1> USE DEF IInv, Suspect, known
<1>1. TypeInv'
  BY DEF TypeInv, Locations, AtHand, IsRanking, Positions
<1>2. TreeInv'
  BY DEF TreeInv
<1>3. QueueInv'
  BY DEF QueueInv
<1>4. SettledInv'
  BY DEF SettledInv, Settled, HasChild, Promising, Deepest, AtHand
<1>5. OrderInv'
  BY DEF OrderInv, AtHand
<1>6. PlaceInv'
  BY DEF PlaceInv, Policy, Promising, Deepest
<1>7. FileInv' /\ NameInv'
  BY DEF FileInv, NameInv, Doubled, ListedTwice
<1>8. DoneInv'
  BY DEF DoneInv
<1> QED
  BY <1>1, <1>2, <1>3, <1>4, <1>5, <1>6, <1>7, <1>8

(* What a run of the suite changes: the result of the node at hand.        *)
LEMMA WithResult ==
  ASSUME NEW F, NEW R, NEW n \in [file : F, parent : Nat, total : Nat, layer : Nat, result : R],
         NEW r \in R
  PROVE  /\ [n EXCEPT !.result = r] \in [file : F, parent : Nat, total : Nat, layer : Nat, result : R]
         /\ [n EXCEPT !.result = r].file = n.file /\ [n EXCEPT !.result = r].parent = n.parent
         /\ [n EXCEPT !.result = r].total = n.total /\ [n EXCEPT !.result = r].layer = n.layer
         /\ [n EXCEPT !.result = r].result = r
OBVIOUS

LEMMA RunTestsInv == IInv /\ RunTests => IInv'
<1> SUFFICES ASSUME IInv, RunTests PROVE IInv'
  OBVIOUS
<1> USE DEF IInv
<1> DEFINE file == nodes[node].file
<1> DEFINE policy == Policy(nodes[node])
<1>1. PICK r \in (IF policy \in DOMAIN verdicts THEN {verdicts[policy]} ELSE Results) :
        /\ verdicts' = [f \in DOMAIN verdicts \cup {policy} |-> IF f = policy THEN r ELSE verdicts[f]]
        /\ nodes' = [nodes EXCEPT ![node].result = r]
        /\ pc' = IF AllPass(r) THEN "found" ELSE "judge"
  BY DEF RunTests
<1>2. /\ pc = "run" /\ nodes[node].result = NotRun /\ covered' = {policy}
      /\ UNCHANGED <<search, queue, node, ranking, disk, outcome, suspicion>>
  BY DEF RunTests
<1>3. r \in Results
  BY <1>1 DEF TypeInv
<1>4. r # NotRun
  <2>1. DOMAIN r = 1 .. Tests /\ 1 \in DOMAIN r
    BY <1>3, SuiteAssumption DEF Results
  <2>2. DOMAIN NotRun = {}
    BY DEF NotRun
  <2> QED
    BY <2>1, <2>2
<1>5. node \in DOMAIN nodes /\ node \in Nat \ {0} /\ nodes \in Seq(Nodes)
  BY <1>2 DEF TypeInv, AtHand
<1> DEFINE n == [nodes[node] EXCEPT !.result = r]
<1>a. /\ n \in Nodes /\ n.file = file /\ n.parent = nodes[node].parent
      /\ n.total = nodes[node].total /\ n.layer = nodes[node].layer /\ n.result = r
  <2>1. nodes[node] \in Nodes /\ r \in Results \cup {NotRun}
    BY <1>3, <1>5
  <2> QED
    BY <2>1, WithResult DEF Nodes
<1>b. nodes' = [nodes EXCEPT ![node] = n]
  BY <1>1
<1> HIDE DEF n
<1>6. nodes' \in Seq(Nodes) /\ Len(nodes') = Len(nodes) /\ DOMAIN nodes' = DOMAIN nodes
  BY <1>5, <1>a, <1>b, ExceptSeq
<1>7. /\ DOMAIN nodes' = DOMAIN nodes /\ Len(nodes') = Len(nodes)
      /\ \A i \in DOMAIN nodes :
           /\ nodes'[i].file = nodes[i].file /\ nodes'[i].parent = nodes[i].parent
           /\ nodes'[i].total = nodes[i].total /\ nodes'[i].layer = nodes[i].layer
           /\ nodes'[i].result = IF i = node THEN r ELSE nodes[i].result
  <2>1. \A i \in DOMAIN nodes : nodes'[i] = IF i = node THEN n ELSE nodes[i]
    BY <1>5, <1>b
  <2> QED
    BY <1>6, <1>a, <2>1
<1>8. pc' \in {"found", "judge"} /\ (pc' = "found" <=> AllPass(r)) /\ (pc' = "judge" <=> ~ AllPass(r))
  BY <1>1
<1>9. TypeInv'
  <2>1. \A f \in DOMAIN verdicts' : verdicts'[f] \in Results
    BY <1>1, <1>3 DEF TypeInv
  <2> QED
    BY <1>2, <1>5, <1>7, <1>6, <1>8, <2>1 DEF TypeInv, Locations, AtHand, IsRanking, Positions
<1>10. TreeInv'
  <2> SUFFICES ASSUME NEW i \in DOMAIN nodes
               PROVE  /\ nodes'[i].parent \in 0 .. i - 1
                      /\ nodes'[i].layer = Len(nodes'[i].file) /\ nodes'[i].layer <= search.layers
                      /\ nodes'[i].parent = 0 => nodes'[i].file = Original
                      /\ nodes'[i].parent # 0 =>
                           /\ nodes'[nodes'[i].parent].result # NotRun
                           /\ \E m \in Mutations :
                                nodes'[i].file = Append(nodes'[nodes'[i].parent].file, m)
    BY <1>2, <1>7 DEF TreeInv
  <2>1. nodes[i].parent # 0 => nodes[i].parent \in DOMAIN nodes
    BY <1>5 DEF TreeInv
  <2>2. /\ nodes[i].parent \in 0 .. i - 1
        /\ nodes[i].layer = Len(nodes[i].file) /\ nodes[i].layer <= search.layers
        /\ nodes[i].parent = 0 => nodes[i].file = Original
    BY DEF TreeInv
  <2>3. nodes[i].parent # 0 =>
          /\ nodes[nodes[i].parent].result # NotRun
          /\ \E m \in Mutations : nodes[i].file = Append(nodes[nodes[i].parent].file, m)
    BY DEF TreeInv
  <2> HIDE DEF IInv
  <2>4. nodes'[i].file = nodes[i].file /\ nodes'[i].parent = nodes[i].parent
        /\ nodes'[i].layer = nodes[i].layer
    BY <1>7
  <2>5. ASSUME nodes[i].parent # 0
        PROVE  /\ nodes'[nodes[i].parent].result # NotRun
               /\ nodes'[nodes[i].parent].file = nodes[nodes[i].parent].file
    BY <1>4, <1>7, <2>1, <2>3, <2>5
  <2> QED
    BY ONLY <2>2, <2>3, <2>4, <2>5
<1>11. QueueInv'
  <2>1. node \notin queue
    BY DEF QueueInv
  <2> QED
    BY <1>2, <1>4, <1>7, <1>8, <2>1 DEF QueueInv
<1>12. \A i \in DOMAIN nodes : HasChild(i)' <=> HasChild(i)
  BY <1>7 DEF HasChild
<1>13. \A i \in DOMAIN nodes : i # node /\ nodes[i].result # NotRun => (Settled(i)' <=> Settled(i))
  <2> SUFFICES ASSUME NEW i \in DOMAIN nodes, i # node, nodes[i].result # NotRun
               PROVE  Settled(i)' <=> Settled(i)
    OBVIOUS
  <2>1. nodes[i].parent # 0 => nodes[i].parent \in DOMAIN nodes /\ nodes[i].parent # node
    BY <1>2, <1>5 DEF TreeInv
  <2>2. AllPass(nodes[i].result)' <=> AllPass(nodes[i].result)
    BY <1>7
  <2>3. Promising(nodes[i])' <=> Promising(nodes[i])
    BY <1>7, <2>1 DEF Promising
  <2>4. Deepest(nodes[i])' <=> Deepest(nodes[i])
    BY <1>2, <1>7 DEF Deepest
  <2> QED
    BY <2>2, <2>3, <2>4, <1>12 DEF Settled
<1>14. SettledInv'
  BY <1>2, <1>5, <1>7, <1>8, <1>12, <1>13 DEF SettledInv, AtHand
<1>15. OrderInv'
  <2>1. queue \subseteq DOMAIN nodes /\ nodes[node].total \in Nat
    <3>1. nodes[node] \in Nodes
      BY <1>5
    <3> QED
      BY <3>1 DEF TypeInv, Nodes
  <2>2. /\ \A i \in DOMAIN nodes, j \in queue :
             nodes[i].result # NotRun => nodes[i].total <= nodes[j].total
        /\ \A j \in queue : nodes[node].total <= nodes[j].total
        /\ \A i \in DOMAIN nodes :
             nodes[i].result # NotRun => nodes[i].total <= nodes[node].total
    BY <1>2 DEF OrderInv, AtHand
  <2>3. \A i \in DOMAIN nodes, j \in queue :
          nodes'[i].result # NotRun => nodes'[i].total <= nodes'[j].total
    BY <1>7, <2>1, <2>2
  <2>4. /\ \A j \in queue : nodes'[node].total <= nodes'[j].total
        /\ \A i \in DOMAIN nodes : nodes'[i].result # NotRun => nodes'[i].total <= nodes'[node].total
    BY <1>5, <1>7, <2>1, <2>2
  <2> HIDE DEF IInv
  <2> QED
    BY <1>2, <1>7, <2>3, <2>4 DEF OrderInv
<1>16. PlaceInv'
  <2>1. nodes'[node].file = file /\ nodes'[node].result = r
    BY <1>5, <1>7
  <2>2. policy \in DOMAIN verdicts' /\ verdicts'[policy] = r
    BY <1>1
  <2>3. (Policy(nodes[node]))' = policy
    BY <1>2, <2>1 DEF Policy
  <2> HIDE DEF IInv, file, policy
  <2> QED
    BY <1>2, <1>8, <2>1, <2>2, <2>3 DEF PlaceInv
<1>17. FileInv'
  BY <1>2, <1>7, <1>8 DEF FileInv, Doubled, ListedTwice
<1>19. NameInv'
  <2>1. ASSUME NEW i \in DOMAIN nodes, nodes'[i].result # NotRun, Plain(nodes[i].file)
        PROVE  nodes[i].file \in DOMAIN verdicts' /\ verdicts'[nodes[i].file] = nodes'[i].result
    <3>1. CASE i = node
      <4>1. policy = nodes[i].file
        BY <1>2, <2>1, <3>1 DEF NameInv, Policy
      <4> QED
        BY <1>1, <1>7, <3>1, <4>1
    <3>2. CASE i # node
      <4>1. nodes'[i].result = nodes[i].result
        BY <1>7, <3>2
      <4>2. nodes[i].file \in DOMAIN verdicts /\ verdicts[nodes[i].file] = nodes[i].result
        BY <2>1, <4>1 DEF NameInv
      <4> HIDE DEF policy
      <4> QED
        BY <1>1, <4>1, <4>2
    <3> QED
      BY <3>1, <3>2
  <2> QED
    BY <1>2, <1>7, <1>8, <2>1 DEF NameInv
<1>18. DoneInv'
  BY <1>2, <1>8 DEF DoneInv
<1> QED
  BY <1>9, <1>10, <1>11, <1>14, <1>15, <1>16, <1>17, <1>18, <1>19

LEMMA TestsBreakInv == IInv /\ TestsBreak => IInv'
<1> SUFFICES ASSUME IInv, TestsBreak PROVE IInv'
  OBVIOUS
<1> USE DEF IInv
<1>1. /\ pc = "run" /\ pc' = "done" /\ outcome' = Returned("threw", Original)
      /\ UNCHANGED <<search, nodes, queue, node, ranking, covered, disk, verdicts, suspicion>>
  BY DEF TestsBreak, known
<1>2. TypeInv'
  BY <1>1 DEF TypeInv, Locations, AtHand, IsRanking, Positions
<1>3. TreeInv'
  BY <1>1 DEF TreeInv
<1>4. QueueInv' /\ SettledInv' /\ OrderInv' /\ PlaceInv'
  BY <1>1 DEF QueueInv, SettledInv, OrderInv, PlaceInv
<1>5. FileInv' /\ NameInv'
  BY <1>1 DEF FileInv, NameInv, Doubled, ListedTwice
<1>6. outcome'.kind = "threw"
  BY <1>1 DEF Returned
<1>7. CheapestFirst'
  BY <1>1, <1>6 DEF OrderInv, CheapestFirst
<1>8. DoneInv'
  BY <1>1, <1>6, <1>7 DEF DoneInv, GaveUpExhausted, RepairKept
<1> QED
  BY <1>2, <1>3, <1>4, <1>5, <1>8

LEMMA RankBySpectrumInv == IInv /\ RankBySpectrum => IInv'
<1> SUFFICES ASSUME IInv, RankBySpectrum PROVE IInv'
  OBVIOUS
<1> USE DEF IInv
<1>1. /\ pc = "rank" /\ search.method = "spectrum" /\ pc' = "expand"
      /\ UNCHANGED <<search, nodes, queue, node, covered, disk, outcome, verdicts>>
  BY DEF RankBySpectrum
<1> DEFINE policy == Policy(nodes[node])
<1>2. covered = {policy}
  BY <1>1 DEF PlaceInv
<1>3. PICK s \in (IF policy \in DOMAIN suspicion THEN {suspicion[policy]} ELSE SpectrumRankings) :
        /\ ranking' = s
        /\ suspicion' = [g \in DOMAIN suspicion \cup {policy} |-> IF g = policy THEN s ELSE suspicion[g]]
  BY <1>2 DEF RankBySpectrum
<1> HIDE DEF policy
<1>4. IsRanking(s)
  BY <1>3, SpectrumRankingsAreRankings DEF TypeInv
<1>5. \A t : IsRanking(t)' <=> IsRanking(t)
  BY <1>1 DEF IsRanking, Positions
<1>6. TypeInv'
  <2>1. \A f \in DOMAIN suspicion' : IsRanking(suspicion'[f])
    BY <1>3, <1>4 DEF TypeInv
  <2> QED
    BY <1>1, <1>5, <2>1 DEF TypeInv, Locations, AtHand
<1>7. TreeInv'
  BY <1>1 DEF TreeInv
<1>8. QueueInv'
  BY <1>1 DEF QueueInv
<1>9. SettledInv'
  BY <1>1 DEF SettledInv, Settled, HasChild, Promising, Deepest, AtHand
<1>10. OrderInv'
  BY <1>1 DEF OrderInv, AtHand
<1>11. PlaceInv'
  <2>1. policy \in DOMAIN suspicion' /\ suspicion'[policy] = s
    BY <1>3
  <2>2. IsRanking(ranking')
    BY <1>3, <1>4
  <2>3. Promising(nodes[node]) /\ ~ Deepest(nodes[node]) /\ ~ AllPass(nodes[node].result)
    BY <1>1 DEF PlaceInv
  <2>4. Promising(nodes'[node']) <=> Promising(nodes[node])
    BY <1>1
  <2>5. (Promising(nodes[node]))' /\ (~ Deepest(nodes[node]))' /\ (~ AllPass(nodes[node].result))'
    BY <1>1, <2>3 DEF Promising, Deepest
  <2>6. IsRanking(ranking)'
    BY <1>1, <2>2 DEF IsRanking, Positions
  <2>7. (Policy(nodes[node]))' = policy
    BY <1>1 DEF Policy, policy
  <2> QED
    BY <1>1, <1>2, <1>3, <2>1, <2>5, <2>6, <2>7 DEF PlaceInv
<1>12. FileInv' /\ NameInv'
  BY <1>1 DEF FileInv, NameInv, Doubled, ListedTwice
<1>13. DoneInv'
  BY <1>1 DEF DoneInv
<1> QED
  BY <1>6, <1>7, <1>8, <1>9, <1>10, <1>11, <1>12, <1>13

LEMMA RankAtRandomInv == IInv /\ RankAtRandom => IInv'
<1> SUFFICES ASSUME IInv, RankAtRandom PROVE IInv'
  OBVIOUS
<1> USE DEF IInv
<1>1. /\ pc = "rank" /\ search.method = "random" /\ pc' = "expand"
      /\ ranking' \in RandomRankings
      /\ UNCHANGED <<search, nodes, queue, node, covered, disk, outcome, verdicts, suspicion>>
  BY DEF RankAtRandom, known
<1>2. IsRanking(ranking')
  BY <1>1, RandomRankingsAreRankings DEF TypeInv
<1>3. IsRanking(ranking)'
  BY <1>1, <1>2 DEF IsRanking, Positions
<1>4. TypeInv'
  BY <1>1 DEF TypeInv, Locations, AtHand, IsRanking, Positions
<1>5. TreeInv'
  BY <1>1 DEF TreeInv
<1>6. QueueInv'
  BY <1>1 DEF QueueInv
<1>7. SettledInv'
  BY <1>1 DEF SettledInv, Settled, HasChild, Promising, Deepest, AtHand
<1>8. OrderInv'
  BY <1>1 DEF OrderInv, AtHand
<1>9. PlaceInv'
  BY <1>1, <1>3 DEF PlaceInv, Policy, Promising, Deepest
<1>10. FileInv' /\ NameInv'
  BY <1>1 DEF FileInv, NameInv, Doubled, ListedTwice
<1>11. DoneInv'
  BY <1>1 DEF DoneInv
<1> QED
  BY <1>4, <1>5, <1>6, <1>7, <1>8, <1>9, <1>10, <1>11

LEMMA ReturnRepairInv == IInv /\ ReturnRepair => IInv'
<1> SUFFICES ASSUME IInv, ReturnRepair PROVE IInv'
  OBVIOUS
<1> USE DEF IInv
<1>1. /\ pc = "found" /\ pc' = "done" /\ disk' = CleanUp /\ queue' = {}
      /\ outcome' = Returned("repair", nodes[node].file)
      /\ UNCHANGED <<search, nodes, node, ranking, covered, verdicts, suspicion>>
  BY DEF ReturnRepair, known
<1>2. node \in DOMAIN nodes
  BY <1>1 DEF TypeInv, AtHand
<1>3. TypeInv'
  BY <1>1 DEF TypeInv, Locations, AtHand, IsRanking, Positions
<1>4. TreeInv'
  BY <1>1 DEF TreeInv
<1>5. QueueInv' /\ SettledInv' /\ OrderInv' /\ PlaceInv'
  BY <1>1 DEF QueueInv, SettledInv, OrderInv, PlaceInv
<1>6. FileInv' /\ NameInv'
  BY <1>1 DEF FileInv, NameInv, Doubled, ListedTwice
<1>7. outcome'.kind = "repair" /\ outcome'.file = nodes[node].file
  BY <1>1 DEF Returned
<1>8. CheapestFirst'
  <2>1. ASSUME NEW i \in DOMAIN nodes, nodes[i].total < nodes[node].total
        PROVE  ~ AllPass(nodes[i].result)
    <3>1. nodes[i] \in Nodes /\ nodes[node] \in Nodes
      BY <1>2 DEF TypeInv
    <3>2. nodes[i].total \in Nat /\ nodes[node].total \in Nat
      BY <3>1 DEF Nodes
    <3>3. i \notin queue /\ i # node
      BY <1>1, <2>1, <3>2 DEF OrderInv, AtHand
    <3>4. nodes[i].result # NotRun
      BY <1>1, <3>3 DEF QueueInv
    <3> QED
      BY <1>1, <3>3, <3>4 DEF SettledInv, Settled
  <2> QED
    BY <1>1, <2>1 DEF CheapestFirst
<1>9. RepairKept'
  <2> PICK f : f = nodes[node].file
    OBVIOUS
  <2> DEFINE gone == {nodes[i].file : i \in queue}
  <2>1. f \in DOMAIN disk
    BY <1>1, <1>2 DEF FileInv
  <2>2. DOMAIN disk' = DOMAIN disk \ gone /\ (f \notin gone => disk'[f] = disk[f])
    BY <1>1, <2>1 DEF CleanUp, Without
  <2>3. f \in DOMAIN disk' => AllPass(verdicts[disk'[f]])
    BY <1>1, <2>1, <2>2 DEF PlaceInv, Policy
  <2>4. \A i \in DOMAIN nodes : nodes[i].result = NotRun <=> i \in queue
    BY <1>1 DEF QueueInv
  <2>5. node \notin queue /\ queue \subseteq DOMAIN nodes
    BY DEF QueueInv, TypeInv
  <2>6. Plain(f) => f \in DOMAIN verdicts /\ AllPass(verdicts[f])
    BY <1>1, <1>2, <2>4, <2>5 DEF NameInv, PlaceInv
  <2>7. f \in DOMAIN disk' <=> \A i \in DOMAIN nodes : nodes[i].file = f => nodes[i].result # NotRun
    BY <2>1, <2>2, <2>4, <2>5
  <2>8. f \in DOMAIN disk' \/ Doubled(f)
    <3>1. ASSUME NEW i \in queue, nodes[i].file = f PROVE Doubled(f)
      BY <1>2, <2>5, <3>1 DEF FileInv
    <3> QED
      BY <2>1, <2>2, <3>1
  <2>9. outcome'.file = f
    BY <1>7
  <2> HIDE DEF gone, IInv
  <2>10. Doubled(f) => \E k \in DOMAIN f : ListedTwice(f[k])'
    BY <1>1 DEF Doubled, ListedTwice
  <2> QED
    BY <1>1, <2>3, <2>6, <2>7, <2>8, <2>9, <2>10, f = nodes[node].file DEF RepairKept
<1>10. DoneInv'
  BY <1>1, <1>7, <1>8, <1>9 DEF DoneInv, GaveUpExhausted
<1> QED
  BY <1>3, <1>4, <1>5, <1>6, <1>10

LEMMA GiveUpInv == IInv /\ GiveUp => IInv'
<1> SUFFICES ASSUME IInv, GiveUp PROVE IInv'
  OBVIOUS
<1> USE DEF IInv
<1>1. /\ pc = "search" /\ pc' = "done" /\ queue = {}
      /\ outcome' = Returned("null", Original)
      /\ UNCHANGED <<search, nodes, queue, node, ranking, covered, disk, verdicts, suspicion>>
  BY DEF GiveUp, known
<1>2. TypeInv'
  BY <1>1 DEF TypeInv, Locations, AtHand, IsRanking, Positions
<1>3. TreeInv'
  BY <1>1 DEF TreeInv
<1>4. QueueInv' /\ SettledInv' /\ OrderInv' /\ PlaceInv'
  BY <1>1 DEF QueueInv, SettledInv, OrderInv, PlaceInv
<1>5. FileInv' /\ NameInv'
  BY <1>1 DEF FileInv, NameInv, Doubled, ListedTwice
<1>6. outcome'.kind = "null"
  BY <1>1 DEF Returned
<1>7. \A i \in DOMAIN nodes : nodes[i].result # NotRun /\ Settled(i)
  BY <1>1 DEF QueueInv, SettledInv
<1>8. GaveUpExhausted'
  <2>1. \A i \in DOMAIN nodes : Plain(nodes[i].file) =>
          nodes[i].file \in DOMAIN verdicts /\ ~ AllPass(verdicts[nodes[i].file])
    BY <1>7 DEF NameInv, Settled
  <2> QED
    BY <1>1, <1>7, <2>1 DEF GaveUpExhausted, Settled, HasChild, Promising, Deepest
<1>9. CheapestFirst'
  BY <1>1, <1>6 DEF CheapestFirst
<1>10. DoneInv'
  BY <1>1, <1>6, <1>8, <1>9 DEF DoneInv, RepairKept
<1> QED
  BY <1>2, <1>3, <1>4, <1>5, <1>10

(* Children extend the list of nodes; what was true of the nodes remains.  *)
LEMMA ExpandInv == IInv /\ Expand => IInv'
<1> SUFFICES ASSUME IInv, Expand PROVE IInv'
  OBVIOUS
<1> USE DEF IInv
<1> DEFINE C == Children
           n == Len(nodes)
<1>1. /\ pc = "expand" /\ pc' = "search" /\ ranking' = <<>>
      /\ nodes' = nodes \o C
      /\ queue' = queue \cup (n + 1 .. n + Len(C))
      /\ disk' = Written
      /\ UNCHANGED <<search, node, covered, outcome, verdicts, suspicion>>
  BY DEF Expand, known
<1>2. /\ C \in Seq(Nodes) /\ Len(C) \in Nat \ {0}
      /\ \A k \in DOMAIN C :
           /\ C[k].parent = node /\ C[k].total >= nodes[node].total
           /\ C[k].layer = Len(C[k].file) /\ C[k].layer <= search.layers
           /\ C[k].result = NotRun
           /\ \E m \in Mutations : C[k].file = Append(nodes[node].file, m)
  BY <1>1, ChildrenTyped
<1>3. \A k, l \in DOMAIN C : k # l /\ C[k].file = C[l].file => Doubled(C[k].file)
  BY <1>1, ChildrenApart
<1>a. /\ DOMAIN disk' = DOMAIN disk \cup {C[k].file : k \in DOMAIN C}
      /\ \A f \in DOMAIN disk : f \notin {C[k].file : k \in DOMAIN C} => disk'[f] = disk[f]
      /\ \A k \in DOMAIN C : Plain(C[k].file) => disk'[C[k].file] = C[k].file
  BY <1>1, WrittenIs
<1> HIDE DEF C
<1>4. nodes \in Seq(Nodes) /\ n \in Nat /\ node \in DOMAIN nodes /\ node \in Nat \ {0}
  BY <1>1 DEF TypeInv, AtHand
<1> HIDE DEF n
<1>5. DOMAIN nodes = 1 .. n /\ DOMAIN C = 1 .. Len(C)
  BY <1>2, <1>4 DEF n
<1>6. /\ nodes' \in Seq(Nodes) /\ Len(nodes') = n + Len(C) /\ DOMAIN nodes' = 1 .. n + Len(C)
      /\ \A i \in 1 .. n : nodes'[i] = nodes[i]
      /\ \A i \in n + 1 .. n + Len(C) : i - n \in DOMAIN C /\ nodes'[i] = C[i - n]
  BY <1>1, <1>2, <1>4 DEF n
<1>7. \A i \in DOMAIN nodes' : i \in DOMAIN nodes \/ i \in n + 1 .. n + Len(C)
  BY <1>2, <1>4, <1>5, <1>6
<1>8. DOMAIN nodes \subseteq DOMAIN nodes' /\ \A i \in n + 1 .. n + Len(C) : i \notin DOMAIN nodes
  BY <1>2, <1>4, <1>5, <1>6
<1>9. \A i \in DOMAIN nodes : nodes'[i] = nodes[i]
  BY <1>5, <1>6
(* What a child is, under its number.                                      *)
<1>10. \A i \in n + 1 .. n + Len(C) :
         /\ i \in DOMAIN nodes' /\ i \notin DOMAIN nodes
         /\ nodes'[i].parent = node /\ nodes'[i].total >= nodes[node].total
         /\ nodes'[i].layer = Len(nodes'[i].file) /\ nodes'[i].layer <= search.layers
         /\ nodes'[i].result = NotRun /\ nodes'[i] \in Nodes
         /\ \E m \in Mutations : nodes'[i].file = Append(nodes[node].file, m)
  <2> SUFFICES ASSUME NEW i \in n + 1 .. n + Len(C)
               PROVE  /\ i \in DOMAIN nodes' /\ i \notin DOMAIN nodes
                      /\ nodes'[i].parent = node /\ nodes'[i].total >= nodes[node].total
                      /\ nodes'[i].layer = Len(nodes'[i].file)
                      /\ nodes'[i].layer <= search.layers
                      /\ nodes'[i].result = NotRun /\ nodes'[i] \in Nodes
                      /\ \E m \in Mutations : nodes'[i].file = Append(nodes[node].file, m)
    OBVIOUS
  <2>1. i - n \in DOMAIN C /\ nodes'[i] = C[i - n]
    BY <1>6
  <2>2. i \in DOMAIN nodes' /\ i \notin DOMAIN nodes
    BY <1>2, <1>4, <1>6, <1>8
  <2>3. C[i - n] \in Nodes
    BY <1>2, <2>1
  <2> HIDE DEF IInv
  <2> QED
    BY <1>2, <2>1, <2>2, <2>3
<1>11. nodes[node].result # NotRun
  BY <1>1, <1>4 DEF QueueInv
<1>12. TypeInv'
  <2>1. queue' \subseteq DOMAIN nodes'
    BY <1>1, <1>8, <1>10 DEF TypeInv
  <2>2. node \in 0 .. Len(nodes')
    BY <1>2, <1>4, <1>5, <1>6
  <2> QED
    BY <1>1, <1>6, <2>1, <2>2 DEF TypeInv, Locations, AtHand, IsRanking, Positions
<1>13. TreeInv'
  <2> SUFFICES ASSUME NEW i \in DOMAIN nodes'
               PROVE  /\ nodes'[i].parent \in 0 .. i - 1
                      /\ nodes'[i].layer = Len(nodes'[i].file) /\ nodes'[i].layer <= search.layers
                      /\ nodes'[i].parent = 0 => nodes'[i].file = Original
                      /\ nodes'[i].parent # 0 =>
                           /\ nodes'[nodes'[i].parent].result # NotRun
                           /\ \E m \in Mutations :
                                nodes'[i].file = Append(nodes'[nodes'[i].parent].file, m)
    BY <1>1 DEF TreeInv
  <2>1. CASE i \in DOMAIN nodes
    <3>1. /\ nodes[i].parent \in 0 .. i - 1
          /\ nodes[i].layer = Len(nodes[i].file) /\ nodes[i].layer <= search.layers
          /\ nodes[i].parent = 0 => nodes[i].file = Original
          /\ nodes[i].parent # 0 =>
               /\ nodes[nodes[i].parent].result # NotRun
               /\ \E m \in Mutations : nodes[i].file = Append(nodes[nodes[i].parent].file, m)
      BY <2>1 DEF TreeInv
    <3>2. nodes[i].parent # 0 => nodes[i].parent \in DOMAIN nodes
      BY <1>4, <1>5, <2>1, <3>1
    <3> HIDE DEF IInv
    <3> QED
      BY <1>9, <2>1, <3>1, <3>2
  <2>2. CASE i \in n + 1 .. n + Len(C)
    <3>1. node \in 0 .. i - 1 /\ node # 0
      BY <1>2, <1>4, <1>5, <2>2
    <3>2. nodes'[i].parent = node /\ nodes'[node] = nodes[node]
      BY <1>4, <1>9, <1>10, <2>2
    <3>3. /\ nodes'[i].layer = Len(nodes'[i].file) /\ nodes'[i].layer <= search.layers
          /\ \E m \in Mutations : nodes'[i].file = Append(nodes'[node].file, m)
      BY <1>10, <2>2, <3>2
    <3>4. nodes'[node].result # NotRun
      BY <1>11, <3>2
    <3> QED
      BY ONLY <3>1, <3>2, <3>3, <3>4
  <2> QED
    BY <1>7, <2>1, <2>2
<1>14. QueueInv'
  <2>1. node \notin queue'
    BY <1>1, <1>4, <1>8 DEF QueueInv
  <2>2. ASSUME NEW i \in DOMAIN nodes' PROVE nodes'[i].result = NotRun <=> i \in queue'
    <3>1. CASE i \in DOMAIN nodes
      BY <1>1, <1>8, <1>9, <3>1 DEF QueueInv
    <3>2. CASE i \in n + 1 .. n + Len(C)
      BY <1>1, <1>10, <3>2
    <3> QED
      BY <1>7, <3>1, <3>2
  <2> QED
    BY <1>1, <2>1, <2>2 DEF QueueInv
<1>15. \A i \in DOMAIN nodes : HasChild(i) => HasChild(i)'
  BY <1>8, <1>9 DEF HasChild
<1>16. HasChild(node)'
  <2>1. n + 1 \in n + 1 .. n + Len(C)
    BY <1>2, <1>4
  <2> QED
    BY <1>1, <1>10, <2>1 DEF HasChild
<1>17. ASSUME NEW i \in DOMAIN nodes, nodes[i].result # NotRun
       PROVE  Settled(i)'
  <2>1. ~ AllPass(nodes[i].result)
    BY <1>1, <1>17 DEF SettledInv, Settled, PlaceInv
  <2>2. (~ AllPass(nodes[i].result))'
    BY <1>9, <2>1
  <2>3. CASE i = node
    BY <1>1, <1>16, <2>2, <2>3 DEF Settled
  <2>4. CASE i # node
    <3>1. Settled(i)
      BY <1>1, <1>17, <2>4 DEF SettledInv
    <3>2. nodes[i].parent # 0 => nodes[i].parent \in DOMAIN nodes
      BY <1>4, <1>5 DEF TreeInv
    <3>3. Promising(nodes[i])' => Promising(nodes[i])
      BY <1>9, <3>2 DEF Promising
    <3>4. Deepest(nodes[i])' <=> Deepest(nodes[i])
      BY <1>1, <1>9 DEF Deepest
    <3> QED
      BY <1>15, <2>2, <3>1, <3>3, <3>4 DEF Settled
  <2> QED
    BY <2>3, <2>4
<1>18. SettledInv'
  BY <1>1, <1>7, <1>9, <1>10, <1>17 DEF SettledInv, AtHand
<1>19. OrderInv'
  <2> SUFFICES ASSUME NEW i \in DOMAIN nodes', NEW j \in queue', nodes'[i].result # NotRun
               PROVE  nodes'[i].total <= nodes'[j].total
    BY <1>1 DEF OrderInv, AtHand
  <2>1. i \in DOMAIN nodes /\ nodes[i].result # NotRun
    BY <1>7, <1>9, <1>10
  <2>2. CASE j \in queue
    BY <1>1, <1>9, <2>1, <2>2 DEF OrderInv, TypeInv
  <2>3. CASE j \in n + 1 .. n + Len(C)
    <3>1. nodes[i].total <= nodes[node].total
      BY <1>1, <2>1 DEF OrderInv, AtHand
    <3>2. nodes[i] \in Nodes /\ nodes[node] \in Nodes /\ nodes'[j] \in Nodes
      BY <1>4, <1>10, <2>1, <2>3
    <3>3. nodes[i].total \in Nat /\ nodes[node].total \in Nat /\ nodes'[j].total \in Nat
      BY <3>2 DEF Nodes
    <3>4. nodes'[j].total >= nodes[node].total
      BY <1>10, <2>3
    <3> QED
      BY <1>9, <2>1, <3>1, <3>3, <3>4
  <2> QED
    BY <1>1, <2>2, <2>3
<1>20. PlaceInv'
  BY <1>1 DEF PlaceInv
(* A child has the file of an older node only if its parent's file is the  *)
(* file of another node as well.                                           *)
<1>21. ASSUME NEW i \in DOMAIN nodes, NEW j \in n + 1 .. n + Len(C),
              nodes[i].file = nodes'[j].file
       PROVE  Doubled(nodes[i].file)
  <2>1. PICK m \in Mutations : nodes[i].file = Append(nodes[node].file, m)
    BY <1>10, <1>21
  <2>2. nodes[node].file \in Seq(Mutations)
    <3>1. nodes[node] \in Nodes
      BY <1>4
    <3> QED
      BY <3>1 DEF Nodes
  <2>3. nodes[i].parent # 0
    BY <2>1, <2>2, AppendProperties DEF TreeInv, Original
  <2>4. PICK o \in Mutations : nodes[i].file = Append(nodes[nodes[i].parent].file, o)
    BY <2>3 DEF TreeInv
  <2>5. nodes[i].parent \in DOMAIN nodes
    BY <1>4, <1>5, <2>3 DEF TreeInv
  <2>6. nodes[nodes[i].parent].file \in Seq(Mutations)
    <3>1. nodes[nodes[i].parent] \in Nodes
      BY <1>4, <2>5
    <3> QED
      BY <3>1 DEF Nodes
  <2>7. nodes[nodes[i].parent].file = nodes[node].file
    <3>1. Append(nodes[nodes[i].parent].file, o) = Append(nodes[node].file, m)
      BY <2>1, <2>4
    <3> QED
      BY <2>2, <2>6, <3>1, SameFile
  <2>8. nodes[i].parent # node
    BY <1>1, <1>4 DEF SettledInv, AtHand, HasChild
  <2>9. Doubled(nodes[node].file)
    BY <1>4, <2>5, <2>7, <2>8 DEF FileInv
  <2>10. PICK k \in DOMAIN nodes[node].file : ListedTwice(nodes[node].file[k])
    BY <2>9 DEF Doubled
  <2>11. k \in DOMAIN nodes[i].file /\ nodes[i].file[k] = nodes[node].file[k]
    BY <2>1, <2>2, AppendProperties
  <2> QED
    BY <2>10, <2>11 DEF Doubled
<1>22. FileInv'
  <2>1. \A f : Doubled(f)' <=> Doubled(f)
    BY <1>1 DEF Doubled, ListedTwice
  <2>2. ASSUME NEW i \in DOMAIN nodes', NEW j \in DOMAIN nodes', i # j, nodes'[i].file = nodes'[j].file
        PROVE  Doubled(nodes'[i].file)
    <3>1. CASE i \in DOMAIN nodes /\ j \in DOMAIN nodes
      BY <1>9, <2>2, <3>1 DEF FileInv
    <3>2. CASE i \in DOMAIN nodes /\ j \in n + 1 .. n + Len(C)
      BY <1>9, <1>21, <2>2, <3>2
    <3>3. CASE j \in DOMAIN nodes /\ i \in n + 1 .. n + Len(C)
      BY <1>9, <1>21, <2>2, <3>3
    <3>4. CASE i \in n + 1 .. n + Len(C) /\ j \in n + 1 .. n + Len(C)
      <4>1. /\ i - n \in DOMAIN C /\ j - n \in DOMAIN C
            /\ nodes'[i] = C[i - n] /\ nodes'[j] = C[j - n]
        BY <1>6, <3>4
      <4>2. i - n # j - n
        BY <1>2, <1>4, <2>2, <3>4
      <4> QED
        BY <1>3, <2>2, <4>1, <4>2
    <3> QED
      BY <1>7, <3>1, <3>2, <3>3, <3>4
  <2>3. ASSUME NEW i \in DOMAIN nodes' PROVE nodes'[i].file \in DOMAIN disk'
    <3>1. CASE i \in DOMAIN nodes
      BY <1>1, <1>9, <1>a, <3>1 DEF FileInv
    <3>2. CASE i \in n + 1 .. n + Len(C)
      BY <1>6, <1>a, <3>2
    <3> QED
      BY <1>7, <3>1, <3>2
  <2> QED
    BY <2>1, <2>2, <2>3 DEF FileInv
<1>23. NameInv'
  <2>1. ASSUME NEW i \in DOMAIN nodes', Plain(nodes'[i].file)
        PROVE  disk'[nodes'[i].file] = nodes'[i].file
    <3>1. CASE \E k \in DOMAIN C : C[k].file = nodes'[i].file
      BY <1>a, <2>1, <3>1
    <3>2. CASE ~ \E k \in DOMAIN C : C[k].file = nodes'[i].file
      <4>1. i \in DOMAIN nodes /\ nodes'[i] = nodes[i]
        BY <1>6, <1>7, <1>9, <3>2
      <4>2. nodes[i].file \in DOMAIN disk /\ disk[nodes[i].file] = nodes[i].file
        BY <1>1, <2>1, <4>1 DEF FileInv, NameInv
      <4> HIDE DEF IInv
      <4> QED
        BY <1>a, <3>2, <4>1, <4>2
    <3> QED
      BY <3>1, <3>2
  <2>2. ASSUME NEW i \in DOMAIN nodes', nodes'[i].result # NotRun, Plain(nodes'[i].file)
        PROVE  nodes'[i].file \in DOMAIN verdicts /\ verdicts[nodes'[i].file] = nodes'[i].result
    <3>1. i \in DOMAIN nodes /\ nodes'[i] = nodes[i]
      BY <1>7, <1>9, <1>10, <2>2
    <3> QED
      BY <2>2, <3>1 DEF NameInv
  <2> QED
    BY <1>1, <2>1, <2>2 DEF NameInv
<1>24. DoneInv'
  BY <1>1 DEF DoneInv
<1> QED
  BY <1>12, <1>13, <1>14, <1>18, <1>19, <1>20, <1>22, <1>23, <1>24

-----------------------------------------------------------------------------
LEMMA StutterInv == IInv /\ UNCHANGED vars => IInv'
<1> SUFFICES ASSUME IInv, UNCHANGED vars PROVE IInv'
  OBVIOUS
<1> USE DEF IInv, vars, known
<1>1. TypeInv'
  BY DEF TypeInv, AtHand, IsRanking, Positions
<1>2. TreeInv' /\ QueueInv' /\ OrderInv' /\ FileInv' /\ NameInv'
  BY DEF TreeInv, QueueInv, OrderInv, AtHand, FileInv, NameInv, Doubled, ListedTwice
<1>3. SettledInv'
  BY DEF SettledInv, Settled, HasChild, Promising, Deepest, AtHand
<1>4. PlaceInv'
  BY DEF PlaceInv, Policy, Promising, Deepest, IsRanking, Positions
<1>5. CheapestFirst' <=> CheapestFirst
  BY DEF CheapestFirst
<1>6. GaveUpExhausted' <=> GaveUpExhausted
  BY DEF GaveUpExhausted, Promising, Deepest
<1>7. RepairKept' <=> RepairKept
  BY DEF RepairKept, ListedTwice
<1>8. DoneInv'
  BY <1>5, <1>6, <1>7 DEF DoneInv
<1> QED
  BY <1>1, <1>2, <1>3, <1>4, <1>8

(* The inductive invariant holds in every reachable state.                 *)
THEOREM Invariance == Spec => []IInv
<1>1. IInv /\ [Next]_vars => IInv'
  BY PollInv, RunTestsInv, TestsBreakInv, DiscardInv, SuspectInv, RankBySpectrumInv, RankAtRandomInv,
     ExpandInv, ReturnRepairInv, GiveUpInv, StutterInv DEF Next
<1> QED
  BY InitInv, <1>1, PTL DEF Spec

(* Every node is a mutant of an earlier one and at most as deep as start   *)
(* allows, whatever the suite answers (ExperimentMultiFault.start).        *)
THEOREM TypeCorrect == Spec => []TypeOK
<1>1. IInv => TypeOK
  <2> SUFFICES ASSUME IInv PROVE TypeOK
    OBVIOUS
  <2>1. \A i \in DOMAIN nodes : nodes[i] \in Nodes
    BY DEF IInv, TypeInv
  <2>2. \A i \in DOMAIN nodes : nodes[i].result \in Results \cup {NotRun}
    BY <2>1 DEF Nodes
  <2> QED
    BY <2>2 DEF IInv, TypeInv, TreeInv, TypeOK
<1> QED
  BY <1>1, Invariance, PTL

(* The ranking a node is mutated by comes from its own run, although the   *)
(* coverage is a static field (MutantNode.getSuspicionRank).               *)
THEOREM RankingIsOwn == Spec => []RankedFromOwnRun
<1>1. IInv => RankedFromOwnRun
  BY DEF IInv, PlaceInv, RankedFromOwnRun
<1> QED
  BY <1>1, Invariance, PTL

(* The search is best first, and the repair found a cheapest one of all    *)
(* the nodes made (PriorityQueue of MutantNode.compareTo).                 *)
THEOREM BestFirst == Spec => []CheapestFirst
<1>1. IInv => CheapestFirst
  <2> SUFFICES ASSUME IInv, pc # "done" PROVE CheapestFirst
    BY DEF IInv, DoneInv
  <2>1. \A i \in DOMAIN nodes, j \in queue :
          nodes[i].result # NotRun => nodes[i].total <= nodes[j].total
    BY DEF IInv, OrderInv
  <2>0. outcome.kind # "repair"
    BY DEF IInv, DoneInv
  <2>2. ASSUME pc = "found", NEW i \in DOMAIN nodes, nodes[i].total < nodes[node].total
        PROVE  ~ AllPass(nodes[i].result)
    <3>1. nodes[i] \in Nodes /\ nodes[node] \in Nodes
      BY <2>2 DEF IInv, TypeInv, AtHand
    <3>2. nodes[i].total \in Nat /\ nodes[node].total \in Nat
      BY <3>1 DEF Nodes
    <3>3. i \notin queue /\ i # node
      BY <2>2, <3>2 DEF IInv, OrderInv, AtHand
    <3>4. nodes[i].result # NotRun
      BY <2>2, <3>3 DEF IInv, QueueInv
    <3> QED
      BY <2>2, <3>3, <3>4 DEF IInv, SettledInv, Settled
  <2> QED
    BY <2>0, <2>1, <2>2 DEF CheapestFirst
<1> QED
  BY <1>1, Invariance, PTL

(* null means that every node made failed its run, that all that deserved  *)
(* to be mutated were, and that every mutant that can be told by its name  *)
(* was tested itself and fails (ExperimentMultiFault.start returns null).  *)
THEOREM NullIsHonest == Spec => []GaveUpExhausted
<1>1. IInv => GaveUpExhausted
  BY DEF IInv, DoneInv, GaveUpExhausted
<1> QED
  BY <1>1, Invariance, PTL

(* What is on disk under the name returned passes; a mutant that can be    *)
(* told by its name is that one; and the clean-up deletes the file exactly *)
(* if a node of its name was never run, which takes a mutation whose name  *)
(* was given twice (MutantNode.clear, PolicyMutator.getMutantFileName).    *)
THEOREM RepairStays == Spec => []RepairKept
<1>1. IInv => RepairKept
  BY DEF IInv, DoneInv, RepairKept
<1> QED
  BY <1>1, Invariance, PTL

-----------------------------------------------------------------------------
(* The nodes that may still be run or mutated, and how many there are in   *)
(* every layer.                                                            *)
Open == IF pc \in {"run", "judge", "rank", "expand"} THEN queue \cup {node} ELSE queue

OpenIn(l) == {i \in Open : nodes[i].layer = l - 1}

OpenNodes == [l \in 1 .. search.layers + 1 |-> Cardinality(OpenIn(l))]

(* What is left of the search: to return or to stop, the nodes of every    *)
(* layer, the places of the loop for the node at hand.                     *)
Ends == CASE pc = "done" -> 0 [] pc = "found" -> 1 [] OTHER -> 2

Place ==
  CASE pc = "search" -> 4 [] pc = "run" -> 3 [] pc = "judge" -> 2 [] pc = "rank" -> 1 [] OTHER -> 0

Left == <<Ends, <<OpenNodes, Place>>>>

(* The order of what is left.  A node that is mutated leaves its layer for *)
(* any number of nodes of the next one.                                    *)
NatLess == OpToRel(<, Nat)
Layers(n) == LexProductOrdering(NatLess, Nat, n)
Nearer(n) == LexPairOrdering(NatLess, LexPairOrdering(Layers(n), NatLess, [1 .. n -> Nat], Nat),
                             Nat, [1 .. n -> Nat] \X Nat)
Amounts(n) == Nat \X ([1 .. n -> Nat] \X Nat)

ComesNearer == <<Left', Left>> \in Nearer(search.layers + 1)

(* No sequence of steps can come nearer for ever.                          *)
LEMMA NearerWellFounded ==
  ASSUME NEW n \in Nat
  PROVE  IsWellFoundedOn(Nearer(n), Amounts(n))
<1>1. IsWellFoundedOn(NatLess, Nat)
  BY NatLessThanWellFounded DEF NatLess
<1>2. IsWellFoundedOn(Layers(n), [1 .. n -> Nat])
  BY <1>1, WFLexProductOrdering DEF Layers
<1>3. IsWellFoundedOn(LexPairOrdering(Layers(n), NatLess, [1 .. n -> Nat], Nat), [1 .. n -> Nat] \X Nat)
  BY <1>1, <1>2, WFLexPairOrdering
<1> QED
  BY <1>1, <1>3, WFLexPairOrdering DEF Nearer, Amounts

LEMMA NearerIs ==
  ASSUME NEW n \in Nat, NEW a \in Nat, NEW b \in [1 .. n -> Nat], NEW c \in Nat,
         NEW x \in Nat, NEW y \in [1 .. n -> Nat], NEW z \in Nat,
         \/ a < x
         \/ a = x /\ \E l \in 1 .. n : b[l] < y[l] /\ \A k \in 1 .. l - 1 : b[k] = y[k]
         \/ a = x /\ b = y /\ c < z
  PROVE  <<<<a, <<b, c>>>>, <<x, <<y, z>>>>>> \in Nearer(n)
<1> DEFINE F == [1 .. n -> Nat]
           R == Layers(n)
           Inner == LexPairOrdering(R, NatLess, F, Nat)
<1>1. \A i, j \in Nat : i < j => <<i, j>> \in NatLess
  BY DEF NatLess, OpToRel
<1>2. ASSUME NEW l \in 1 .. n, b[l] < y[l], \A k \in 1 .. l - 1 : b[k] = y[k]
      PROVE  <<b, y>> \in R
  <2>1. <<b[l], y[l]>> \in NatLess
    BY <1>1, <1>2
  <2>2. <<b, y>> \in F \X F
    OBVIOUS
  <2> QED
    BY <1>2, <2>1, <2>2 DEF LexProductOrdering, Layers
<1>3. b \in F /\ y \in F
  OBVIOUS
<1> HIDE DEF R, F
<1>4. <<<<b, c>>, <<y, z>>>> \in (F \X Nat) \X (F \X Nat)
  BY <1>3
<1>5. <<b, y>> \in R \/ (b = y /\ c < z) => <<<<b, c>>, <<y, z>>>> \in Inner
  BY <1>1, <1>4 DEF LexPairOrdering
<1>6. <<<<a, <<b, c>>>>, <<x, <<y, z>>>>>> \in (Nat \X (F \X Nat)) \X (Nat \X (F \X Nat))
  BY <1>3
<1>7. <<a, x>> \in NatLess \/ (a = x /\ <<<<b, c>>, <<y, z>>>> \in Inner)
  BY <1>1, <1>2, <1>5 DEF F
<1> HIDE DEF Inner
<1>8. <<<<a, <<b, c>>>>, <<x, <<y, z>>>>>> \in LexPairOrdering(NatLess, Inner, Nat, F \X Nat)
  BY <1>6, <1>7 DEF LexPairOrdering
<1> QED
  BY <1>8 DEF Nearer, Inner, F, R

-----------------------------------------------------------------------------
LEMMA OpenIs ==
  ASSUME IInv
  PROVE  /\ search.layers \in Nat /\ Open \subseteq DOMAIN nodes /\ IsFiniteSet(Open)
         /\ \A i \in DOMAIN nodes : nodes[i].layer \in 0 .. search.layers
         /\ OpenNodes \in [1 .. search.layers + 1 -> Nat]
<1>1. search.layers \in Nat
  BY SearchesAssumption DEF IInv, TypeInv
<1>2. nodes \in Seq(Nodes) /\ Len(nodes) \in Nat /\ DOMAIN nodes = 1 .. Len(nodes)
  BY DEF IInv, TypeInv
<1>3. Open \subseteq DOMAIN nodes
  BY <1>2 DEF IInv, TypeInv, AtHand, Open
<1>4. IsFiniteSet(Open)
  <2>1. IsFiniteSet(1 .. Len(nodes))
    BY <1>2, FS_Interval
  <2> QED
    BY <1>2, <1>3, <2>1, FS_Subset
<1>5. \A i \in DOMAIN nodes : nodes[i].layer \in 0 .. search.layers
  <2> TAKE i \in DOMAIN nodes
  <2>1. nodes[i] \in Nodes
    BY <1>2
  <2>2. nodes[i].layer \in Nat /\ nodes[i].layer <= search.layers
    BY <2>1 DEF IInv, TreeInv, Nodes
  <2> QED
    BY <1>1, <2>2
<1>6. \A l : Cardinality(OpenIn(l)) \in Nat
  <2> TAKE l
  <2>1. OpenIn(l) \in SUBSET Open
    BY DEF OpenIn
  <2> QED
    BY <1>4, <2>1, FS_Subset, FS_CardinalityType
<1> QED
  BY <1>1, <1>3, <1>4, <1>5, <1>6 DEF OpenNodes

(* A node leaves, and none comes that is not of a later layer.             *)
LEMMA NodeLeaves ==
  ASSUME IInv, search' = search, NEW n \in Open, n \notin Open',
         Open \ {n} \subseteq Open',
         \A i \in Open \ {n} : nodes'[i].layer = nodes[i].layer,
         \A i \in Open' \ Open : nodes'[i].layer \in Nat /\ nodes'[i].layer > nodes[n].layer
  PROVE  \E l \in 1 .. search.layers + 1 :
           /\ OpenNodes'[l] < OpenNodes[l]
           /\ \A k \in 1 .. l - 1 : OpenNodes'[k] = OpenNodes[k]
<1>1. n \in DOMAIN nodes /\ nodes[n].layer \in 0 .. search.layers /\ search.layers \in Nat
  BY OpenIs
<1>2. PICK l \in 1 .. search.layers + 1 : l - 1 = nodes[n].layer
  <2>1. nodes[n].layer + 1 \in 1 .. search.layers + 1 /\ (nodes[n].layer + 1) - 1 = nodes[n].layer
    BY <1>1
  <2> QED
    BY <2>1
<1>3. \A k \in 1 .. l - 1 : OpenIn(k)' = OpenIn(k)
  <2> TAKE k \in 1 .. l - 1
  <2>1. k - 1 < nodes[n].layer /\ k \in Nat
    BY <1>1, <1>2
  <2>2. \A i \in Open : i \in OpenIn(k) => i \in OpenIn(k)'
    BY <2>1 DEF OpenIn
  <2>3. \A i \in Open' : i \in OpenIn(k)' => i \in Open /\ i \in OpenIn(k)
    <3> TAKE i \in Open'
    <3> HAVE i \in OpenIn(k)'
    <3>1. nodes'[i].layer = k - 1
      BY DEF OpenIn
    <3>2. i \in Open
      BY <1>1, <2>1, <3>1
    <3>3. i \in Open \ {n}
      BY <3>2
    <3>4. nodes[i].layer = k - 1
      BY <3>1, <3>3
    <3> QED
      BY <3>2, <3>4 DEF OpenIn
  <2> QED
    BY <2>2, <2>3 DEF OpenIn
<1>4. OpenIn(l)' = OpenIn(l) \ {n} /\ n \in OpenIn(l)
  <2>1. n \in OpenIn(l)
    BY <1>2 DEF OpenIn
  <2>2. \A i \in OpenIn(l) \ {n} : i \in OpenIn(l)'
    BY DEF OpenIn
  <2>3. \A i \in OpenIn(l)' : i \in OpenIn(l) \ {n}
    <3> TAKE i \in OpenIn(l)'
    <3>1. nodes'[i].layer = nodes[n].layer /\ i \in Open' /\ i # n
      BY <1>2 DEF OpenIn
    <3>2. i \in Open \ {n}
      BY <1>1, <3>1
    <3> QED
      BY <1>2, <3>1, <3>2 DEF OpenIn
  <2> QED
    BY <2>1, <2>2, <2>3
<1>5. IsFiniteSet(OpenIn(l)) /\ Cardinality(OpenIn(l)) \in Nat
  <2>1. OpenIn(l) \in SUBSET Open /\ IsFiniteSet(Open)
    BY OpenIs DEF OpenIn
  <2> QED
    BY <2>1, FS_Subset, FS_CardinalityType
<1>6. Cardinality(OpenIn(l) \ {n}) < Cardinality(OpenIn(l))
  <2>1. Cardinality(OpenIn(l) \ {n}) = Cardinality(OpenIn(l)) - 1
    BY <1>4, <1>5, FS_RemoveElement
  <2> QED
    BY <1>5, <2>1
<1>7. \A k \in 1 .. search.layers + 1 : OpenNodes[k] = Cardinality(OpenIn(k))
  BY DEF OpenNodes
<1>8. \A k \in 1 .. search.layers + 1 : OpenNodes'[k] = Cardinality(OpenIn(k)')
  BY DEF OpenNodes
<1>9. \A k \in 1 .. l - 1 : k \in 1 .. search.layers + 1
  BY <1>1, <1>2
<1>10. OpenNodes'[l] < OpenNodes[l]
  BY <1>2, <1>4, <1>6, <1>7, <1>8
<1>11. \A k \in 1 .. l - 1 : OpenNodes'[k] = OpenNodes[k]
  BY <1>3, <1>7, <1>8, <1>9
<1> QED
  BY <1>2, <1>10, <1>11

(* The nodes that are open stay, in their layers.                          *)
LEMMA NodesStay ==
  ASSUME search' = search, Open' = Open, \A i \in Open : nodes'[i].layer = nodes[i].layer
  PROVE  OpenNodes' = OpenNodes
<1>1. \A l \in 1 .. search.layers + 1 : OpenIn(l)' = OpenIn(l)
  BY DEF OpenIn
<1> QED
  BY <1>1 DEF OpenNodes

(* A mutant is a layer below the node it was made of.                      *)
LEMMA ChildIsDeeper ==
  ASSUME IInv, IInv', Expand, NEW i \in queue' \ queue
  PROVE  nodes'[i].layer \in Nat /\ nodes'[i].layer > nodes[node].layer
<1> DEFINE C == Children
           n == Len(nodes)
<1>1. /\ pc = "expand" /\ nodes' = nodes \o C
      /\ queue' = queue \cup (n + 1 .. n + Len(C)) /\ node' = node
  BY DEF Expand
<1>2. /\ C \in Seq(Nodes)
      /\ \A k \in DOMAIN C :
           /\ C[k].layer = Len(C[k].file)
           /\ \E m \in Mutations : C[k].file = Append(nodes[node].file, m)
  BY <1>1, ChildrenTyped DEF IInv
<1> HIDE DEF C
<1>3. nodes \in Seq(Nodes) /\ n \in Nat /\ node \in DOMAIN nodes
  BY <1>1 DEF IInv, TypeInv, AtHand
<1>4. nodes[node].layer = Len(nodes[node].file) /\ nodes[node] \in Nodes
  BY <1>3 DEF IInv, TreeInv
<1> HIDE DEF n
<1>5. i \in n + 1 .. n + Len(C) /\ Len(C) \in Nat /\ DOMAIN C = 1 .. Len(C)
  BY <1>1, <1>2
<1>6. i - n \in DOMAIN C /\ nodes'[i] = C[i - n]
  BY <1>1, <1>2, <1>3, <1>5 DEF n
<1>7. PICK m \in Mutations : C[i - n].file = Append(nodes[node].file, m)
  BY <1>2, <1>6
<1>8. nodes[node].file \in Seq(Mutations)
  BY <1>4 DEF Nodes
<1>9. Len(C[i - n].file) = Len(nodes[node].file) + 1 /\ Len(nodes[node].file) \in Nat
  BY <1>7, <1>8
<1> QED
  BY <1>2, <1>4, <1>6, <1>9

(* Every step ends the search, or has a node leave the layers, or leaves   *)
(* all nodes where they are and goes on in the loop.                       *)
LEMMA StepNearer ==
  ASSUME IInv, IInv', Next
  PROVE  /\ search' = search
         /\ \/ Ends' < Ends
            \/ /\ Ends' = Ends
               /\ \E l \in 1 .. search.layers + 1 :
                    /\ OpenNodes'[l] < OpenNodes[l]
                    /\ \A k \in 1 .. l - 1 : OpenNodes'[k] = OpenNodes[k]
            \/ Ends' = Ends /\ OpenNodes' = OpenNodes /\ Place' < Place
<1> DEFINE Leaves == \E l \in 1 .. search.layers + 1 :
                       /\ OpenNodes'[l] < OpenNodes[l]
                       /\ \A k \in 1 .. l - 1 : OpenNodes'[k] = OpenNodes[k]
<1>1. search' = search
  BY DEF Next, Poll, RunTests, TestsBreak, Discard, Suspect, RankBySpectrum, RankAtRandom, Expand, ReturnRepair, GiveUp
<1>2. nodes \in Seq(Nodes) /\ node \notin queue /\ queue \subseteq DOMAIN nodes
      /\ (AtHand => node \in DOMAIN nodes)
  BY DEF IInv, TypeInv, QueueInv, AtHand
<1> HIDE DEF Leaves
<1>3. CASE Poll
  <2>1. /\ pc = "search" /\ pc' = "run" /\ nodes' = nodes
        /\ node' \in queue /\ queue' = queue \ {node'}
    BY <1>3 DEF Poll
  <2>2. Open' = Open
    BY <2>1 DEF Open
  <2>3. OpenNodes' = OpenNodes
    BY <1>1, <2>1, <2>2, NodesStay
  <2>4. Ends' = Ends /\ Place = 4 /\ Place' = 3
    BY <2>1 DEF Ends, Place
  <2> QED
    BY <1>1, <2>3, <2>4
<1>4. CASE RunTests
  <2>1. /\ pc = "run" /\ UNCHANGED <<queue, node>> /\ pc' \in {"found", "judge"}
        /\ \E r : nodes' = [nodes EXCEPT ![node].result = r]
    BY <1>4 DEF RunTests
  <2>2. CASE pc' = "found"
    <3>1. Ends = 2 /\ Ends' = 1
      BY <2>1, <2>2 DEF Ends
    <3> QED
      BY <1>1, <3>1
  <2>3. CASE pc' = "judge"
    <3>1. \A i \in DOMAIN nodes : nodes'[i].layer = nodes[i].layer
      <4> PICK r : nodes' = [nodes EXCEPT ![node].result = r]
        BY <2>1
      <4> TAKE i \in DOMAIN nodes
      <4>1. nodes[i] \in Nodes
        BY <1>2
      <4> QED
        BY <1>2, <4>1 DEF Nodes
    <3>2. Open' = Open
      BY <2>1, <2>3 DEF Open
    <3>3. OpenNodes' = OpenNodes
      BY <1>1, <3>1, <3>2, NodesStay, OpenIs
    <3>4. Ends' = Ends /\ Place = 3 /\ Place' = 2
      BY <2>1, <2>3 DEF Ends, Place
    <3> QED
      BY <1>1, <3>3, <3>4
  <2> QED
    BY <2>1, <2>2, <2>3
<1>5. CASE Discard
  <2>1. pc = "judge" /\ pc' = "search" /\ UNCHANGED <<queue, node, nodes>>
    BY <1>5 DEF Discard
  <2>2. Open = queue \cup {node} /\ Open' = queue
    BY <2>1 DEF Open
  <2>3. node \in Open /\ node \notin Open' /\ Open \ {node} \subseteq Open' /\ Open' \ Open = {}
    BY <1>2, <2>2
  <2>4. Leaves
    BY <1>1, <2>1, <2>3, NodeLeaves DEF Leaves
  <2>5. Ends' = Ends
    BY <2>1 DEF Ends
  <2> QED
    BY <1>1, <2>4, <2>5 DEF Leaves
<1>6. CASE Suspect \/ RankBySpectrum \/ RankAtRandom
  <2>1. /\ UNCHANGED <<queue, node, nodes>>
        /\ (pc = "judge" /\ pc' = "rank") \/ (pc = "rank" /\ pc' = "expand")
    BY <1>6 DEF Suspect, RankBySpectrum, RankAtRandom
  <2>2. Open' = Open
    BY <2>1 DEF Open
  <2>3. OpenNodes' = OpenNodes
    BY <1>1, <2>1, <2>2, NodesStay
  <2>4. Ends' = Ends /\ ((Place = 2 /\ Place' = 1) \/ (Place = 1 /\ Place' = 0))
    BY <2>1 DEF Ends, Place
  <2> QED
    BY <1>1, <2>3, <2>4
<1>7. CASE Expand
  <2>1. /\ pc = "expand" /\ pc' = "search" /\ node' = node /\ nodes' = nodes \o Children
        /\ queue' = queue \cup (Len(nodes) + 1 .. Len(nodes) + Len(Children))
    BY <1>7 DEF Expand
  <2>2. Open = queue \cup {node} /\ Open' = queue' /\ node \in DOMAIN nodes
    BY <1>2, <2>1 DEF Open, AtHand
  <2>3. node \notin queue'
    BY <2>1 DEF IInv, QueueInv
  <2>4. \A i \in Open : nodes'[i] = nodes[i]
    <3>1. Children \in Seq(Nodes)
      BY <2>1, ChildrenTyped DEF IInv
    <3> QED
      BY <1>2, <2>1, <2>2, <3>1
  <2>5. \A i \in Open' \ Open : nodes'[i].layer \in Nat /\ nodes'[i].layer > nodes[node].layer
    BY <1>7, <2>2, ChildIsDeeper
  <2>6. Open \ {node} \subseteq Open'
    BY <2>1, <2>2
  <2>7. Leaves
    BY <1>1, <2>2, <2>3, <2>4, <2>5, <2>6, NodeLeaves DEF Leaves
  <2>8. Ends' = Ends
    BY <2>1 DEF Ends
  <2> QED
    BY <1>1, <2>7, <2>8 DEF Leaves
<1>8. CASE ReturnRepair \/ GiveUp \/ TestsBreak
  <2>1. pc \in {"found", "search", "run"} /\ pc' = "done"
    BY <1>8 DEF ReturnRepair, GiveUp, TestsBreak
  <2>2. Ends \in {1, 2} /\ Ends' = 0
    BY <2>1 DEF Ends
  <2> QED
    BY <1>1, <2>2
<1> QED
  BY <1>3, <1>4, <1>5, <1>6, <1>7, <1>8 DEF Next

(* Every step of the search brings it nearer to its end, in an order in    *)
(* which nothing comes nearer for ever: start takes finitely many steps,   *)
(* however many rules, layers and mutants, and whatever the suite says.    *)
(* Nodes come faster than they go, but always in a deeper layer.           *)
THEOREM EveryStepNearer ==
  /\ \A n \in Nat : IsWellFoundedOn(Nearer(n), Amounts(n))
  /\ Spec => [](Left \in Amounts(search.layers + 1)) /\ [][ComesNearer]_vars
<1> DEFINE Typed == /\ search.layers + 1 \in Nat /\ Ends \in Nat /\ Place \in Nat
                    /\ OpenNodes \in [1 .. search.layers + 1 -> Nat]
           InPlace == Left \in Amounts(search.layers + 1)
<1>1. IInv => Typed
  BY OpenIs DEF Ends, Place
<1>2. Typed => InPlace
  BY DEF Left, Amounts
<1>3. IInv /\ IInv' /\ Typed /\ Typed' /\ [Next]_vars => [ComesNearer]_vars
  <2> SUFFICES ASSUME IInv, IInv', Typed, Typed', Next PROVE ComesNearer
    OBVIOUS
  <2>1. PICK n \in Nat : n = search.layers + 1
    OBVIOUS
  <2>2. search' = search
    BY StepNearer
  <2>3. OpenNodes \in [1 .. n -> Nat] /\ OpenNodes' \in [1 .. n -> Nat]
    BY <2>1, <2>2
  <2>4. \/ Ends' < Ends
        \/ Ends' = Ends /\ \E l \in 1 .. n : /\ OpenNodes'[l] < OpenNodes[l]
                                             /\ \A k \in 1 .. l - 1 : OpenNodes'[k] = OpenNodes[k]
        \/ Ends' = Ends /\ OpenNodes' = OpenNodes /\ Place' < Place
    BY StepNearer, <2>1
  <2>5. <<<<Ends', <<OpenNodes', Place'>>>>, <<Ends, <<OpenNodes, Place>>>>>> \in Nearer(n)
    BY <2>3, <2>4, NearerIs
  <2> QED
    BY <2>1, <2>5 DEF Left, ComesNearer
<1>4. \A n \in Nat : IsWellFoundedOn(Nearer(n), Amounts(n))
  BY NearerWellFounded
<1> HIDE DEF Typed, InPlace
<1>5. Spec => []InPlace /\ [][ComesNearer]_vars
  BY <1>1, <1>2, <1>3, Invariance, PTL DEF Spec
<1> QED
  BY <1>4, <1>5 DEF InPlace
=============================================================================

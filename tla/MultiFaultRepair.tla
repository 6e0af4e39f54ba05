-------------------------- MODULE MultiFaultRepair --------------------------
(***************************************************************************)
(* Repairing a policy with several faults (ExperimentMultiFault.start with *)
(* MutantNode): a best-first search over mutants of mutants.  A node is    *)
(* run against the test suite, and unless it passes, or has broken a test  *)
(* its parent passed, or is too deep, it is mutated at every position of   *)
(* its suspicion ranking; a mutant costs its parent's cost plus the rank   *)
(* of its position.                                                        *)
(*                                                                         *)
(* Two things are shared behind the search's back: the ranking is computed *)
(* from the coverage the last test run left in static fields, and a mutant *)
(* lives in a file named after the mutations that made it.  The names do   *)
(* not always tell the mutants apart: where two share one, the file holds  *)
(* the mutant written last, whichever node it is run for.                  *)
(***************************************************************************)
EXTENDS Naturals, Integers, Sequences, SequencesExt, FiniteSets

CONSTANTS
  Searches,    (* what start is called with, and the policy it is called   *)
               (* for: [method, rules, layers, compares]; compares are the *)
               (* rules in which integers are compared                     *)
  Variants,    (* mutants made at one position                             *)
  IntegerCCF,  (* those made by changing a comparison of integers          *)
  Tests        (* tests of the suite                                       *)

ASSUME SearchesAssumption ==
  \A s \in Searches : /\ s.method \in {"spectrum", "random"}
                      /\ s.rules \in Nat /\ s.layers \in Nat
                      /\ s.compares \subseteq 1 .. s.rules
ASSUME SuiteAssumption == Variants \in Nat \ {0} /\ Tests \in Nat \ {0}
ASSUME ComparisonAssumption == IntegerCCF \subseteq 1 .. Variants

VARIABLES
  search,      (* the arguments of this call                               *)
  nodes,       (* MutantNodes made: [file, parent, total, layer, result]   *)
  queue,       (* the nodes in the priority queue                          *)
  node,        (* the node polled last                                     *)
  pc,          (* where the loop is                                        *)
  ranking,     (* suspicionRank of the node                                *)
  covered,     (* the policy whose run PolicyCoverageFactory describes, if *)
               (* there was one                                            *)
  disk,        (* the policies on disk, by file: the changes made to the   *)
               (* policy to repair                                         *)
  outcome,     (* what start returned: [kind, file]                        *)
  verdicts,    (* what the test suite has said, by policy                  *)
  suspicion    (* what its coverage ranks first, by policy                 *)

known == <<verdicts, suspicion>>
vars  == <<search, nodes, queue, node, pc, ranking, covered, disk, outcome, known>>

NotRun   == <<>>
Original == <<>>       (* the policy to repair: no mutation yet            *)

Returned(kind, file) == [kind |-> kind, file |-> file]

Results == [1 .. Tests -> BOOLEAN]
AllPass(r) == \A t \in DOMAIN r : r[t]

(* Position -1 is the combining algorithm, 0 the policy target, i the i-th *)
(* rule.                                                                   *)
Positions == 0 .. search.rules

(* getRuleIndexRankedBySuspicion, "a temporary solution for fault in       *)
(* combining algorithms" in front.                                         *)
SpectrumRankings == {<<-1>> \o s : s \in SetToSeqs(Positions)}

(* getRandomSuspicionRank: -1 .. number of rules, then maxRules - the same *)
(* number again in a policy without nested policies - shuffled.            *)
RandomRankings ==
  {s \in [1 .. search.rules + 3 -> Positions \cup {-1}] :
     \A p \in Positions \cup {-1} :
       Cardinality({i \in DOMAIN s : s[i] = p}) = (IF p = search.rules THEN 2 ELSE 1)}

(* What a mutant does to the policy: positions -1 and 0 both yield the     *)
(* mutants of the combining algorithm.                                     *)
Change(p, v) == <<IF p = -1 THEN 0 ELSE p, v>>

(* What it adds to the name of the file, getMutantFileName: the operator,  *)
(* the rule and a number - but the rule is left out of the name of a       *)
(* changed comparison of integers, CCF1, CCF2, ...                         *)
Mutation(p, v) ==
  IF p \in search.compares /\ v \in IntegerCCF THEN <<-1, v>> ELSE Change(p, v)

Node(file, parent, total, layer) ==
  [file |-> file, parent |-> parent, total |-> total, layer |-> layer, result |-> NotRun]

-----------------------------------------------------------------------------
Init == /\ search \in Searches
        /\ nodes = <<Node(Original, 0, 0, 0)>>
        /\ queue = {1} /\ node = 0 /\ pc = "search"
        /\ ranking = <<>> /\ covered = {}
        /\ disk = [f \in {Original} |-> Original]
        /\ outcome = Returned("nothing yet", Original)
        /\ verdicts = [f \in {} |-> NotRun] /\ suspicion = [f \in {} |-> <<>>]

(* Faulty variant: first in, first out.                                    *)
PollOldest ==
  /\ pc = "search"
  /\ \E i \in queue :
       /\ \A j \in queue : i <= j
       /\ node' = i
       /\ queue' = queue \ {i}
  /\ pc' = "run"
  /\ UNCHANGED <<search, nodes, ranking, covered, disk, outcome, known>>

(* queue.poll: one of the cheapest nodes.                                  *)
Poll ==
  /\ pc = "search"
  /\ \E i \in queue :
       /\ \A j \in queue : nodes[i].total <= nodes[j].total
       /\ node' = i
       /\ queue' = queue \ {i}
  /\ pc' = "run"
  /\ UNCHANGED <<search, nodes, ranking, covered, disk, outcome, known>>

(* The policy the node stands for, as it is on disk now.                   *)
Policy(n) == disk[n.file]

(* getTestResult: the run leaves its coverage behind and is remembered.    *)
(* The suite says the same of the same policy again.                       *)
RunTests ==
  LET policy == Policy(nodes[node]) IN
  /\ pc = "run"
  /\ nodes[node].result = NotRun
  /\ \E r \in (IF policy \in DOMAIN verdicts THEN {verdicts[policy]} ELSE Results) :
       /\ verdicts' = [f \in DOMAIN verdicts \cup {policy} |->
                         IF f = policy THEN r ELSE verdicts[f]]
       /\ nodes' = [nodes EXCEPT ![node].result = r]
       /\ pc' = IF AllPass(r) THEN "found" ELSE "judge"
  /\ covered' = {policy}
  /\ UNCHANGED <<search, queue, node, ranking, disk, outcome, suspicion>>

(* A test throws: runAllTestsOnMutant swallows that and returns null, and  *)
(* getTestResults fails on the null.  start ends with the exception and    *)
(* cleans nothing up.                                                      *)
TestsBreak ==
  /\ pc = "run"
  /\ nodes[node].result = NotRun
  /\ Policy(nodes[node]) \notin DOMAIN verdicts
  /\ outcome' = Returned("threw", Original)
  /\ pc' = "done"
  /\ UNCHANGED <<search, nodes, queue, node, ranking, covered, disk, known>>

(* isPromising: every test that fails failed for the parent as well.       *)
Promising(n) ==
  n.parent # 0 => \A t \in 1 .. Tests : ~ n.result[t] => ~ nodes[n.parent].result[t]

Deepest(n) == n.layer + 1 > search.layers

(* Faulty variants: "break" for "continue"; the node goes back in the queue.*)
DiscardBreak ==
  /\ pc = "judge"
  /\ ~ Promising(nodes[node]) \/ Deepest(nodes[node])
  /\ outcome' = Returned("null", Original)
  /\ pc' = "done"
  /\ UNCHANGED <<search, nodes, queue, node, ranking, covered, disk, known>>

DiscardRequeue ==
  /\ pc = "judge"
  /\ ~ Promising(nodes[node]) \/ Deepest(nodes[node])
  /\ queue' = queue \cup {node}
  /\ pc' = "search"
  /\ UNCHANGED <<search, nodes, node, ranking, covered, disk, outcome, known>>

Discard ==
  /\ pc = "judge"
  /\ ~ Promising(nodes[node]) \/ Deepest(nodes[node])
  /\ pc' = "search"
  /\ UNCHANGED <<search, nodes, queue, node, ranking, covered, disk, outcome, known>>

(* Faulty variant: results are not remembered, so that looking at those of *)
(* the parent runs the parent again.                                       *)
SuspectRerunning ==
  /\ pc = "judge"
  /\ Promising(nodes[node]) /\ ~ Deepest(nodes[node])
  /\ covered' = IF nodes[node].parent = 0 THEN covered ELSE {Policy(nodes[nodes[node].parent])}
  /\ pc' = "rank"
  /\ UNCHANGED <<search, nodes, queue, node, ranking, disk, outcome, known>>

Suspect ==
  /\ pc = "judge"
  /\ Promising(nodes[node]) /\ ~ Deepest(nodes[node])
  /\ pc' = "rank"
  /\ UNCHANGED <<search, nodes, queue, node, ranking, covered, disk, outcome, known>>

(* getSuspicionRank reads the coverage there is.                           *)
RankBySpectrum ==
  /\ pc = "rank" /\ search.method = "spectrum"
  /\ \E f \in covered :
       \E s \in (IF f \in DOMAIN suspicion THEN {suspicion[f]} ELSE SpectrumRankings) :
         /\ ranking' = s
         /\ suspicion' = [g \in DOMAIN suspicion \cup covered |->
                            IF g = f THEN s ELSE suspicion[g]]
  /\ pc' = "expand"
  /\ UNCHANGED <<search, nodes, queue, node, covered, disk, outcome, verdicts>>

RankAtRandom ==
  /\ pc = "rank" /\ search.method = "random"
  /\ ranking' \in RandomRankings
  /\ pc' = "expand"
  /\ UNCHANGED <<search, nodes, queue, node, covered, disk, outcome, known>>

(* The listing of the mutants: position by position, variant by variant.   *)
RankOf(k)    == 1 + ((k - 1) \div Variants)
VariantOf(k) == 1 + ((k - 1) % Variants)

(* Faulty variant: the children stay in the layer of the node.             *)
ChildrenSameLayer ==
  LET n == nodes[node] IN
  [k \in 1 .. Len(ranking) * Variants |->
     Node(Append(n.file, Mutation(ranking[RankOf(k)], VariantOf(k))),
          node, n.total + RankOf(k), n.layer)]

(* The mutants of the node.                                                *)
Children ==
  LET n == nodes[node] IN
  [k \in 1 .. Len(ranking) * Variants |->
     Node(Append(n.file, Mutation(ranking[RankOf(k)], VariantOf(k))),
          node, n.total + RankOf(k), n.layer + 1)]

(* saveStringToTextFile, for one mutant after the other: a file that is    *)
(* there is deleted first, so the last mutant of a name stays.             *)
LastNamed(f) ==
  CHOOSE k \in DOMAIN Children :
    /\ Children[k].file = f
    /\ \A l \in DOMAIN Children : Children[l].file = f => l <= k

Written ==
  LET new == {Children[k].file : k \in DOMAIN Children} IN
  [f \in DOMAIN disk \cup new |->
     IF f \in new
       THEN LET k == LastNamed(f) IN
            Append(Policy(nodes[node]), Change(ranking[RankOf(k)], VariantOf(k)))
       ELSE disk[f]]

Expand ==
  /\ pc = "expand"
  /\ nodes' = nodes \o Children
  /\ queue' = queue \cup (Len(nodes) + 1 .. Len(nodes) + Len(Children))
  /\ disk' = Written
  /\ ranking' = <<>>
  /\ pc' = "search"
  /\ UNCHANGED <<search, node, covered, outcome, known>>

Without(gone) == [f \in DOMAIN disk \ gone |-> disk[f]]

(* Faulty variant: the files of all nodes are deleted.                     *)
CleanUpAll == Without({nodes[i].file : i \in DOMAIN nodes})

(* After the loop the files of the nodes still queued are deleted.         *)
CleanUp == Without({nodes[i].file : i \in queue})

ReturnRepair ==
  /\ pc = "found"
  /\ outcome' = Returned("repair", nodes[node].file)
  /\ disk' = CleanUp
  /\ queue' = {}
  /\ pc' = "done"
  /\ UNCHANGED <<search, nodes, node, ranking, covered, known>>

GiveUp ==
  /\ pc = "search" /\ queue = {}
  /\ outcome' = Returned("null", Original)
  /\ pc' = "done"
  /\ UNCHANGED <<search, nodes, queue, node, ranking, covered, disk, known>>

Next == \/ Poll \/ RunTests \/ TestsBreak \/ Discard \/ Suspect
        \/ RankBySpectrum \/ RankAtRandom \/ Expand
        \/ ReturnRepair \/ GiveUp

(* One thread, and no call that blocks: the loop goes on while it can.     *)
Spec == Init /\ [][Next]_vars /\ WF_vars(Next)

-----------------------------------------------------------------------------
Locations == {"search", "run", "judge", "rank", "expand", "found", "done"}

TypeOK ==
  /\ search \in Searches
  /\ pc \in Locations
  /\ queue \subseteq DOMAIN nodes
  /\ node \in 0 .. Len(nodes)
  /\ \A i \in DOMAIN nodes :
       /\ nodes[i].parent \in 0 .. i - 1
       /\ nodes[i].layer = Len(nodes[i].file)
       /\ nodes[i].layer <= search.layers
       /\ nodes[i].result \in Results \cup {NotRun}

(* The ranking a node is mutated by comes from the run of that very policy *)
(* ("make sure to run tests before calling this method"), although a node  *)
(* remembers its results, the coverage is overwritten by every run and the *)
(* file may be overwritten by another mutant of its name.                  *)
RankedFromOwnRun ==
  pc = "expand" /\ search.method = "spectrum" =>
    /\ covered = {Policy(nodes[node])}
    /\ ranking = suspicion[Policy(nodes[node])]

(* Best first: nothing that is still queued is cheaper than anything that  *)
(* has been run.  With it, the repair found is one of the cheapest of all  *)
(* the nodes made.                                                         *)
CheapestFirst ==
  /\ \A i \in DOMAIN nodes, j \in queue :
       nodes[i].result # NotRun => nodes[i].total <= nodes[j].total
  /\ pc = "found" \/ outcome.kind = "repair" =>
       \A i \in DOMAIN nodes : nodes[i].total < nodes[node].total => ~ AllPass(nodes[i].result)

(* The mutants that have a file to themselves, and can be told by its      *)
(* name: those without a changed comparison of integers.                   *)
Plain(f) == \A k \in DOMAIN f : f[k][1] # -1

(* null is an honest answer, as far as the names go: every node made was   *)
(* run and failed a test, and only nodes that broke a test or are too deep *)
(* were not mutated; so every mutant that can be told by its name was      *)
(* tested itself.  (Of the mutants sharing a name only the last written    *)
(* is.)                                                                    *)
GaveUpExhausted ==
  outcome.kind = "null" =>
    \A i \in DOMAIN nodes :
      /\ nodes[i].result # NotRun /\ ~ AllPass(nodes[i].result)
      /\ Promising(nodes[i]) /\ ~ Deepest(nodes[i]) =>
           \E j \in DOMAIN nodes : nodes[j].parent = i
      /\ Plain(nodes[i].file) =>
           nodes[i].file \in DOMAIN verdicts /\ ~ AllPass(verdicts[nodes[i].file])

(* Two mutants of a policy get one name: of the combining algorithm, which *)
(* is mutated at -1 and at 0; in random order, of the last rule, which is  *)
(* listed twice; by a change of a comparison, of two rules that compare    *)
(* integers.                                                               *)
ListedTwice(m) ==
  \/ m[1] = 0
  \/ search.method = "random" /\ m[1] = search.rules
  \/ /\ m[1] = -1
     /\ \/ \E p, q \in search.compares : p # q
        \/ search.method = "random" /\ search.rules \in search.compares

(* What is on disk under the name start returns passes every test, and a   *)
(* mutant that can be told by its name is that one.  The file is there     *)
(* unless another node of its name was still queued, when the clean-up     *)
(* deletes it: which takes a mutation whose name was given twice.          *)
RepairKept ==
  outcome.kind = "repair" =>
    LET f == outcome.file IN
    /\ f \in DOMAIN disk => AllPass(verdicts[disk[f]])
    /\ Plain(f) => f \in DOMAIN verdicts /\ AllPass(verdicts[f])
    /\ f \in DOMAIN disk <=>
         \A i \in DOMAIN nodes : nodes[i].file = f => nodes[i].result # NotRun
    /\ f \in DOMAIN disk \/ \E k \in DOMAIN f : ListedTwice(f[k])

(* The search ends: every mutant is one layer deeper than its parent.      *)
SearchEnds == <>(pc = "done")
=============================================================================

------------------------------ MODULE CutInfo ------------------------------
(***************************************************************************)
(* The cut information of the string theory (strArgmt.cpp).  A split of    *)
(* two equal concatenations cuts two variables along a new one; every      *)
(* variable keeps the variables it was cut from, so that a split that      *)
(* would cut along a common ancestor again, and so go on for ever, is      *)
(* refused.  The information is backtracked with the solver's scopes: a    *)
(* variable has a stack of entries, each of a level and a set of variables *)
(* that includes the entry below it.                                       *)
(*                                                                         *)
(* A push is made only on a top of a smaller level, so the levels of a     *)
(* stack rise to its top and the stack is modelled by its set of entries.  *)
(***************************************************************************)
EXTENDS Integers, FiniteSets

CONSTANT
  MaxNode      (* bound on the string variables, made ones included        *)

ASSUME MaxNodeAssumption == MaxNode \in Nat

Node == 1 .. MaxNode

(* T_cut *)
Entry == [level : Int, vars : SUBSET Node]

VARIABLES
  sLevel,      (* depth of the solver's scopes                             *)
  cutVARMap    (* the stack of every variable, {} for one not in the map   *)

(* The variables of the top entry.                                         *)
TopVars(stack) ==
  UNION {e.vars : e \in {f \in stack : \A g \in stack : g.level <= f.level}}

(* Faulty variant: the top entry is added to whatever its level is.        *)
WithCutInTop(stack, slevel, vars) ==
  LET top == {e \in stack : \A g \in stack : g.level <= e.level}
  IN IF stack = {} THEN {[level |-> slevel, vars |-> vars]}
     ELSE (stack \ top) \cup {[e EXCEPT !.vars = @ \cup vars] : e \in top}

(* A push of a copy of the top with more variables, or their addition to   *)
(* the top when it is of this level.                                       *)
WithCut(stack, slevel, vars) ==
  {e \in stack : e.level # slevel} \cup {[level |-> slevel, vars |-> TopVars(stack) \cup vars]}

(* Faulty variant: only one of the variables that are cut is merged.       *)
AddCutInfoOne(stack, slevel, map, srcNodes) ==
  WithCut(stack, slevel, TopVars(map[CHOOSE src \in srcNodes : TRUE]))

(* addCutInfoMerge from each of the variables srcNodes, as a split does.   *)
AddCutInfoMerge(stack, slevel, map, srcNodes) ==
  WithCut(stack, slevel, UNION {TopVars(map[src]) : src \in srcNodes})

(* checkandInit_cutVAR of some variables: its own ancestor, at level -1.   *)
CheckandInit(map, nodes) ==
  [n \in Node |-> IF n \in nodes /\ map[n] = {} THEN WithCut({}, -1, {n}) ELSE map[n]]

HasSelfCut(map, n1, n2) == TopVars(map[n1]) \cap TopVars(map[n2]) # {}

(* Faulty variant: pops while the top is above the level that is left.     *)
CutsLeftAbove(map, slevel) ==
  [n \in Node |-> {e \in map[n] : e.level <= slevel + 1}]

(* The entries cb_pop leaves: it pops while the top is neither of level 0  *)
(* nor below the level that is returned to.  What was recorded at that     *)
(* level goes too, although the scope of that level is still open.         *)
CutsLeft(map, slevel) ==
  [n \in Node |->
    {e \in map[n] : \E f \in map[n] : /\ e.level <= f.level
                                      /\ f.level = 0 \/ f.level < slevel}]

(* No entry is of a scope that is closed: the two "should not be here" of  *)
(* addCutInfoOneNode and addCutInfoMerge are not reached.                  *)
LevelsWithinScope ==
  /\ sLevel \in Nat
  /\ \A n \in Node : \A e \in cutVARMap[n] : e.level <= sLevel
=============================================================================

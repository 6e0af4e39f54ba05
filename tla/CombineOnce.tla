---------------------------- MODULE CombineOnce ----------------------------
(***************************************************************************)
(* The abstract combining algorithm: one step from a list of children to a *)
(* verdict that never changes afterwards.  Allowed says which verdicts an  *)
(* algorithm may give; the modules that model a loop of the code           *)
(* instantiate it and show that the loop implements this specification.    *)
(***************************************************************************)
CONSTANTS Algorithms,     (* the combining algorithms                      *)
          ChildLists,     (* the lists of children they combine            *)
          Pending,        (* no verdict yet                                *)
          Allowed(_, _)   (* the verdicts of an algorithm on a list        *)

VARIABLES alg, children, verdict

vars == <<alg, children, verdict>>

Init == /\ alg \in Algorithms
        /\ children \in ChildLists
        /\ verdict = Pending

Decide == /\ verdict = Pending
          /\ verdict' \in Allowed(alg, children)
          /\ UNCHANGED <<alg, children>>

Spec == Init /\ [][Decide]_vars
=============================================================================

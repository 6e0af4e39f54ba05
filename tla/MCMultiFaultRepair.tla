------------------------ MODULE MCMultiFaultRepair ------------------------
(***************************************************************************)
(* Small searches for TLC: one with mutants of mutants, one with two rules *)
(* whose mutants share a name, one in random order.                        *)
(***************************************************************************)
EXTENDS MultiFaultRepair

MCSearches ==
  {[method |-> "spectrum", rules |-> 1, layers |-> 2, compares |-> {}],
   [method |-> "spectrum", rules |-> 2, layers |-> 1, compares |-> {1, 2}],
   [method |-> "random",   rules |-> 1, layers |-> 1, compares |-> {1}]}
=============================================================================

-------------------------- MODULE MCFreeVarSearch --------------------------
(***************************************************************************)
(* Inputs for TLC.  A free variable that is the empty string, the first    *)
(* and the last string of a tester, or the last string of the greatest     *)
(* length; a variable that unrolls constants of which one is a power of    *)
(* the other, both are powers of a third string, or neither.               *)
(***************************************************************************)
EXTENDS FreeVarSearch

MCInputs ==
  {[cores |-> {}, x |-> x] : x \in {<<>>, <<1, 1>>, <<0, 1, 1>>, <<1, 1, 1>>}}
  \cup {[cores |-> {<<0>>, <<0, 0>>}, x |-> x] : x \in {<<>>, <<0, 0, 0, 0, 0, 0>>}}
  \cup {[cores |-> {<<0, 1, 0, 1>>, <<0, 1, 0, 1, 0, 1>>}, x |-> Unrolled(<<0, 1>>, 12)]}
  \cup {[cores |-> {<<0, 1>>, <<1, 0>>}, x |-> <<>>]}
=============================================================================

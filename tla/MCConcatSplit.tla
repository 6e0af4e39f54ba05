--------------------------- MODULE MCConcatSplit ---------------------------
(***************************************************************************)
(* Inputs for TLC: pairs of every type, among them pairs whose arguments   *)
(* are cut again, so that cuts build on cuts, each with a few solutions.   *)
(***************************************************************************)
EXTENDS ConcatSplit

MCChar == {"a", "b"}

X == Var(1)
Y == Var(2)
M == Var(3)
N == Var(4)
V == Var(5)

A == <<"a">>
B == <<"b">>
AA == <<"a", "a">>
AB == <<"a", "b">>
BA == <<"b", "a">>
ABA == <<"a", "b", "a">>

(* Values of X, Y, M, N and V.                                             *)
MCWorlds ==
  {<<<<>>, <<>>, A, <<>>, A>>,
   <<AA, <<>>, A, A, AA>>,
   <<AA, AA, <<"a", "a", "a">>, A, <<"a", "a", "a", "a">>>>,
   <<A, BA, A, <<>>, ABA>>,
   <<AB, A, B, A, ABA>>,
   <<A, B, B, <<>>, AB>>,
   <<ABA, <<>>, BA, BA, ABA>>}

MCInputs ==
  {{Eq(V, <<X, Y>>), Eq(V, <<M, N>>), Eq(M, <<Y, N>>)},
   {Eq(V, <<X, Y>>), Eq(V, <<M, Str(AB)>>), Eq(M, <<Y, N>>)},
   {Eq(V, <<X, Y>>), Eq(V, <<Str(AB), N>>), Eq(X, <<N, M>>)},
   {Eq(V, <<X, Y>>), Eq(V, <<Y, X>>)},
   {Eq(Y, <<Str(B), M>>), Eq(Y, <<N, Str(BA)>>)},
   {Eq(Str(ABA), <<X, Y>>)}, {Eq(Str(ABA), <<X, Y>>), Eq(X, <<M, N>>)},
   {Eq(Empty, <<X, Y>>), Eq(V, <<M, Y>>)},
   {Eq(V, <<Str(AB), Y>>), Eq(V, <<Str(A), N>>)},
   {Eq(V, <<X, Str(A)>>), Eq(V, <<M, Str(BA)>>)}}

(* The input swaps the arguments of two concatenations of constants.       *)
MCSwapped == {{Eq(Str(ABA), <<X, Y>>), Eq(Str(<<"a", "a", "b">>), <<Y, X>>)}}

MCSwappedWorlds == {<<AB, A>>}
=============================================================================

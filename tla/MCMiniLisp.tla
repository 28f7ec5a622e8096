---------------------------- MODULE MCMiniLisp -----------------------------
(***************************************************************************)
(* Model-checking instance of MiniLisp: the cycles of PageHeap as the      *)
(* passes they make.                                                       *)
(***************************************************************************)
EXTENDS MiniLisp, TLC

Symmetry == Permutations(Id)

Minor == <<<<"G0", "G0">>>>
Promotion == <<<<"G0", "G1">>>>
Major == <<<<"G1", "Tenured">>, <<"G0", "G0">>>>
Full == <<<<"G0", "G1">>, <<"G1", "Tenured">>, <<"Tenured", "Tenured">>>>

\* Young and old objects, all of which a cycle may move.
MinorOrFull == {<<>>, Minor, Full}

\* Objects of three generations.
PromotionOrMajor == {<<>>, Promotion, Major}
=============================================================================

----------------------------- MODULE MCPageHeap ------------------------------
(***************************************************************************)
(* Model-checking instance of PageHeap.  Identities and the slots that     *)
(* hold words are interchangeable.                                         *)
(***************************************************************************)
EXTENDS PageHeap, TLC

Symmetry == Permutations(Id) \cup Permutations(Root)
=============================================================================

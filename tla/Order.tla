-------------------------------- MODULE Order --------------------------------
(***************************************************************************)
(* Finite sets of integers, as the page scans of the code walk them.       *)
(***************************************************************************)
EXTENDS Integers, FiniteSets

\* The ends of S, when it has elements.
Least(S) == CHOOSE x \in S : \A y \in S : x <= y
Greatest(S) == CHOOSE x \in S : \A y \in S : x >= y

\* The elements of S, from the least to the greatest.
Ascending(S) ==
  [i \in 1 .. Cardinality(S) |->
     CHOOSE x \in S : Cardinality({y \in S : y < x}) = i - 1]

\* The values of f, for a function or a sequence.
ImageOf(f) == {f[x] : x \in DOMAIN f}
=============================================================================

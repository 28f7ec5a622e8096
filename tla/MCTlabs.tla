------------------------------ MODULE MCTlabs -------------------------------
(***************************************************************************)
(* Model-checking instances of Tlabs: pages of a few cells.                *)
(***************************************************************************)
EXTENDS Tlabs

CONSTANTS m1, m2  \* mutators

\* One mutator allocates in its own buffer, the other in a slab it bumps.
Boxed == {<<m1, <<"G0", "boxed">>>>}
BoxedAndSlab == Boxed \cup {<<m2, SlabBuffer>>}

\* Minors that stay in G0, after the client has marked and without.
Recycling == {<<"G0", "G0", FALSE>>}
Marked == {<<"G0", "G0", TRUE>>}
MarkedOrNot == Recycling \cup Marked

\* Minors that promote to G1.
Promotion == {<<"G0", "G1", FALSE>>}
=============================================================================

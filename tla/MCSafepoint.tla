----------------------------- MODULE MCSafepoint -----------------------------
(***************************************************************************)
(* Model-checking instance of Safepoint.  No symmetry: the run checks      *)
(* temporal properties.                                                    *)
(***************************************************************************)
EXTENDS Safepoint

CONSTANTS m1, m2, m3

Threads == {m1, m2, m3}
=============================================================================

--------------------------- MODULE MCEhciSchedule ---------------------------
EXTENDS EhciSchedule, TLC

(* The QHs of the pool are interchangeable.                                *)
Symmetry == Permutations(Qhs)
=============================================================================

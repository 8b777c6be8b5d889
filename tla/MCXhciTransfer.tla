--------------------------- MODULE MCXhciTransfer ---------------------------
EXTENDS XhciTransfer, TLC

CONSTANTS bulk, int, hub, cmd

\* The TRBs of the rings in the runs.
SafeRoom == bulk :> 1 @@ int :> 3 @@ hub :> 2 @@ cmd :> 2
LiveRoom == bulk :> 2 @@ int :> 2 @@ cmd :> 2

\* AllocateZeroPool returns any free address, or the same one as often as it can.
AnyOf(us) == us
LowestOf(us) == IF us = {} THEN {} ELSE {CHOOSE u \in us : TRUE}

\* Freed addresses are interchangeable.
UrbSymmetry == Permutations(Urbs)
=============================================================================

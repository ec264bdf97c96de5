------------------------- MODULE MCReconcilerDaemon -------------------------
(***************************************************************************)
(* Instances of ReconcilerDaemon for TLC: two replicas on connections of   *)
(* their own, or behind a pool that hands any free backend to either.      *)
(***************************************************************************)
EXTENDS ReconcilerDaemon

CONSTANTS r1, r2, b1, b2, b3

MCDirect == [r \in Replicas |-> IF r = r1 THEN {b1} ELSE {b2}]
MCPooled == [r \in Replicas |-> Backends]

MCDeployments == {MCDirect, MCPooled}
MCDirectOnly == {MCDirect}
=============================================================================

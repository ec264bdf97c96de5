--------------------------- MODULE MCEscrowLedger ---------------------------
(***************************************************************************)
(* Instances of EscrowLedger for TLC.                                      *)
(***************************************************************************)
EXTENDS EscrowLedger

CONSTANTS u1, t1, run, tenant, k1, k2, p1, p2, loop

MCUsers == {u1}
MCInitialBalance == [u \in Users |-> 3]
MCDriftRatio == <<1, 2>>
=============================================================================

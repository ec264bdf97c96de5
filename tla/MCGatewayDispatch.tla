-------------------------- MODULE MCGatewayDispatch --------------------------
(***************************************************************************)
(* Instances of GatewayDispatch for TLC.                                   *)
(***************************************************************************)
EXTENDS GatewayDispatch

CONSTANTS u1, t1, tenant, c1, c2, c3

MCInitialBalance == [u \in Users |-> 3]
MCDefaultScopeCaps == [s \in Scopes |-> 4]
MCDriftRatio == <<1, 2>>
=============================================================================

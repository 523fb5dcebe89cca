--------------------------- MODULE MCGatewayLease ---------------------------
(* Small instances of GatewayLease: two gateways, two requests at a time. *)
EXTENDS GatewayLease, TLC

CONSTANTS g1, g2

MCGateway == {g1, g2}
MCOrder == (g1 :> 1) @@ (g2 :> 2)
============================================================================

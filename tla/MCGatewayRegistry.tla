------------------------- MODULE MCGatewayRegistry --------------------------
(* GatewayRegistry on a small instance.                                     *)
EXTENDS GatewayRegistry
=============================================================================

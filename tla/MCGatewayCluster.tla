-------------------------- MODULE MCGatewayCluster --------------------------
(* GatewayCluster on a small instance: the names its cfgs give to gateways, *)
(* users, descriptors and messages.                                         *)
EXTENDS GatewayCluster

CONSTANTS g1, g2, alice, bob, f1, f2, m1, m2
=============================================================================

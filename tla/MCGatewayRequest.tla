-------------------------- MODULE MCGatewayRequest --------------------------
(* An instance of GatewayRequest for TLC; the constants are in the .cfg file. *)
EXTENDS GatewayRequest

=============================================================================

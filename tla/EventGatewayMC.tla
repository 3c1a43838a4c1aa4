--------------------------- MODULE EventGatewayMC ---------------------------
(* Instances of EventGateway for TLC. *)
EXTENDS EventGateway

CONSTANTS r1, d1
=============================================================================

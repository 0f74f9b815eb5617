--------------------------- MODULE MCGatewaySync ---------------------------
(***************************************************************************)
(* Two router rules and a resource they depend on. The runs differ in what *)
(* may happen to the files.                                                *)
(***************************************************************************)
EXTENDS GatewaySync

CONSTANTS r1, r2, d1
=============================================================================

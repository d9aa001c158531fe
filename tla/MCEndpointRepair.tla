-------------------------- MODULE MCEndpointRepair --------------------------
(* Two commands at a time over two cloudflared processes and two brokers. *)
EXTENDS EndpointRepair

=============================================================================

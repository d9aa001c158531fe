------------------------- MODULE MCCommandRequests -------------------------
(***************************************************************************)
(* Two command requests.                                                   *)
(***************************************************************************)
EXTENDS CommandRequests
=============================================================================

--------------------------- MODULE MCWriteRequests ---------------------------
(***************************************************************************)
(* A manual request and a host-confirmed write over the same two files.    *)
(***************************************************************************)
EXTENDS WriteRequests

CONSTANTS m1, h1

MCMode == [i \in Ids |-> IF i = h1 THEN "host" ELSE "manual"]
MCTouches == [i \in Ids |-> {1, 2}]
=============================================================================

----------------------------- MODULE MCApiServer -----------------------------
(***************************************************************************)
(* Values for ApiServer: three requests on a pool of two connections.      *)
(***************************************************************************)
EXTENDS ApiServer

CONSTANTS r1, r2, r3

=============================================================================

--------------------------- MODULE MCMobileEngine ---------------------------
(***************************************************************************)
(* Three attempts, on one address, with a protocol whose dial looks at its *)
(* context and one whose dial does not.                                    *)
(***************************************************************************)
EXTENDS MobileEngine
=============================================================================

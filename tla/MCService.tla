----------------------------- MODULE MCService ------------------------------
(***************************************************************************)
(* The daemon with two connections.                                        *)
(***************************************************************************)
EXTENDS Service

=============================================================================

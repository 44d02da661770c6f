------------------------------ MODULE MCClient ------------------------------
(* The application against its daemon, model-checked with the bounds of     *)
(* MCClient.cfg.                                                            *)
EXTENDS Client

=============================================================================

------------------------------ MODULE MCTunnel ------------------------------
(***************************************************************************)
(* Three workers (two in MCTunnel_side) and three endpoints, so that       *)
(* trials overlap and a worker whose trial failed takes another job; two   *)
(* callers that move groups.                                               *)
(***************************************************************************)
EXTENDS Tunnel, TLC

CONSTANTS e1, e2, e3

MCSymmetry == Permutations(Workers) \cup Permutations(Groups) \cup Permutations(Movers)

MCCandidates == <<e1, e2, e3>>

=============================================================================

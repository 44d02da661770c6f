--------------------------- MODULE MCGroupRepair ---------------------------
(* GroupRepair with one canary group: checked in every round, or, with       *)
(* Persistent empty, in any round, as a group of kind "crisis" is.           *)
EXTENDS GroupRepair, TLC

CONSTANTS chat, w1, w2, w3

OneGroup == {chat}
TwoWorkers == {w1, w2}
ThreeWorkers == {w1, w2, w3}

WorkerSymmetry == Permutations(TwoWorkers)
============================================================================

----------------------------- MODULE MCStrategy -----------------------------
(***************************************************************************)
(* Strategy with two built-in strategies, the default with a group of its  *)
(* own like the one the wrapper adds, and five signed entries: one with a  *)
(* process-wide option between its groups and such a group at the end, one *)
(* with an option that is not allowed, one that lacks a value, one for     *)
(* another system, one whose name is taken.                                *)
(***************************************************************************)
EXTENDS Strategy, TLC

MCNative ==
  <<[id |-> "safe", pass |-> FALSE,
     args |-> <<"--no-domain", "--timeout", "3", "--split", "1", "--auto", "torst", "--tlsrec", "1+s">>],
    [id |-> "tlsrec", pass |-> FALSE, args |-> <<"--no-domain", "--timeout", "3", "--tlsrec", "1+s">>]>>

MCSpecs ==
  <<[id |-> "signed", here |-> TRUE,
     args |-> <<"--split", "1", "--timeout=3", "--auto", "torst,ssl_err", "--oob", "1+s">>],
    [id |-> "daemon", here |-> TRUE, args |-> <<"--split", "1", "--daemon">>],
    [id |-> "cut", here |-> TRUE, args |-> <<"--no-domain", "--split">>],
    [id |-> "other", here |-> FALSE, args |-> <<"--oob", "1">>],
    [id |-> "safe", here |-> TRUE, args |-> <<"--oob", "1">>]>>

MCSymmetry == Permutations(Workers) \cup Permutations(Networks)
=============================================================================

---------------------------- MODULE MCLifecycle ----------------------------
(* Lifecycle on two interfaces: two addresses on one, one on the other. *)
EXTENDS Lifecycle, TLC

CONSTANTS wifi1, wifi2, wired, h1, h2

MCAddrs == {wifi1, wifi2, wired}
MCIface == wifi1 :> "en0" @@ wifi2 :> "en0" @@ wired :> "en1"
\* Two networks, for the runs with temporal properties.
MCTwo == {wifi1, wired}
MCTwoIface == wifi1 :> "en0" @@ wired :> "en1"
MCHeals == {h1, h2}

HealSymmetry == Permutations(MCHeals)
============================================================================

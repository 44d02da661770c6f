---------------------------- MODULE MCComponents ----------------------------
(* Components with a few instances of each kind and two goroutines. *)
EXTENDS Components, TLC

CONSTANTS d1, d2, t1, t2, h1, h2, h3, w1, w2

Resolvers == {d1, d2}
Gateways == {t1, t2}
Helpers == {h1, h2, h3}
MCInstances == Resolvers \cup Gateways \cup Helpers
FewInstances == MCInstances \ {h3}
KindOf(i) == IF i \in Resolvers THEN "dns" ELSE IF i \in Gateways THEN "tunnel" ELSE "desync"
MCKind == [i \in MCInstances |-> KindOf(i)]
FewKind == [i \in FewInstances |-> KindOf(i)]
MCWorkers == {w1, w2}

Interchangeable == Permutations(Resolvers) \cup Permutations(Gateways) \cup Permutations(Helpers)
                   \cup Permutations(MCWorkers)
=============================================================================

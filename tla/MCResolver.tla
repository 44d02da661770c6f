----------------------------- MODULE MCResolver -----------------------------
(* Resolver with two callers, two questions and room for one cached answer. *)
EXTENDS Resolver, TLC

CONSTANTS c1, c2, q1, q2, f1, f2, f3, e1, e2

MCCallers   == {c1, c2}
MCLookups   == {c2}
MCTTLs      == {1, 2}
MCQuestions == {q1, q2}
MCEndpoints == {e1, e2}
MCFlights   == {f1, f2, f3}

Symmetry == Permutations(MCQuestions)
              \cup Permutations(MCEndpoints) \cup Permutations(MCFlights)
=============================================================================

-------------------------- MODULE MCTransportFares --------------------------
(* One category with three cards, one route, two estimates at a time. *)
EXTENDS TransportFares, FiniteSets, TLC

MCCards == {[base |-> 5, perKm |-> 33, minimum |-> 6, active |-> TRUE],
            [base |-> 5, perKm |-> 33, minimum |-> 6, active |-> FALSE],
            [base |-> 40, perKm |-> 33, minimum |-> 6, active |-> TRUE]}

\* Bounds: three quotes, and one distance stored over another.
FewQuotes == Cardinality(quotes) <= 3 /\ \A r \in Routes : Len(cached[r]) <= 2
MCSymmetry == Permutations(Requests)
=============================================================================

----------------------------- MODULE MCCatalogue -----------------------------
(* Two properties, two listings and one room type. *)
EXTENDS Catalogue, TLC

\* One listing at a time has gone a way of its own, of which nothing is claimed.
OneApart == Cardinality(apart) <= 1

MCSymmetry == Permutations(Properties) \cup Permutations(Listings) \cup Permutations(Requests)
=============================================================================

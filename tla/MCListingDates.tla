---------------------------- MODULE MCListingDates ----------------------------
(* One listing with one tour. *)
EXTENDS ListingDates, TLC

CONSTANTS tour, b1, b2, i1

OnePlace == <<[variant |-> tour, travel |-> 1, qty |-> 1]>>

ThreePlaces == [v \in {tour} |-> 3]

TwoPlaces == [v \in {tour} |-> 2]

\* A hold of both nights, and a booking of two items on the first.
MCOrder ==
    b1 :> [items |-> OnePlace, checkIn |-> 1, nights |-> 2, bank |-> TRUE] @@
    b2 :> [items |-> OnePlace \o OnePlace, checkIn |-> 1, nights |-> 1, bank |-> FALSE]

OneRequested == [i \in {i1} |-> [variant |-> tour, travel |-> 1, qty |-> 1]]

MCSpans == {<<1, 1>>, <<1, 2>>}
=============================================================================

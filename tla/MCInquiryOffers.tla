--------------------------- MODULE MCInquiryOffers ---------------------------
(* A room of a hotel for two nights together with a tour for two, and a tour *)
(* with an end date: prices that the guest saw a cent away from each other.  *)
EXTENDS InquiryOffers, TLC

CONSTANTS hotel, tour

Room == [listing |-> hotel, rooms |-> 1, roomPrice |-> 11, price |-> 11,
         nights |-> 2, ends |-> TRUE, travelers |-> 1]
Tour == [listing |-> tour, rooms |-> 0, roomPrice |-> 0, price |-> 11,
         nights |-> 1, ends |-> FALSE, travelers |-> 2]
LongTour == [Tour EXCEPT !.ends = TRUE, !.nights = 3]

MCPrices == hotel :> {12, 15} @@ tour :> {0, 12}

MCCarts == {<<Room, Tour>>, <<LongTour>>}

MCSymmetry == Permutations(Requests)
=============================================================================

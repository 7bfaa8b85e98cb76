---------------------------- MODULE MCListingMedia ----------------------------
(* Three photos and two requests at a time. *)
EXTENDS ListingMedia, TLC

MCSymmetry == Permutations(Photos) \cup Permutations(Requests)
=============================================================================

------------------------- MODULE MCInquiryLifecycle -------------------------
(* Instances of InquiryLifecycle for TLC: a cart with two stays around a tour. *)
EXTENDS InquiryLifecycle, TLC

CONSTANTS r1, r2, r3, r4, hotel, tour, villa

MCCart == <<hotel, tour, villa>>

Symmetry == Permutations(Requests)
=============================================================================

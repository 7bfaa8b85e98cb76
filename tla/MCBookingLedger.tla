--------------------------- MODULE MCBookingLedger ---------------------------
(* One transaction of the gateway that succeeds and one that fails, both of *)
(* the same booking, which is for a stay.                                   *)
EXTENDS BookingLedger, TLC

CONSTANTS b1, b2, good, bad

MCReported == good :> [booking |-> b1, status |-> "succeeded"]
              @@ bad :> [booking |-> b1, status |-> "failed"]

MCSymmetry == Permutations(Requests)
=============================================================================

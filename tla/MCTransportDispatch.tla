------------------------- MODULE MCTransportDispatch -------------------------
(* Instances of TransportDispatch for TLC. *)
EXTENDS TransportDispatch, TLC

\* Handlers, and drivers, are all alike.
MCSymmetry == Permutations(Requests) \cup Permutations(Drivers)
=============================================================================

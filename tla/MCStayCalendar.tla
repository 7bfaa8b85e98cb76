---------------------------- MODULE MCStayCalendar ----------------------------
(* One property with two room types, of which the guests ask for both. *)
EXTENDS StayCalendar, TLC

CONSTANTS u1, u2, u3, t0, t1

MCSymmetry == Permutations(Handlers) \cup Permutations(Bookings)

MCUnitType == (u1 :> t0) @@ (u2 :> t0) @@ (u3 :> t1)
=============================================================================

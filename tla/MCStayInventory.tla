-------------------------- MODULE MCStayInventory --------------------------
(* Two bookings of one property: a direct one with two lines of one room    *)
(* type, and one with a line, for an inquiry.                               *)
EXTENDS StayInventory, TLC

CONSTANTS b1, b2, k1, single, twin1, twin2

MCStays == {{1}, {1, 2}}

MCItemsOf == [b \in Bookings |-> IF b = b1 THEN {twin1, twin2} ELSE {single}]

MCItemType == [i \in Items |-> 1]

MCItemCount == [i \in Items |-> 1]
=============================================================================

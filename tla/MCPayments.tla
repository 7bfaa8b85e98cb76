----------------------------- MODULE MCPayments -----------------------------
(* Instances of Payments: two checkouts of one transport booking, and one of *)
(* a stay request.                                                           *)
EXTENDS Payments, TLC

CONSTANTS o1, o2, t1

OneTarget == [o \in Orders |-> t1]

\* A forged success, and a genuine one for the wrong amount.
Forged == {[order |-> o1, status |-> "succeeded", signature_valid |-> FALSE]}

ForgedAndMismatched ==
    Forged \cup {[order |-> o1, status |-> "succeeded", signature_valid |-> TRUE]}
=============================================================================

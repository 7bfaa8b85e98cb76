----------------------------- MODULE MCDriverFile -----------------------------
(* Instances of DriverFile for TLC. *)
EXTENDS DriverFile, TLC

\* Handlers, files, fields and values are all alike.
MCSymmetry == Permutations(Requests) \cup Permutations(Assets) \cup Permutations(Fields)
              \cup Permutations(Values)
\* The two reviews never meet, so that one of them at a time is enough; without either the account
\* alone goes through everything that may happen to it.
MCDeployments == {{"change"}, {"photo"}, {}}
MCEdits == {[role |-> "TOURIST", vendor |-> "suspended"]}
\* Bound: beside a review the account is what sign-up and decisions made of it.
OneAtATime ==
    tables # {} => /\ driver # "none" => account.role = "DRIVER"
                   /\ account.vendor \in {"none", "approved", "suspended"}
                   /\ "status" \notin crossed
=============================================================================

------------------------------ MODULE MCAccounts ------------------------------
(* Two people with a login each, two rows and two addresses. *)
EXTENDS Accounts

MCSymmetry == Permutations(Accounts) \cup Permutations(Logins) \cup Permutations(Addresses) \cup Permutations(Requests)
=============================================================================

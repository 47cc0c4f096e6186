------------------------------ MODULE MCAccess ------------------------------
(* A small instance of Access.  Logins, like enrolments, are alike. *)
EXTENDS Access, TLC

Symmetry == Permutations(Logins) \cup Permutations(Enrolments)
=============================================================================

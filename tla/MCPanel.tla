------------------------------ MODULE MCPanel ------------------------------
(* A small instance of Panel: one login, no enrolment. *)
EXTENDS Panel
=============================================================================

----------------------------- MODULE MCStanding -----------------------------
(* Small instances of Standing. *)
EXTENDS Standing
=============================================================================

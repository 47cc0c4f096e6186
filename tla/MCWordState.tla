---------------------------- MODULE MCWordState ----------------------------
(* A small instance of WordState: weeks of two days, gold on two days three *)
(* apart, a curse at two misses in two weeks.                               *)
EXTENDS WordState
============================================================================

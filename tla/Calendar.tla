------------------------------ MODULE Calendar ------------------------------
(* The weeks by which a child's standing is kept (weekOf of server/api).    *)
EXTENDS Integers

CONSTANT MaxWeek  \* bound of the state space

ASSUME CalendarAssumption == MaxWeek \in Nat

VARIABLE week
=============================================================================

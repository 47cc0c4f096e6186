----------------------------- MODULE MCRunStart -----------------------------
(***************************************************************************)
(* RunStart on two lists of four words in all, one more than three manches *)
(* of one word hold; two requests at once, two days.                        *)
(***************************************************************************)
EXTENDS RunStart

CONSTANTS q1, q2, school, own

MCWords == 1 .. 4
MCItemsOf == [l \in {school, own} |-> IF l = school THEN {1, 2, 4} ELSE {3}]

(* A child who has met nothing, and one who has met all but one.             *)
MCHistories ==
  {<<"unmet", "unmet", "unmet", "unmet">>,
   <<"tarnished", "seen", "gold", "unmet">>}

MCAsks == {<<3, 1, 1, 2>>, <<2, 3>>}

MCClaims == {1, 2}

MCReports ==
  {[list |-> school, results |-> <<[item |-> 1, correct |-> TRUE],
                                   [item |-> 2, correct |-> FALSE]>>],
   [list |-> own, results |-> <<[item |-> 1, correct |-> TRUE]>>]}

MCSymmetry == Permutations(Requests)
=============================================================================

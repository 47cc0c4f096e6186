------------------------------- MODULE MCPlay -------------------------------
(* Small instances of Play and Twins: a gold word with a Jumelle, a cursed   *)
(* one with an Accentuee, and one the child has never met.                   *)
EXTENDS Twins, TLC

CONSTANTS or, maudit, neuf

MCWord == {or, maudit, neuf}
MCLetters == (or :> 2) @@ (maudit :> 1) @@ (neuf :> 3)
NoTrap == [c \in Couleur |-> 0]
MCTraps == (or :> [NoTrap EXCEPT !["Jumelles"] = 1]) @@
           (maudit :> [NoTrap EXCEPT !["Accentuees"] = 1]) @@ (neuf :> NoTrap)

Fresh  == [seen |-> FALSE, gold |-> FALSE, tarnished |-> FALSE, cursed |-> FALSE]
Cursed == [Fresh EXCEPT !.seen = TRUE, !.cursed = TRUE]
Gold   == [Fresh EXCEPT !.seen = TRUE, !.gold = TRUE]
MCStates == (or :> Gold) @@ (maudit :> Cursed) @@ (neuf :> Fresh)
MCLevels == [c \in Couleur |-> 1]

(* Another run levels the Jumelles and tames the cursed word. *)
MCLaterRows ==
  {[levels |-> [MCLevels EXCEPT !["Jumelles"] = 2],
    states |-> [MCStates EXCEPT ![maudit] = Gold]]}

On(w)    == [word |-> w, blind |-> FALSE, copy |-> FALSE, correct |-> TRUE, fast |-> FALSE]
Wrong(x) == [x EXCEPT !.correct = FALSE]

MCAnswers ==
  {On(or), Wrong(On(or)), [On(maudit) EXCEPT !.blind = TRUE],
   [On(neuf) EXCEPT !.copy = TRUE]}

MCOwned == {"Gomme", "Collectionneur", "Aimant"}
MCTargets == <<20, 72, 160>>
=============================================================================

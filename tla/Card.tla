-------------------------------- MODULE Card --------------------------------
(***************************************************************************)
(* What a child is promised about a word's card, without the bookkeeping   *)
(* behind it: the four faces a card is drawn with, and the ways from one   *)
(* to the next.  WordState is shown to implement it.                       *)
(***************************************************************************)
EXTENDS Naturals

CONSTANT TamingRun   \* right answers in a row that lift a curse

VARIABLES
  face,  \* what the card shows
  run    \* right answers in a row, counted up to TamingRun

vars == <<face, run>>

Init ==
  /\ face = "plain"
  /\ run = 0

(* A right answer keeps gold, restores it, or may earn it; it lifts a curse *)
(* when, and only when, it completes the taming run.                        *)
Right ==
  /\ run' = IF run < TamingRun THEN run + 1 ELSE run
  /\ \/ /\ face = "plain"
        /\ face' \in {"plain", "gold"}
     \/ /\ face \in {"gold", "tarnished"}
        /\ face' = "gold"
     \/ /\ face = "cursed"
        /\ face' = IF run' = TamingRun THEN "gold" ELSE "cursed"

(* A wrong one breaks the run, leaves no gold, and may bring the curse; it  *)
(* never lifts one.                                                         *)
Wrong ==
  /\ run' = 0
  /\ face' \in IF face = "cursed" THEN {"cursed"} ELSE {"plain", "cursed"}

(* A word left alone loses its lustre, never its gold. *)
Neglect ==
  /\ face = "gold"
  /\ face' = "tarnished"
  /\ UNCHANGED run

Next == Right \/ Wrong \/ Neglect

Spec == Init /\ [][Next]_vars
=============================================================================

------------------------------- MODULE Twins -------------------------------
(***************************************************************************)
(* Two runs that differ in one answer, judged side by side: the run the    *)
(* child played, and the same run with one of its faults put right.        *)
(***************************************************************************)
EXTENDS Play

VARIABLES
  mended, \* the fault put right, 0 for none
  twin    \* Replay's walk over the mended run

twins    == <<mended, twin>>
twinVars == <<vars, twins>>

Mended(i) == IF i = mended THEN [attempts[i] EXCEPT !.correct = TRUE] ELSE attempts[i]

TwinInit == Init /\ mended = 0 /\ twin = NoWalk

TwinFinish ==
  /\ Finish
  /\ mended' \in {i \in DOMAIN attempts : ~attempts[i].correct}
  /\ twin' = replay'

TwinAttempt ==
  /\ ReplayAttempt
  /\ twin' = IF twin.walk = "walking" THEN Scored(twin, Mended(replay.at + 1)) ELSE twin
  /\ UNCHANGED mended

TwinManche ==
  /\ ReplayManche
  /\ twin' = IF twin.walk = "walking" THEN Judged(twin) ELSE twin
  /\ UNCHANGED mended

(* A run without a fault has no twin but itself. *)
PerfectFinish ==
  /\ Finish
  /\ \A i \in DOMAIN attempts : attempts[i].correct
  /\ twin' = replay'
  /\ UNCHANGED mended

TwinNext ==
  \/ \E x \in Answers : Answer(x) /\ UNCHANGED twins
  \/ NextManche /\ UNCHANGED twins
  \/ Revanche /\ UNCHANGED twins
  \/ Lose /\ UNCHANGED twins
  \/ OtherRun /\ UNCHANGED twins
  \/ TwinFinish
  \/ PerfectFinish
  \/ TwinAttempt
  \/ TwinManche

TwinSpec == TwinInit /\ [][TwinNext]_twinVars

----------------------------------------------------------------------------
(* A right answer is never worth less than a fault in its place: with one   *)
(* fault put right no manche scores less, the combo is no lower, the money  *)
(* no less, and a run that is won, or gets past a manche, still does - the  *)
(* Gomme, the Collectionneur, the Revanche and the combo that crosses       *)
(* manches included (Replay, Score).                                        *)
RightIsNeverWorse ==
  /\ \A m \in Manches : twin.scores[m] >= replay.scores[m]
  /\ twin.combo >= replay.combo
  /\ twin.money >= replay.money
  /\ replay.walk \in {"walking", "won"} => twin.walk = replay.walk
  /\ replay.walk = "failed" => twin.walk # "refused"
=============================================================================

------------------------------ MODULE Standing ------------------------------
(***************************************************************************)
(* What a finished run leaves in a child's row: Apply of engine/replay.go, *)
(* which pays the attempts of the run one by one into the levels and then  *)
(* moves the rank, all in the week its caller gives it.                    *)
(***************************************************************************)
EXTENDS Rank, Levels

VARIABLE applying  \* whether Apply is among the attempts of a run

standing == <<rankVars, levelVars, applying>>

StandingInit == RankInit /\ LevelsInit /\ applying = FALSE

(* An attempt that pays experience. *)
PayAttempt ==
  /\ runs < MaxRuns
  /\ \E traps \in SUBSET Colors \ {{}} : GainXP(traps)
  /\ applying' = TRUE
  /\ UNCHANGED rankVars

(* After the last attempt, the outcome. *)
MoveRank ==
  /\ Won \/ \E early \in BOOLEAN : Lost(early)
  /\ applying' = FALSE
  /\ UNCHANGED levelVars

WeekPasses ==
  /\ ~ applying
  /\ NextWeek
  /\ LevelsWeek
  /\ UNCHANGED applying

StandingNext == PayAttempt \/ MoveRank \/ WeekPasses

StandingSpec == StandingInit /\ [][StandingNext]_standing
=============================================================================

------------------------------- MODULE Levels -------------------------------
(***************************************************************************)
(* A child's experience and level in each Couleur: GainXP of               *)
(* engine/rank.go, called by Apply for every attempt of a run.             *)
(***************************************************************************)
EXTENDS Calendar

CONSTANTS
  Colors,
  \* The fields of Config.
  XPPerLevel, LevelMax, LevelCooldownW,
  \* Bounds of the state space.
  MaxXP

ASSUME LevelsAssumption ==
  /\ XPPerLevel \in Nat \ {0}
  /\ LevelMax \in Nat \ {0}
  /\ LevelCooldownW \in Nat \ {0}
  /\ MaxXP \in Nat

VARIABLES
  level,       \* Child.Level
  xp,          \* Child.XP, whole as long as XPPerLevel is
  nextLevelW,  \* Child.NextLevelW
  \* History, per Couleur.
  earned,      \* experience ever earned
  levelledAt,  \* the weeks of its level-ups
  paidAt       \* the week of the last attempt that paid

levelVars == <<level, xp, nextLevelW, week, earned, levelledAt, paidAt>>

LevelsInit ==
  /\ level = [c \in Colors |-> 1]
  /\ xp = [c \in Colors |-> 0]
  /\ nextLevelW = [c \in Colors |-> 0]
  /\ week = 0
  /\ earned = [c \in Colors |-> 0]
  /\ levelledAt = [c \in Colors |-> {}]
  /\ paidAt = [c \in Colors |-> 0]

----------------------------------------------------------------------------
(* What the level a Couleur is leaving costs. *)
Need(c) == XPPerLevel * level[c]

(* Whether one more point of experience wins a level. *)
LevelsOneLate(c) == xp[c] + 1 > Need(c) /\ level[c] < LevelMax /\ week >= nextLevelW[c]

LevelsUp(c) ==
  /\ xp[c] + 1 >= Need(c)
  /\ level[c] < LevelMax
  /\ week >= nextLevelW[c]

XPSpentWhole(c) == IF LevelsUp(c) THEN 0 ELSE xp[c] + 1

XPAfter(c) == IF LevelsUp(c) THEN xp[c] + 1 - Need(c) ELSE xp[c] + 1

(* GainXP, for a right answer that was blind or in the boss manche, on a    *)
(* word with traps of these Couleurs; any other attempt changes nothing.    *)
GainXP(traps) ==
  /\ \A c \in traps : earned[c] < MaxXP
  /\ xp' = [c \in Colors |-> IF c \in traps THEN XPAfter(c) ELSE xp[c]]
  /\ level' = [c \in Colors |-> IF c \in traps /\ LevelsUp(c) THEN level[c] + 1 ELSE level[c]]
  /\ nextLevelW' =
       [c \in Colors |-> IF c \in traps /\ LevelsUp(c) THEN week + LevelCooldownW ELSE nextLevelW[c]]
  /\ earned' = [c \in Colors |-> IF c \in traps THEN earned[c] + 1 ELSE earned[c]]
  /\ levelledAt' =
       [c \in Colors |-> IF c \in traps /\ LevelsUp(c) THEN levelledAt[c] \cup {week} ELSE levelledAt[c]]
  /\ paidAt' = [c \in Colors |-> IF c \in traps THEN week ELSE paidAt[c]]
  /\ UNCHANGED week

LevelsWeek ==
  /\ week < MaxWeek
  /\ week' = week + 1
  /\ UNCHANGED <<level, xp, nextLevelW, earned, levelledAt, paidAt>>

LevelsNext == LevelsWeek \/ \E traps \in SUBSET Colors \ {{}} : GainXP(traps)

LevelsSpec == LevelsInit /\ [][LevelsNext]_levelVars

----------------------------------------------------------------------------
(* The type invariant. *)
LevelsTypeOK ==
  /\ level \in [Colors -> 1 .. LevelMax]
  /\ xp \in [Colors -> Nat]
  /\ nextLevelW \in [Colors -> Nat]
  /\ week \in 0 .. MaxWeek
  /\ earned \in [Colors -> Nat]
  /\ levelledAt \in [Colors -> SUBSET (0 .. MaxWeek)]
  /\ paidAt \in [Colors -> Nat]

(* No experience is lost or made up: what a Couleur holds and what its      *)
(* levels cost, XPPerLevel more for each, is what its attempts earned.      *)
XPAddsUp ==
  \A c \in Colors : 2 * earned[c] = 2 * xp[c] + XPPerLevel * (level[c] * (level[c] - 1))

(* Two levels of one Couleur are LevelCooldownW weeks apart, however much   *)
(* experience piled up meanwhile.                                           *)
LevelsApart ==
  \A c \in Colors : \A v, w \in levelledAt[c] : v < w => w - v >= LevelCooldownW

(* No level is overdue: at its last paying attempt a Couleur either could   *)
(* not afford the next level, was still cooling down, or had none to win.   *)
NoLevelOverdue ==
  \A c \in Colors :
    xp[c] >= Need(c) => level[c] = LevelMax \/ paidAt[c] < nextLevelW[c]
=============================================================================

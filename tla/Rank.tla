-------------------------------- MODULE Rank --------------------------------
(***************************************************************************)
(* A child's rank: engine/rank.go and the Bienveillance of                 *)
(* engine/target.go, as Apply drives them once per finished run.           *)
(***************************************************************************)
EXTENDS Calendar

CONSTANTS
  \* The fields of Config.
  RankUpWins, RankUpMinWeeks, RankDownFails,
  KindnessStep, KindnessFloor,  \* in hundredths
  MaxRank,          \* maxRank
  FirstKindness,    \* the kindness of a new child: 100 from NewChild, 0 in
                    \* the row server/parent/children.go creates
  \* Bounds of the state space.
  MaxRuns

ASSUME RankAssumption ==
  /\ RankUpWins \in Nat \ {0} /\ RankUpMinWeeks \in Nat \ {0} /\ RankDownFails \in Nat \ {0}
  /\ KindnessStep \in Nat \ {0} /\ KindnessFloor \in 0 .. 100
  /\ MaxRank \in Nat \ {0}
  /\ FirstKindness \in {0, 100}
  /\ MaxRuns \in Nat

VARIABLES
  rank, bestRank,
  bossWinsAtRank, weeksAtRank, bossFailStreak,
  lastRankW,
  bossWinsTotal,
  kindness,        \* in hundredths
  \* History.
  rises,           \* how often the rank went up
  rankedAt,        \* the week the rank last moved, or the child began
  earlyLosses,     \* runs lost early since the last win
  lostInARow,      \* how the last runs since a win or a fall were lost
  runs

counters == <<bossWinsAtRank, weeksAtRank, bossFailStreak>>
history  == <<rises, rankedAt, earlyLosses, lostInARow, runs>>
rankVars     == <<rank, bestRank, counters, lastRankW, bossWinsTotal, kindness, week, history>>

RankInit ==
  /\ rank = 0 /\ bestRank = 0
  /\ bossWinsAtRank = 0 /\ weeksAtRank = 0 /\ bossFailStreak = 0
  /\ lastRankW = 0
  /\ bossWinsTotal = 0
  /\ kindness = FirstKindness
  /\ week = 0
  /\ rises = 0 /\ rankedAt = 0 /\ earlyLosses = 0
  /\ lostInARow = [early |-> 0, late |-> 0]
  /\ runs = 0

----------------------------------------------------------------------------
(* The week ends: AdvanceWeek, unless its caller missed it. *)
NextWeek ==
  /\ week < MaxWeek
  /\ week' = week + 1
  /\ weeksAtRank' \in {weeksAtRank, weeksAtRank + 1}
  /\ UNCHANGED <<rank, bestRank, bossWinsAtRank, bossFailStreak, lastRankW, bossWinsTotal,
                 kindness, history>>

PlaysRun == runs < MaxRuns /\ runs' = runs + 1

Larger(a, b) == IF a >= b THEN a ELSE b

(* WinBoss. *)
ReadyWithoutWeeks == bossWinsAtRank + 1 >= RankUpWins /\ rank < MaxRank /\ week > lastRankW

Ready ==
  /\ bossWinsAtRank + 1 >= RankUpWins
  /\ weeksAtRank >= RankUpMinWeeks
  /\ rank < MaxRank
  /\ week > lastRankW

WinsKept == bossWinsAtRank + 1

WinsAfter == IF Ready THEN 0 ELSE bossWinsAtRank + 1

RisesTo ==
  IF Ready THEN /\ rank' = rank + 1
                /\ bestRank' = Larger(bestRank, rank + 1)
                /\ weeksAtRank' = 0
                /\ lastRankW' = week
                /\ rises' = rises + 1
                /\ rankedAt' = week
           ELSE UNCHANGED <<rank, bestRank, weeksAtRank, lastRankW, rises, rankedAt>>

Won ==
  /\ PlaysRun
  /\ RisesTo
  /\ bossWinsAtRank' = WinsAfter
  /\ bossWinsTotal' = bossWinsTotal + 1
  /\ bossFailStreak' = 0
  /\ kindness' = 100
  /\ earlyLosses' = 0
  /\ lostInARow' = [early |-> 0, late |-> 0]
  /\ UNCHANGED week

(* LoseEarly, for a run that goes down before the boss manche. *)
KindnessAfter(early) ==
  IF early THEN Larger(kindness - KindnessStep, KindnessFloor) ELSE kindness

(* LoseBoss, which every lost run calls, the early ones too. *)
Falls == bossFailStreak + 1 >= RankDownFails /\ rank > 0

Lost(early) ==
  /\ PlaysRun
  /\ kindness' = KindnessAfter(early)
  /\ earlyLosses' = IF early THEN earlyLosses + 1 ELSE earlyLosses
  /\ \/ /\ Falls
        /\ rank' = rank - 1
        /\ bossWinsAtRank' = 0 /\ weeksAtRank' = 0 /\ bossFailStreak' = 0
        /\ lostInARow' = [early |-> 0, late |-> 0]
        /\ rankedAt' = week
     \/ /\ ~Falls
        /\ bossFailStreak' = bossFailStreak + 1
        /\ lostInARow' = IF early THEN [lostInARow EXCEPT !.early = @ + 1]
                                  ELSE [lostInARow EXCEPT !.late = @ + 1]
        /\ UNCHANGED <<rank, bossWinsAtRank, weeksAtRank, rankedAt>>
  /\ UNCHANGED <<bestRank, lastRankW, bossWinsTotal, week, rises>>

RankNext == NextWeek \/ Won \/ \E early \in BOOLEAN : Lost(early)

RankSpec == RankInit /\ [][RankNext]_rankVars

----------------------------------------------------------------------------
(* The type invariant. *)
RankTypeOK ==
  /\ rank \in 0 .. MaxRank /\ bestRank \in 0 .. MaxRank
  /\ bossWinsAtRank \in Nat /\ weeksAtRank \in Nat /\ bossFailStreak \in Nat
  /\ lastRankW \in 0 .. week
  /\ bossWinsTotal \in Nat
  /\ kindness \in {0} \cup KindnessFloor .. 100
  /\ week \in 0 .. MaxWeek
  /\ rises \in Nat /\ rankedAt \in 0 .. week /\ earlyLosses \in Nat
  /\ lostInARow \in [early: Nat, late: Nat]
  /\ runs \in 0 .. MaxRuns

(* "A good fortnight cannot carry a child past what they can spell": a rank *)
(* that goes up has stood for RankUpMinWeeks calendar weeks, even when the  *)
(* job that counts them missed some and even after a fall.                  *)
RisesApart == [][rank' > rank => week - rankedAt >= RankUpMinWeeks]_rankVars

(* Every rise was paid for by its own wins: none counts twice, and the wins *)
(* kept towards the next one are not of an earlier rank.                    *)
WinsPayForRises == bossWinsTotal >= RankUpWins * rises + bossWinsAtRank

(* A child above the first rank is always short of the losses that take it  *)
(* down: a rise never starts with a streak that is already too long.        *)
StreakBelowFall == rank > 0 => bossFailStreak < RankDownFails

(* The losses counted are the losses since the last win or fall, so that    *)
(* it takes a real slump to lose a rank.                                    *)
StreakIsLosses == bossFailStreak = lostInARow.early + lostInARow.late

(* The badge: the best rank is reached from the wins, never passed.         *)
BestRankReached == rank <= bestRank /\ bestRank <= rises

(* The Bienveillance is one step per run lost early since the last win, no  *)
(* further than the floor, whatever was lost at the boss in between.  Until *)
(* the first win it counts from what the child's row was created with: 100, *)
(* or the panel's 0, which the first run lost early brings up to the floor. *)
KindnessCountsEarlyLosses ==
  LET start == IF bossWinsTotal = 0 THEN FirstKindness ELSE 100
  IN  kindness = IF earlyLosses = 0 THEN start
                 ELSE Larger(start - KindnessStep * earlyLosses, KindnessFloor)

----------------------------------------------------------------------------
(* "3 echecs consecutifs au boss": only a child who reached the boss every  *)
(* time loses a rank.                                                       *)
FallNeedsBossFailures == [][rank' < rank => lostInARow.early = 0]_rankVars

(* "The targets come down one step": a run lost early never raises them.    *)
LossNeverRaisesTargets == [][earlyLosses' > earlyLosses => kindness' <= kindness]_rankVars
=============================================================================

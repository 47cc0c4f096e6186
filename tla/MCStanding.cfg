SPECIFICATION StandingSpec
CONSTANTS
  RankUpWins = 2
  RankUpMinWeeks = 2
  RankDownFails = 2
  KindnessStep = 6
  KindnessFloor = 85
  MaxRank = 2
  FirstKindness = 100
  Colors = {muettes}
  XPPerLevel = 1
  LevelMax = 3
  LevelCooldownW = 2
  MaxXP = 5
  MaxWeek = 4
  MaxRuns = 5
INVARIANTS
  WinsPayForRises
  XPAddsUp
  NoLevelOverdue
PROPERTIES
  RisesApart
CHECK_DEADLOCK FALSE

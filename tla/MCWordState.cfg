SPECIFICATION WordSpec
CONSTANTS
  GoldDays = 2
  GoldMinSpanDays = 3
  TarnishWeeks = 2
  CurseFails = 2
  CurseWeeks = 2
  DaysPerWeek = 2
  Shines = {"holo"}
  MasteryOne = 4
  RencontreMastery = 1
  LearnNum = 1
  LearnDen = 2
  MaxDay = 6
  MaxFails = 3
  MaxStreak = 4
  MaxMastery = 5
INVARIANTS
  CardDrawable
  CurseIsEarned
  GoldIsEarned
PROPERTIES
  ImplementsCard
CHECK_DEADLOCK FALSE

SPECIFICATION TwinSpec
CONSTANTS
  or = or
  maudit = maudit
  neuf = neuf
  Word <- MCWord
  Letters <- MCLetters
  Traps <- MCTraps
  ChipPerTrap = 1
  BlindMult = 3
  Answers <- MCAnswers
  WordsPerManche = 2
  WindowPct = 85
  RunMoney = 4
  MancheMoney = 4
  CahierBonus = 50
  Owned <- MCOwned
  DeckBoss = "VoleurDAccents"
  Targets <- MCTargets
  Cahier = TRUE
  Levels <- MCLevels
  States <- MCStates
  LaterRows <- MCLaterRows
  MaxOthers = 1
INVARIANTS
  ScoresAgree
  OutcomeAsPlayed
  RightIsNeverWorse
CHECK_DEADLOCK FALSE

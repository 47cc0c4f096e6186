SPECIFICATION Spec
CONSTANTS
  r1 = r1
  r2 = r2
  ch = ch
  at = at
  Letters = {ch, at}
  Confident <- MCConfident
  TrapsOf <- MCTrapsOf
  Requests = {r1, r2}
  Pastes <- MCPastes
  Typed <- MCTyped
  Labels = {"semaine", "mes mots"}
  MesMots = "mes mots"
  Phrases <- MCPhrases
  Whitelist <- MCWhitelist
  MaxSentenceWords = 2
  MaxSent = 4
  MaxLists = 1
  MaxFaults = 1
INVARIANTS
  TypeOK
  ConfirmedWasRead
  AnalysisIsOfItsText
  ApprovedTextWasApproved
  PasteIsWhole
  MarkedIsAsked
PROPERTIES
  ValidationLooked
SYMMETRY MCSymmetry
CHECK_DEADLOCK FALSE

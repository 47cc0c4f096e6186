SPECIFICATION WritingSpec
CONSTANTS
  Letters = {"t", "e", "e'"}
  Keys = {"t", "e"}
  Variants <- MCVariants
  Cards <- MCCards
  BlindMult = 2
  DropletPerTokens = 2
  Scale = 12
  None = None
  MaxWords = 3
  MaxTyped = 2
INVARIANTS
  EntryStartsTheWord
  EachCardIsScored
  CounterIsTheScore
PROPERTIES
  EveryWordIsPaid

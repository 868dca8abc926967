\* Every configuration, every sequence of up to two answers.
CONSTANTS
  Answers <- AnyAnswers
  Settings <- AllSettings
SPECIFICATION FairSpec
INVARIANTS
  SwitchLosesNothing
  CleanResult
PROPERTY DialEnds
CHECK_DEADLOCK FALSE

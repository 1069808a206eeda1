SPECIFICATION Spec
CONSTANTS
  Commands <- FlashCommands
  MaxCalls = 3
INVARIANT AnswersInPlace
PROPERTY CommandReturns
CHECK_DEADLOCK FALSE

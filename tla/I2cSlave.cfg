SPECIFICATION Spec
CONSTANTS
  BITS = 3
  slave_address <- MCAddress
  Inputs <- MCInputs
  WholeBytes = FALSE
  MaxResets = 1
INVARIANTS AnswersAsAddressed OutputAsWritten ChangeSignalled
PROPERTY BusFreed

SPECIFICATION Spec
CONSTANTS
  BITS = 3
  slave_address <- MCAddress
  Inputs <- MCInputs
  WholeBytes = TRUE
  MaxResets = 1
INVARIANT RestartResets

SPECIFICATION Spec
CONSTANTS
  SLOTS = 10
  MS_WRAP = 20
  Slow = {3}
  MaxOverrun = 12
INVARIANTS CommentedTicks

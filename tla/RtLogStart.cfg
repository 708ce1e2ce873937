SPECIFICATION Spec
CONSTANTS
  Writers = {w1, w2}
  Capacity = 2
  MaxRecords = 2
  MaxStarts = 2
  PromptStart = FALSE
CHECK_DEADLOCK FALSE
INVARIANT SequenceOrder

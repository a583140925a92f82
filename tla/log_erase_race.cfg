\* Erase while init() is still opening the log.
CONSTANTS
  LastIndex = 3
  OldFiles = {1, 2}
  MaxFaults = 0
  MaxResets = 0
SPECIFICATION Spec
INVARIANT ErasesOnlyCompleted
CHECK_DEADLOCK FALSE

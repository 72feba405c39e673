SPECIFICATION Spec
CONSTANTS
  MaxVersion = 3
  MaxFaults = 2
  Platform = "windows"
INVARIANTS
  CrashIsSurvivable
  ReopenedOnce
PROPERTIES
  ImplementsSwitch
  SelectedCommitFinishes
CHECK_DEADLOCK FALSE

SPECIFICATION Spec
CONSTANTS
  Platform = "macos"
  c1 = c1
  Closers = {c1}
  MaxOutput = 1
  MaxInput = 1
  Capacity = 2
  InputCapacity = 1
  MaxFaults = 1
INVARIANTS
  ExitedShowsEverything
  LiveTreeHoldsProject
PROPERTIES
  WriterFailureIsPublished
  NoTerminalLingers
  CallsReturn
CHECK_DEADLOCK FALSE

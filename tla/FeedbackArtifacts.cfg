SPECIFICATION FairSpec
CONSTANTS
  Sources = {image, clip}
  Moments = {clip}
  MaxSessions = 2
  Capacity = 2
  MaxConcurrent = 1
  MaxChanges = 2
  MaxFaults = 1
PROPERTIES NoSupersededWrite EveryChangeSettles
CHECK_DEADLOCK FALSE

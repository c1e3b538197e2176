CONSTANTS
  W = 4 P = 13 G = 2
  Timeouts = {2}
  ReadTimeouts = {3}
  Targets = {"a"}
  Flags = {1}
  IDs = {1}
  MaxTime = 6
  Chunks = 2
SPECIFICATION Spec
INVARIANT SilenceNoticed
CHECK_DEADLOCK FALSE

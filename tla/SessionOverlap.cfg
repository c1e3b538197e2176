CONSTANTS
  MaxReuse = 3  MaxUp = 1  MaxDown = 0  Cap = 1  Wrap = 100
  Transport = "tcp"  Reconnects = "overlapping"
SPECIFICATION Spec
INVARIANT UploadIntact
CHECK_DEADLOCK FALSE

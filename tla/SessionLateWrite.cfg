CONSTANTS
  MaxReuse = 2  MaxUp = 0  MaxDown = 2  Cap = 2  Wrap = 100
  Transport = "tcp"  Reconnects = "spaced"
SPECIFICATION Spec
INVARIANT DownloadSeamless
CHECK_DEADLOCK FALSE

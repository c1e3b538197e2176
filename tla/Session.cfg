CONSTANTS
  MaxReuse = 1  MaxUp = 2  MaxDown = 2  Cap = 1  Wrap = 2
  Transport = "tcp"  Reconnects = "spaced"
SPECIFICATION FairSpec
INVARIANTS TypeOK IInv
PROPERTY EventuallyDelivered
CHECK_DEADLOCK FALSE

CONSTANTS
  MaxReuse = 2  MaxUp = 2  MaxDown = 3  Cap = 2  Wrap = 100
  Transport = "tcp"  Reconnects = "spaced"
SPECIFICATION Spec
CONSTRAINT OneWay
INVARIANTS RefusedOnlyOnOverflow NotFoundOnlyWhenGone
PROPERTIES DownloadStream UploadStream IndexIncreases
CHECK_DEADLOCK FALSE

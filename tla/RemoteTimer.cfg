CONSTANT MaxConn = 1
SPECIFICATION Spec
PROPERTY TimerSparesReused
CHECK_DEADLOCK FALSE

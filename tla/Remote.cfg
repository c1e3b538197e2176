CONSTANT MaxConn = 2
SPECIFICATION FairSpec
INVARIANTS TypeOK WaiterHasTimer OneTimer ErrorIsCurrent
PROPERTIES WaitEnds BrokenResolved ClosedEnds
CHECK_DEADLOCK FALSE

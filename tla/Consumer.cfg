SPECIFICATION ConsumerSpec
CONSTANTS
  m1 = m1
  m2 = m2
  nobody = nobody
  NoMember = nobody
  Member <- TwoMembers
  Self = m1
  MaxLog = 2
  Attempts = 2
CHECK_DEADLOCK FALSE
INVARIANTS ConsumerTypeOK MarkedWasHandled AtMostOnce NeverClosedTwice HandlerDoneOnReturn
PROPERTIES NeverBlocked LoopStops

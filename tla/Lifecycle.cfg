SPECIFICATION FairSpec
INVARIANTS
  TypeOK
  ReadyToConsume
  UsedIsOpen
PROPERTIES
  SignalEndsProcess
  SignalEndsInOrder
CHECK_DEADLOCK FALSE

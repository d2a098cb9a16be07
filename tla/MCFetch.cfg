SPECIFICATION Spec
CONSTANTS
  first = first
  second = second
  Lines = {first, second}
  NoLine = NoLine
  NextLine <- Following
  Assoc = 1
  MissQueueSize = 2
  CleanEvict = TRUE
  MaxQueue = 2
  ChannelSize = 2
CHECK_DEADLOCK FALSE
INVARIANTS
  TypeOK
  MissOnItsWay
  EvictsTracked


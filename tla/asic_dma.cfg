CONSTANTS
  Channels = {0, 1}
  Memory <- McMemory
  Page = 4
  Pages = 2
  Lows = {1}
  Highs = {1}
  Prescalers = {0, 1}
  Setups <- McSetups
  Writes = 2
SPECIFICATION Spec
INVARIANTS TypeOK PlaysList CausePending
PROPERTIES ListsEnd
CHECK_DEADLOCK FALSE

\* The clock wraps after 32 \div 3 ticks, within MaxTick.
SPECIFICATION StampSpec
CONSTANTS
  TickWord = 32
  MsPerSec = 3
  TickRate = 3
  OneCall = {"gpio"}
  TwoCalls = {"alert"}
  MaxTick = 13
INVARIANTS
  StampsInOrder
\* Time stops at MaxTick.
CHECK_DEADLOCK FALSE

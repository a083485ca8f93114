\* The threshold of the code; a clock whose conversion wraps after 8 ticks; a
\* row of four places for at most two spiders, and room for one more task, so
\* that a spider can get two.
SPECIFICATION BoardSpec
CONSTANTS
  Threshold = 27
  Temps <- SomeTemps
  TickWord = 16
  MsPerSec = 2
  TickRate = 2
  OneCall = {"gpio"}
  TwoCalls = {"alert"}
  MaxTick = 9
  DISPLAY_QUEUE_SIZE = 10
  MAX_SPIDERS = 2
  SPIDER_SIZE = 2
  TOUCH_MARGIN = 1
  AREA_WIDTH = 5
  AREA_HEIGHT = 2
  InitialSpiders = 1
  CONTROL_QUEUE_SIZE = 2
  Touches <- SomeTouches
  MaxTouches = 3
  MaxTasks = 3
  TaskCounts <- SomeTaskCounts
  AddressLengths <- AllLengths
  PacketCounts <- SomePacketCounts
  MaxChanges = 2
INVARIANTS
  ReadingIsCurrent
  AlertIsAtThreshold
  StampWithinASecond
  SpidersLeaveNoTrace
  StatsShown
PROPERTIES
  MovesKeepApart
  KilledIsCleared
\* Time stops at MaxTick; the spiders may all be killed and the touches stop.
CHECK_DEADLOCK FALSE

\* Three streams, so that child 2's unclosed ones run out; as many kill
\* signals as threads.
SPECIFICATION HomeworkSpec
CONSTANTS
  Uids <- ThreeUids
  Gids <- TwoGids
  Pids <- ThreePids
  RLIM_INFINITY = 7
  COMPAT_RLIM_INFINITY = 5
  OLD_MAX = 3
  NR_OPEN = 4
  VmaTop = 4
  RLIMIT_DATA = 1
  AT_VECTOR_SIZE = 3
  Maps <- SomeMaps
  NiceTasks <- ThreePids
  NicePgrp <- PgrpOfThree
  NiceUsers <- RootAndUsers
  NiceInputs <- NicesAndBeyond
  NSIG = 2
  DefaultSlack = 2
  Args <- FourArgs
  NEW_UTS_LEN = 3
  OLD_UTS_LEN = 2
  Letters <- TwoLetters
  Threads <- TwoThreads
  MaxUse = 2
  MaxChildUse = 1
  MaxRss = 1
  WORD = 64
  WORD32 = 16
  MaxPages = 34
  Step = 3
  SortSizes <- SomeSizes
  SortValues <- ThreeNumbers
  INT_MOD = 64
  Looked = 4
  Animals <- ThreeNumbers
  NoOfElements = 4
  TextLengths <- Lengths
  Capitals = {2, 3, 4}
  SmallLetters = {12, 13, 14}
  Case = 10
  CountLimit = 2
  MaxStreams = 3
  MaxTicks = 2
  MaxKills = 3
INVARIANTS
  DroppedForGood
  ProcessTreeSound
  LimitsHold
  MapStaysSane
  SortingWorks
  ModulesSound
  ReportsExact
  ReportCounts
  StreamsOpenForChildren
PROPERTIES
  IdsNeverGrow
  KillsEndProcess
\* A part may have nothing left to do.
CHECK_DEADLOCK FALSE

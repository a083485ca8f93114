SPECIFICATION FairSpec
CONSTANTS
  Created = {"gpio", "alert"}
  QueueLength = 2
  MaxCount = 2
INVARIANT
  ToggleCountsInOrder
PROPERTIES
  QueueDrains
  AlertsKeepComing

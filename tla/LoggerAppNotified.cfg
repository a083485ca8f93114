SPECIFICATION Spec
CONSTANTS
  Created = {"alert"}
  QueueLength = 1
  MaxCount = 1
INVARIANT
  NotifiedWhenLow

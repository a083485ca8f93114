\* LEDTask sends once; its counts are the subject of LoggerAppLive.cfg.
SPECIFICATION Spec
CONSTANTS
  Created = {"gpio", "temperature", "alert"}
  QueueLength = 2
  MaxCount = 1
INVARIANTS
  NeverIdle
  NoLostWakeup
  NoExpiryLost
  EdgeFollowsPin
  OneStaleAlert

SPECIFICATION MCSpec
CONSTANTS
  Channels <- MCChannels
  Calls = {k1, k2}
  MaxLogs = 2
  MaxAttempts = 2
  MaxEdits = 1
  MaxFaults = 1
INVARIANTS
  LogIsSound
  OptOutStopsNotifications
PROPERTIES
  NotificationSettles
CHECK_DEADLOCK FALSE

SPECIFICATION ChatSpec
CONSTANTS
  Users = {ann, bob}
  Watchers = {ann}
  MaxMessages = 2
  MaxTexts = 2
  MaxMishaps = 1
INVARIANTS
  TextsAreSound
  MissedOnlyByRace
PROPERTIES
  MessageIsShown
CHECK_DEADLOCK FALSE

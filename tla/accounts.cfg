SPECIFICATION MCSpec
CONSTANTS
  r1 = r1
  r2 = r2
  Requests = {r1, r2}
  Kinds <- MCKinds
  MaxRequests = 4
  MaxFaults = 1
  PhoneUsers = {ann, bob}
  FirstUser = ann
  MaxSignIns = 2
  MaxTokens = 2
  MaxEvents = 2
INVARIANTS
  SignInIsSound
  SetupTokenUsedOnce
  RevokedStaysRevoked
  PhoneShowsItsSession
  PushesFollowTheShown
CHECK_DEADLOCK FALSE

SPECIFICATION DirectorySpec
CONSTANTS
  Districts = {"a", "b"}
  Users = {"m", "e"}
  Admins = {p, q}
  Keys = {"k"}
  KeyOf <- MCKeyOf
  Exact = {"a"}
  Roles <- MCRoles
  Scenes <- MCScenes
  MaxEvents = 2
  Crowds <- MCCrowds
  MaxCrowdEvents = 1
  Writers = {v, w}
  AtFirst = 2
  MaxStatuses = 4
  MaxMoves = 2
INVARIANTS
  DirectoryIsSound
PROPERTIES
  DroppedOnPurpose
  RefusedDeleteWasRaced
  SaveKeepsManager
SYMMETRY Pages
CHECK_DEADLOCK FALSE

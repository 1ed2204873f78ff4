SPECIFICATION FairSpec
CONSTANTS
  new = new
  quote = quote
  closed = closed
  Leads = {l1, l2}
  Statuses <- MCStatuses
  InitialKind <- MCInitialKind
  EditKinds = {"sla", "free"}
  Servers = {a}
  MaxFaults = 1
INVARIANTS
  FlagsAreSound
PROPERTIES
  FlagFollowsBreach
CHECK_DEADLOCK FALSE

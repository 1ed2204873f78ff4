SPECIFICATION Spec
CONSTANTS
  ann = ann
  bob = bob
  lead = lead
  update = update
  newer = newer
  f1 = f1
  f2 = f2
  Users = {ann, bob}
  Items = {lead, update, newer}
  Plans <- MCPlans
  Owner <- MCOwner
  Leads = {lead}
  Rival <- MCRival
  Flushes = {f1, f2}
  MaxSessions = 2
  MaxFaults = 1
  MaxCredit = 2
INVARIANTS
  QueuedIsKept
  SubmissionsAreSound
SYMMETRY Symmetry
CHECK_DEADLOCK FALSE

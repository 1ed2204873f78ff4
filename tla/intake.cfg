SPECIFICATION Spec
CONSTANTS
  east = east
  west = west
  eve = eve
  max = max
  r1 = r1
  r2 = r2
  Requests = {r1, r2}
  Kinds <- MCKinds
  Districts <- MCDistricts
  Executives = {eve}
  Managers = {max}
  None = none
  Cap = 1
  Connections = 2
  InitialStaff <- MCStaff
  EditableUsers = {eve}
  MaxLeads = 2
  MaxSubmissions = 1
  MaxManual = 1
  MaxEdits = 1
INVARIANTS
  AssignmentsAreSound
  CapOvershoot
PROPERTIES
  EveryRequestEnds
CHECK_DEADLOCK FALSE

SPECIFICATION MCSpec
CONSTANTS
  new = new
  assigned = assigned
  settled = settled
  Requests = {r1, r2}
  Statuses <- MCStatuses
  NewStatus = new
  AssignedStatus = assigned
  NoStatus = none
  AutoTarget <- MCAutoTarget
  Kinds = {"transition", "assign", "documents", "webhook", "create", "mirror"}
  InitialEdges <- MCEdges
  InitialTerminal <- MCNone
  EditableEdges <- MCEditableEdges
  EditableTerminal = {settled}
  MaxHistory = 4
SYMMETRY Symmetry
INVARIANTS
  HistoryTracksStatus
  RowsLeaveHeldStatuses
  MovesWereJustified
PROPERTIES
  ImplementsJournal
CHECK_DEADLOCK FALSE

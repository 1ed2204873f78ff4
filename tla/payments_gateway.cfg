SPECIFICATION Spec
CONSTANTS
  Leads = {l1, l2}
  Utrs = {}
  NoUtr = none
  Requests = {r1, r2}
  EventKinds = {"captured", "failed"}
  MaxRows = 2
  MaxCollects = 2
  MaxFaults = 0
SYMMETRY Symmetry
INVARIANTS
  GatewayRowsFollowRazorpay
CHECK_DEADLOCK FALSE

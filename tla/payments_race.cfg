SPECIFICATION FairSpec
CONSTANTS
  Leads = {l1}
  Utrs = {u1}
  NoUtr = none
  Requests = {r1, r2}
  EventKinds = {"captured", "failed"}
  MaxRows = 2
  MaxCollects = 1
  MaxFaults = 1
INVARIANTS
  AtMostOneVerified
PROPERTIES
  ReviewIsFinal
  ImplementsLedger
  EventsGetProcessed
CHECK_DEADLOCK FALSE

-------------------------- MODULE MCLeadLifecycle --------------------------
(***************************************************************************)
(* A small instance of LeadLifecycle for TLC, with three statuses and two  *)
(* scenes: "race" has two requests in flight, "terminal" one request after *)
(* the other while a status becomes terminal and is left all the same.     *)
(***************************************************************************)
EXTENDS LeadLifecycle, TLC

CONSTANTS new, assigned, settled

VARIABLE scene

MCStatuses == {new, assigned, settled}

\* A payment settles the lead; the documents take it back to Assigned, when the way
\* back is configured.
MCAutoTarget == [k \in AutoKinds |-> IF k = "documents" THEN assigned ELSE settled]

\* New -> Assigned -> Settled.
MCEdges == {<<new, assigned>>, <<assigned, settled>>}
MCNone == {}

\* Administrators remove and restore the way on, and configure one back, one of the
\* two at a time.
MCWayOn == {<<assigned, settled>>}
MCWayBack == {<<settled, assigned>>}
MCEditableEdges == MCWayOn \cup MCWayBack

\* What is explored together: requests, rows, kinds of request, edits of
\* the transitions, and whether a terminal status may cease to be.
Bounds == [
  race |-> [requests |-> 2, rows |-> 3, edits |-> MCWayOn, reopens |-> FALSE,
            kinds |-> {"transition", "assign", "webhook", "create", "mirror"}],
  terminal |-> [requests |-> 1, rows |-> 4, edits |-> MCEditableEdges, reopens |-> TRUE,
            kinds |-> {"transition", "documents", "webhook", "create"}]]

Within(b) ==
  /\ Cardinality({r \in Requests : req'[r].pc # "idle"}) <= b.requests
  /\ \A r \in Requests : req'[r].kind \in b.kinds \cup {"none"}
  /\ Len(history') <= b.rows
  /\ admin'.adds \cup admin'.dels \subseteq b.edits
  /\ Cardinality(admin'.adds \cup admin'.dels) <= 1
  /\ ~ b.reopens => terminal \subseteq terminal'

MCInit == Init /\ scene \in DOMAIN Bounds
MCNext == Next /\ Within(Bounds[scene]) /\ UNCHANGED scene

MCSpec == MCInit /\ [][MCNext]_<<vars, scene>>

Symmetry == Permutations(Requests)
=============================================================================

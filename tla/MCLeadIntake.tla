---------------------------- MODULE MCLeadIntake ----------------------------
(***************************************************************************)
(* A small instance of LeadIntake for TLC: an executive of one district,  *)
(* whom an edit can map to the second one as well, and a manager of both. *)
(***************************************************************************)
EXTENDS LeadIntake, TLC

CONSTANTS east, west, eve, max, r1, r2

MCDistricts == {east, west}
MCStaff == {<<eve, east>>, <<max, east>>, <<max, west>>}

\* A creation from the inside or a request of an administrator meets one from
\* the public form or a manual assignment.
MCKinds == r1 :> {"create", "deactivate", "remove"} @@
           r2 :> {"public", "assign", "reassign"}
=============================================================================

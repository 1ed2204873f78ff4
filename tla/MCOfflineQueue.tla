--------------------------- MODULE MCOfflineQueue ---------------------------
(***************************************************************************)
(* A small instance of OfflineQueue for TLC: a lead and an update of one   *)
(* user, or two versions of the update, a second user of the device, and   *)
(* two flushes.                                                            *)
(***************************************************************************)
EXTENDS OfflineQueue, TLC

CONSTANTS ann, bob, lead, update, newer, f1, f2

MCOwner == lead :> ann @@ update :> ann @@ newer :> ann
MCPlans == {{lead, update}, {update, newer}}
MCRival == {<<newer, update>>}
Symmetry == Permutations(Flushes)
=============================================================================

---------------------------- MODULE MCLeadRecords ----------------------------
(***************************************************************************)
(* The documents of a lead as uploads and deletes write them, and the      *)
(* screens that show leads, each with the other at rest.  The uploads are  *)
(* two at a time; the screens are those of MCLeadViews.                    *)
(***************************************************************************)
EXTENDS DocumentVersioning, MCLeadViews

VARIABLE scene

docVars == <<docs, req, raced, scene>>
viewVars == <<leads, recent, active, managed, view, session, cache, late, act, changes, scene>>

MCInit == Init /\ Views!Init /\ scene \in {"documents", "views"}

MCNext ==
  \/ scene = "documents" /\ Next /\ UNCHANGED viewVars
  \/ scene = "views" /\ Views!Next /\ UNCHANGED docVars

MCSpec == MCInit /\ [][MCNext]_<<docVars, viewVars>>
=============================================================================

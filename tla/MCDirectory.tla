----------------------------- MODULE MCDirectory -----------------------------
(***************************************************************************)
(* What administrators configure: the districts with their staff, and the  *)
(* order of the statuses, each with the other at rest; as TLC runs them and*)
(* as the proofs take them.                                                *)
(***************************************************************************)
EXTENDS Naturals, FiniteSets, TLC

CONSTANTS Districts, Users, Admins, Keys, KeyOf, Roles, Scenes, Exact, MaxEvents,
          Crowds,         \* scenes in which several pages of the districts are open
          MaxCrowdEvents, \* bound on the events then
          Writers, AtFirst, MaxStatuses, MaxMoves

ASSUME DirectoryAssumption ==
  /\ IsFiniteSet(Users)
  /\ KeyOf \in [Districts -> Keys]
  /\ Exact \subseteq Districts /\ Roles \in [Users -> {"MANAGER", "EXECUTIVE"}]
  /\ Scenes \subseteq SUBSET {"desk", "form", "sync"}
  /\ MaxEvents \in Nat

ASSUME WorkflowAssumption ==
  /\ IsFiniteSet(Writers) /\ MaxStatuses \in Nat /\ MaxMoves \in Nat
  /\ AtFirst \in 1 .. MaxStatuses

VARIABLES rows, active, staff, role, live, withLeads, csv, desk, form, sync, scene, events,
          order, made, shown, tx, clashed, moves

districtVars == <<rows, active, staff, role, live, withLeads, csv, desk, form, sync, scene, events>>
workflowVars == <<order, made, shown, tx, clashed, moves>>

Directory == INSTANCE DistrictDirectory WITH leads <- withLeads
Workflow == INSTANCE StatusWorkflow

\* "a" and "b" are two spellings of one district, "a" that of the CSV.
MCKeyOf == [d \in {"a", "b"} |-> "k"]
MCRoles == [u \in {"m", "e"} |-> IF u = "m" THEN "MANAGER" ELSE "EXECUTIVE"]
\* Nobody works on districts in the scene of the statuses.
MCScenes == {{"desk", "form"}, {"desk", "sync"}, {"form", "sync"}, {}}

MCCrowds == {{"desk", "form"}}
Pages == Permutations(Admins)

CrowdBound ==
  (\E p, q \in Admins : p # q /\ Directory!Closed \notin {desk[p], desk[q]}) =>
    scene \in Crowds /\ events <= MaxCrowdEvents

\* Two spellings, and a CSV, matter for the script only.
DirectoryInit ==
  /\ Directory!Init /\ Workflow!Init
  /\ "sync" \notin scene => rows = {"a"} /\ csv = {}
  /\ scene = {} => active = {} /\ staff = {}

DirectoryNext ==
  \/ scene = {} /\ Workflow!Next /\ UNCHANGED districtVars
  \/ scene # {} /\ Directory!Next /\ CrowdBound' /\ UNCHANGED workflowVars

DirectorySpec == DirectoryInit /\ [][DirectoryNext]_<<districtVars, workflowVars>>

\* The statuses are numbered without a gap, unless creations met; and what every
\* state of either part is like.
DirectoryIsSound ==
  /\ scene # {} => Directory!TypeOK
  /\ scene = {} => Workflow!TypeOK /\ Workflow!NumberedUnlessClashed

\* Nobody is dropped from a district unnoticed.
DroppedOnPurpose == Directory!DroppedOnPurpose

\* A deletion that is refused has kept the staff, or was raced by a lead.
RefusedDeleteWasRaced == Directory!RefusedDeleteWasRaced

\* A save leaves an active district somebody of the role MANAGER, or was raced.
SaveKeepsManager == Directory!SaveKeepsManager
=============================================================================

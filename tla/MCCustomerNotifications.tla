---------------------- MODULE MCCustomerNotifications ----------------------
(***************************************************************************)
(* A small instance of CustomerNotifications for TLC: an e-mail or an SMS, *)
(* in two scenes.  In "outcomes" one request notifies at a time, and       *)
(* everything may fail; in "calls" requests meet, and nothing fails.       *)
(***************************************************************************)
EXTENDS CustomerNotifications, TLC

VARIABLE scene

MCChannels == {"EMAIL", "SMS"}

Busy == {k \in Calls : call[k].pc # "idle"}

\* What a step of the scene may do.
InScene ==
  CASE scene = "outcomes" -> Cardinality(Busy') <= 1
    [] scene = "calls" ->
         /\ faults' = 0
         /\ \A n \in Logs, p \in Places : run'[n][p].pc # "fail"

MCInit == Init /\ scene \in {"outcomes", "calls"}
MCNext == Next /\ UNCHANGED scene /\ InScene

MCSpec ==
  /\ MCInit /\ [][MCNext]_<<vars, scene>>
  /\ \A k \in Calls : WF_vars(Enqueue(k))
  /\ \A n \in Logs, p \in Places : WF_vars(Work(n, p))
=============================================================================

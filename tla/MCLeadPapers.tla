---------------------------- MODULE MCLeadPapers ----------------------------
(***************************************************************************)
(* The papers of a lead: the pictures the executive sends and a reviewer   *)
(* sees, and the customer details.  The two meet in one place only: the    *)
(* handler of the details counts the photographs, which CustomerForm takes *)
(* for an arbitrary refusal.  So each is explored with the other at rest.  *)
(***************************************************************************)
EXTENDS DocumentDesk, TLC

CONSTANTS Loans, MaxEdits, MaxEvents,
          LoanEdits,   \* bound on the versions typed while there is a loan about
          MaxTogether  \* bound on versions and events taken together

ASSUME FormAssumption == Loans \subseteq {"yes", "no"} /\ MaxEdits \in Nat

VARIABLES detail, closed, puts, form, draft, cache, updates, typed, fate, behind, events

formVars == <<detail, closed, puts, form, draft, cache, updates, typed, fate, behind, events>>

\* The pictures are sent from a phone or shown at a desk; {} is for the form.
MCScenes == {{}, {"phone"}, {"desk"}}

Form == INSTANCE CustomerForm WITH queue <- updates

Pictures == Permutations(Files)

MCInit == Init /\ Form!Init /\ (scene # {} => ~ detail.loan)

\* A loan is stored, or on its way.
LoanAbout == detail.loan \/ \E s \in Form!Slots : puts[s] # Form!NoPut /\ puts[s].payload.loan = "yes"

\* With a loan the form goes through fewer versions.
FormBound == typed + events <= MaxTogether /\ (typed > LoanEdits => ~ LoanAbout)

MCNext ==
  \/ scene = {} /\ Form!Next /\ FormBound' /\ UNCHANGED vars
  \/ scene # {} /\ Next /\ UNCHANGED formVars

MCSpec == MCInit /\ [][MCNext]_<<vars, formVars>>

\* A preview that the review page shows is of the selected document, and what was
\* typed is kept unless there is a reason named in CustomerForm.
PapersAreKept == TypeOK /\ PreviewIsOfSelection /\ Form!TypeOK /\ Form!TypedIsKept

\* The server's checks of the details hold, but for requests that meet.
DetailsAreChecked == Form!DetailsAreChecked

\* An older version takes the place of a newer one only if it was on its way.
NewerIsNotUndone == Form!NewerIsNotUndone
=============================================================================

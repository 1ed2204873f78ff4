----------------------------- MODULE MCLeadViews -----------------------------
(***************************************************************************)
(* The screens that show leads, as TLC runs them and as the proofs take    *)
(* them.  The instance of TLC: two leads of two executives in two          *)
(* districts, pages of one lead, and a home screen of two.                 *)
(***************************************************************************)
EXTENDS Naturals, Sequences

CONSTANTS Executives, Districts, Works, Managed, Device, Viewers, Stock, Filters,
          PageSize, HomeCap, MaxLeads, MaxChanges

VARIABLES leads, recent, active, managed, view, session, cache, late, act, changes

Views == INSTANCE LeadViews

ASSUME ViewsAssumption ==
  /\ Works \in [Executives -> SUBSET Districts] /\ Managed \subseteq Districts
  /\ Device \subseteq Executives /\ Viewers \subseteq Executives \cup {"admin", "manager"}
  /\ Stock \in Seq(Views!Lead) /\ Filters \subseteq Views!Filter
  /\ {PageSize, HomeCap} \subseteq Nat \ {0}
  /\ MaxLeads \in Nat /\ MaxChanges \in Nat

MCStock ==
  LET Given(e, s, d, overdue) ==
        [exec |-> e, owned |-> FALSE, status |-> s, district |-> d, overdue |-> overdue,
         visitor |-> "nobody"]
  IN <<Given("ann", "open", "east", TRUE), Given("ann", "complete", "west", FALSE)>>
MCWorks == [e \in {"ann", "bob"} |-> IF e = "ann" THEN {"east", "west"} ELSE {"east"}]
MCFilters == {[exec |-> "any", district |-> "any"]}

ViewsSpec == Views!Spec

\* The list of the mobile app and, unless its last read failed, the home screen lag
\* behind by what changed, and what is kept for users who are signed out is explained.
ScreensLagByDrift == Views!ScreensLagByDrift

\* The figures of one answer contradict each other by no more leads than changed
\* while they were gathered.
GapsAreCounted == Views!GapsAreCounted

\* A user of the portal who acts on an old row does harm only when the lead
\* changed under the handler.
BlindActsWereRaced == Views!BlindActsWereRaced
=============================================================================

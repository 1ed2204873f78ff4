------------------------------- MODULE MCChat -------------------------------
(***************************************************************************)
(* The chat as TLC runs it and as the proofs take it, under names that the *)
(* notifications do not use: both share the module of their proofs.        *)
(***************************************************************************)
EXTENDS Naturals, FiniteSets

CONSTANTS Users, Watchers, MaxMessages, MaxTexts, MaxMishaps

ASSUME ChatAssumption ==
  /\ IsFiniteSet(Users) /\ Cardinality(Users) = 2 /\ Watchers \subseteq Users
  /\ MaxMessages \in Nat /\ MaxTexts \in Nat /\ MaxMishaps \in Nat

VARIABLES chat, msgs, access, screen, send, loads, marking, seen, raced, typed, copies, lost,
          unmarked, mishaps

Chat == INSTANCE Chat WITH excess <- copies, dropped <- lost, faults <- mishaps,
                           MaxFaults <- MaxMishaps

ChatSpec == Chat!Spec

\* What counts as read was shown, or has raced with a mark.
MissedOnlyByRace == Chat!MissedOnlyByRace

\* What was typed is on the screen, on its way, stored or given up.
TextsAreSound == Chat!TextsAreSound

\* A stored message reaches the screens that stay open.
MessageIsShown == Chat!MessageIsShown
=============================================================================

---------------------------- MODULE WriteOutcome ----------------------------
(***************************************************************************)
(* What the receipts of one sealed write promise its caller, with nothing  *)
(* of journals, leases, fences or messages.                                *)
(*                                                                         *)
(* An attempt changes the note at most once.  A receipt that left          *)
(* "pending" never changes again.  A committed plan had an effect; an      *)
(* expired plan never had one and never will; a plan closed as             *)
(* reviewed_unverified will have no further one.  A refusal (conflict or   *)
(* rejected) promises nothing about effects: an earlier uncertain attempt  *)
(* may have written the note or may still do so.                           *)
(***************************************************************************)
CONSTANT Attempts

VARIABLES
  outcome,   \* the receipt; planned, applying and outcome_unknown are pending
  effects    \* the attempts that changed the note

outcomeVars == <<outcome, effects>>

Outcomes == {"pending", "committed", "conflict", "rejected", "expired",
             "reviewed_unverified"}

OutcomeInit == outcome = "pending" /\ effects = {}

TakeEffect(a) ==
  /\ outcome \notin {"expired", "reviewed_unverified"}
  /\ a \notin effects
  /\ effects' = effects \cup {a}
  /\ UNCHANGED outcome

Ends(o) ==
  /\ outcome = "pending"
  /\ outcome' = o
  /\ UNCHANGED effects

Commit  == effects # {} /\ Ends("committed")
Refuse  == Ends("conflict") \/ Ends("rejected")
Expire  == effects = {} /\ Ends("expired")
Review  == Ends("reviewed_unverified")

OutcomeNext ==
  \/ \E a \in Attempts : TakeEffect(a)
  \/ Commit
  \/ Refuse
  \/ Expire
  \/ Review

OutcomeSpec == OutcomeInit /\ [][OutcomeNext]_outcomeVars

=============================================================================

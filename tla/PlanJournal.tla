----------------------------- MODULE PlanJournal -----------------------------
(***************************************************************************)
(* The durable journal of governed writes (obsidianNoteReplaceJournal.ts), *)
(* seen through one sealed plan: its row, the runtime leases of the MCP    *)
(* processes that share the database, and what each journal method does to *)
(* the row.  A method reloads the row and writes it back with a compare-   *)
(* and-set on the exact payload, so each one is a single step here.        *)
(***************************************************************************)
EXTENDS WriteAttempts, Naturals, FiniteSets

CONSTANTS
  Procs,         \* MCP runtime instances; a restarted process is another one
  NoProc,        \* no execution owner
  NoAttempt,     \* no execution owner
  MaxRecorded    \* MAX_RECORDED_EFFECT_ATTEMPTS

ASSUME JournalAssumption ==
  /\ NoProc \notin Procs
  /\ NoAttempt \notin Attempts
  /\ IsFiniteSet(Attempts)
  /\ MaxRecorded \in Nat

VARIABLES
  row,    \* the row of the plan
  up,     \* per runtime instance: "new", "up" or "down"
  lease   \* per runtime instance: its lease row exists and has not expired

journalVars == <<row, up, lease>>

Pending        == {"planned", "applying", "outcome_unknown"}
StableTerminal == {"committed", "conflict", "rejected", "expired"}
Statuses       == Pending \cup StableTerminal \cup {"reviewed_unverified"}

(* owner and proc are executionOwner; tokens is effectTracking.attempts;   *)
(* used are the attempt ids drawn so far, which makes two payloads of      *)
(* different executions differ as their timestamps do in the code.         *)
Rows == [ status : Statuses,
          owner  : Attempts \cup {NoAttempt},
          proc   : Procs \cup {NoProc},
          tokens : SUBSET Tokens,
          used   : SUBSET Attempts ]

PlannedRow == [ status |-> "planned", owner |-> NoAttempt, proc |-> NoProc,
                tokens |-> {}, used |-> {} ]

JournalTypeOK ==
  /\ row \in Rows
  /\ up \in [Procs -> {"new", "up", "down"}]
  /\ lease \in [Procs -> BOOLEAN]

JournalInit ==
  /\ row = PlannedRow
  /\ up = [p \in Procs |-> "new"]
  /\ lease = [p \in Procs |-> FALSE]

-----------------------------------------------------------------------------
(* Row to row. *)

Released(r, next) ==
  [r EXCEPT !.status = next, !.owner = NoAttempt, !.proc = NoProc]

Started(r, p, a) ==
  [r EXCEPT !.status = "applying", !.owner = a, !.proc = p, !.used = @ \cup {a}]

FreshAttempts(r) == Attempts \ r.used

Recorded(r, e, a) == [r EXCEPT !.tokens = @ \cup {<<e, a>>}]

(* Faulty sweeps: one that never runs, one that ignores the leases. *)
SweptAtStartOnly(r) == r

SweptWithoutLease(r) ==
  IF r.status = "applying" THEN Released(r, "outcome_unknown") ELSE r

(* markInterruptedPlans(): an applying row whose owner has no fresh lease. *)
Swept(r) ==
  IF r.status = "applying" /\ (r.proc \notin Procs \/ ~lease[r.proc])
  THEN Released(r, "outcome_unknown")
  ELSE r

(* maybePurgeTerminalPlans(): a planned row past its retention expires.    *)
Expired(r) == IF r.status = "planned" THEN Released(r, "expired") ELSE r

(* What get() may return and leave behind.  The sweep runs when its        *)
(* interval has passed, and so does the purge; without a clock both are    *)
(* possible at any get.                                                    *)
LoadsOf(r) == {r, Swept(r), Expired(r)}

Loads == LoadsOf(row)

(* A faulty transition that any executor may perform. *)
MayTransitionUnowned(r, expected, a) == r.status \in expected

(* transitionInternal(): the guards on the reloaded row. *)
MayTransition(r, expected, a) ==
  /\ r.status \in expected
  /\ r.status = "applying" => r.owner = a /\ a # NoAttempt

(* transitionOrReload(): the transition, or the row as it was reloaded.    *)
Transitioned(r, expected, next, a) ==
  IF MayTransition(r, expected, a) THEN Released(r, next) ELSE r

(* commitAfterVerifiedProof(): no owner is needed to commit on a proof.    *)
CommittedOnProof(r) ==
  IF r.status \in {"applying", "outcome_unknown"}
  THEN Released(r, "committed") ELSE r

(* recordEffectAttempt(): only the live attempt of an applying row.        *)
MayRecord(r, a) == r.status = "applying" /\ r.owner = a /\ a # NoAttempt

AtAttemptLimit(r) == Cardinality(r.tokens) >= MaxRecorded

(* Faulty closures: one that compares the status and not the payload, one  *)
(* that asks for the evidence of at least one recorded attempt.            *)
MayCloseByStatus(observed) ==
  observed.status = "outcome_unknown" /\ row.status = "outcome_unknown"

MayCloseWithEvidence(observed) ==
  /\ observed.status = "outcome_unknown"
  /\ row = observed
  /\ observed.tokens # {}

(* closeAdministratively(): compare-and-set on the row the caller observed. *)
MayClose(observed) == observed.status = "outcome_unknown" /\ row = observed

-----------------------------------------------------------------------------
(* Life cycle of the runtime instances. *)

(* Constructor: lease, then an unthrottled sweep and the first purge.      *)
StartRuntime(p) ==
  /\ up[p] = "new"
  /\ up' = [up EXCEPT ![p] = "up"]
  /\ lease' = [lease EXCEPT ![p] = TRUE]
  /\ row' \in {Swept(row), Expired(Swept(row))}

(* The heartbeat timer. *)
RenewLease(p) ==
  /\ up[p] = "up"
  /\ lease' = [lease EXCEPT ![p] = TRUE]
  /\ UNCHANGED <<row, up>>

(* Time passes without a heartbeat: the instance is dead or suspended.     *)
LeaseLapses(p) ==
  /\ lease[p]
  /\ lease' = [lease EXCEPT ![p] = FALSE]
  /\ UNCHANGED <<row, up>>

(* close(): the plans this instance owns are interrupted, its lease goes.  *)
CloseRuntime(p) ==
  /\ up[p] = "up"
  /\ up' = [up EXCEPT ![p] = "down"]
  /\ lease' = [lease EXCEPT ![p] = FALSE]
  /\ row' = IF row.status = "applying" /\ row.proc = p
            THEN Released(row, "outcome_unknown") ELSE row

(* The process dies: nothing is written, the lease lapses later.           *)
CrashRuntime(p) ==
  /\ up[p] = "up"
  /\ up' = [up EXCEPT ![p] = "down"]
  /\ UNCHANGED <<row, lease>>

=============================================================================

--------------------------- MODULE DatePreparation ---------------------------
(***************************************************************************)
(* Date preparation: a plan for a note that has no creation date yet lets  *)
(* the date manager of Obsidian (FDM) add it first.  The plan takes a      *)
(* durable lock on the note, whose attempt id is also its effect-fence     *)
(* token, and sends the Bridge a request that opens the note and runs      *)
(* FDM's command.  The module composes the planning calls (runtime.ts),    *)
(* the lock (obsidianNoteReplaceJournal.ts), the request at the Bridge     *)
(* (datePreparation.ts), the owner's review of a lock                      *)
(* (administrativeClosure.ts) and the effect fence itself.                 *)
(*                                                                         *)
(* The attempts are those of preparations.  The Bridge runs the requests   *)
(* of one instance one after the other; the model lets them interleave,    *)
(* which only adds behaviours.                                             *)
(***************************************************************************)
EXTENDS EffectFence

CONSTANTS
  Plans,     \* planning calls of the MCP processes, reused once they return
  NoAttempt

ASSUME NoAttemptAssumption == NoAttempt \notin Attempts

VARIABLES
  note,      \* the note, as the hashes and the date properties tell it apart
  lock,      \* the row of obsidian_date_preparation_fences for the note
  plan,      \* per plan: where it is and what it holds
  req,       \* per preparation: its request
  review,    \* the owner's review of a lock
  verified,  \* history: attempts whose result a plan verified
  unstarted, \* history: attempts recorded as never having started
  reviewed   \* history: attempts whose lock the owner released

prepVars == <<note, lock, plan, req, review, verified, unstarted, reviewed>>
allVars == <<vars, prepVars>>

(* A note without its creation date, and one that has it. *)
Contents == {"plain", "dated"}

AnyAttempt == Attempts \cup {NoAttempt}

Locks == [att : AnyAttempt, epoch : 0 .. MaxEpochs]
Free == [att |-> NoAttempt, epoch |-> NoEpoch]

Verdicts == {"epoch_unknown", "revoked_before_effect", "not_reached",
             "effect_in_progress", "effect_settled", "none"}

PlanStates ==
  [ pc     : {"idle", "revoke", "release", "status",
              "waiting", "verify", "verified"},
    src    : Contents,   \* the source it read
    lock   : Locks,      \* the lock it found, or its own
    own    : BOOLEAN,    \* it dispatched that attempt itself
    answer : Verdicts ]  \* what the fence said of it

Idle == [pc |-> "idle", src |-> "plain", lock |-> Free, own |-> FALSE, answer |-> "none"]

(* A "late" request has failed while FDM still owes its write. *)
Requests ==
  [ st    : {"none", "sent", "checked", "open", "dating", "late",
             "prepared", "failed"},
    epoch : 0 .. MaxEpochs ]

Reviews == [pc : {"idle", "resolve", "commit"}, lock : Locks, answer : Verdicts]

NoReview == [pc |-> "idle", lock |-> Free, answer |-> "none"]

PrepTypeOK ==
  /\ TypeOK
  /\ note \in Contents
  /\ lock \in Locks
  /\ plan \in [Plans -> PlanStates]
  /\ req \in [Attempts -> Requests]
  /\ review \in Reviews
  /\ verified \subseteq Attempts
  /\ unstarted \subseteq Attempts
  /\ reviewed \subseteq Attempts

(* No attempt without a token: those play no part here (EffectFence). *)
PrepInit ==
  /\ Init /\ requireFence /\ ~oldBuild
  /\ note = "plain"
  /\ lock = Free
  /\ plan = [c \in Plans |-> Idle]
  /\ req = [a \in Attempts |-> [st |-> "none", epoch |-> NoEpoch]]
  /\ review = NoReview
  /\ verified = {} /\ unstarted = {} /\ reviewed = {}

-----------------------------------------------------------------------------
(* The planning call, prepareForPlan(). *)

TokenOf(l) == <<l.epoch, l.att>>

Goes(c, pc) == plan' = [plan EXCEPT ![c].pc = pc]

Returns(c) == plan' = [plan EXCEPT ![c] = Idle]

Held == lock.att # NoAttempt

(* A faulty release by note instead of by attempt. *)
WithoutAny(a) == Free

(* DELETE ... WHERE attempt_id = ?: never the lock of another attempt.     *)
Without(a) == IF lock.att = a THEN Free ELSE lock

(* What a step of a plan alone leaves as it is. *)
PlanOnly == UNCHANGED <<vars, note, lock, req, review, verified, unstarted, reviewed>>

(* The planning read, and then the lock: one that is held must be proved   *)
(* harmless, and a note that has its date needs no preparation.  (A lock   *)
(* taken or released between the two meets the same tests later.)          *)
ReadSource(c) ==
  /\ plan[c].pc = "idle" /\ ~disposed
  /\ IF Held
     THEN plan' = [plan EXCEPT ![c] =
                     [Idle EXCEPT !.pc = "revoke", !.src = note, !.lock = lock]]
     ELSE note = "plain" /\ Goes(c, "status")
  /\ PlanOnly

(* releaseUnstartedPreparation(): the Bridge answers and revokes, ...      *)
Revokes(c) ==
  /\ plan[c].pc = "revoke" /\ ~disposed
  /\ Resolve(TokenOf(plan[c].lock), "revoke")
  /\ plan' = [plan EXCEPT ![c].pc = "release",
                          ![c].answer = Verdict(TokenOf(plan[c].lock), "revoke")]
  /\ UNCHANGED <<note, lock, req, review, verified, unstarted, reviewed>>

(* A faulty release that takes an unknown epoch for an attempt that never  *)
(* started.                                                                *)
ProvesUnstartedLoosely(verdict) == verdict \in {"revoked_before_effect", "epoch_unknown"}

ProvesUnstarted(verdict) == verdict = "revoked_before_effect"

(* ... and only a revocation before the effect releases the lock: the plan *)
(* goes on, or tells its caller that its own preparation did not start.    *)
Releases(c) ==
  /\ plan[c].pc = "release"
  /\ IF ProvesUnstarted(plan[c].answer)
     THEN /\ lock' = Without(plan[c].lock.att)
          /\ unstarted' = unstarted \cup {plan[c].lock.att}
          /\ IF plan[c].own \/ plan[c].src = "dated" THEN Returns(c)
             ELSE plan' = [plan EXCEPT ![c] = [Idle EXCEPT !.pc = "status"]]
     ELSE Returns(c) /\ UNCHANGED <<lock, unstarted>>
  /\ UNCHANGED <<vars, note, req, review, verified, reviewed>>

(* A faulty lock that replaces the one it finds. *)
MayAcquireAnyway == TRUE

(* INSERT OR IGNORE. *)
MayAcquire == ~Held

(* The status gives the epoch; acquireDatePreparationFence() draws a fresh *)
(* attempt id, and the lock is durable before the request leaves.  (The    *)
(* epoch may grow old on the way: the request is as old as its token.)     *)
Dispatch(c, a) ==
  /\ plan[c].pc = "status" /\ ~disposed /\ req[a].st = "none"
  /\ IF MayAcquire
     THEN /\ lock' = [att |-> a, epoch |-> current]
          /\ plan' = [plan EXCEPT ![c].pc = "waiting", ![c].lock = lock', ![c].own = TRUE]
          /\ req' = [req EXCEPT ![a] = [st |-> "sent", epoch |-> current]]
     ELSE Returns(c) /\ UNCHANGED <<lock, req>>
  /\ UNCHANGED <<vars, note, review, verified, unstarted, reviewed>>

(* prepareDate() succeeded. *)
Answered(c) ==
  /\ plan[c].pc = "waiting" /\ req[plan[c].lock.att].st = "prepared"
  /\ Goes(c, "verify")
  /\ PlanOnly

(* preparationFailure(): refused, failed, lost or late, all the same.      *)
Fails(c) ==
  /\ plan[c].pc = "waiting"
  /\ Goes(c, "revoke")
  /\ PlanOnly

(* verifyPreparation() judges a fresh read, never the answer; what it      *)
(* refuses keeps the lock.                                                 *)
Verifies(c) ==
  /\ plan[c].pc = "verify" /\ ~disposed
  /\ IF note = "dated"
     THEN Goes(c, "verified") /\ verified' = verified \cup {plan[c].lock.att}
     ELSE Returns(c) /\ UNCHANGED verified
  /\ UNCHANGED <<vars, note, lock, req, review, unstarted, reviewed>>

(* releaseVerifiedDatePreparationFence(), at once or when the plan stands. *)
ReleasesVerified(c) ==
  /\ plan[c].pc = "verified"
  /\ lock' = Without(plan[c].lock.att)
  /\ Returns(c)
  /\ UNCHANGED <<vars, note, req, review, verified, unstarted, reviewed>>

(* A read or a verdict does not come, or the process dies: a dead process  *)
(* leaves its lock behind.                                                 *)
Gives(c) ==
  /\ plan[c].pc # "idle"
  /\ Returns(c)
  /\ PlanOnly

-----------------------------------------------------------------------------
(* The request at the Bridge, prepare(). *)

Token(a) == <<req[a].epoch, a>>

Steps(a, from, to) == req[a].st \in from /\ req' = [req EXCEPT ![a].st = to]

BridgeOnly == UNCHANGED <<lock, plan, review, verified, unstarted, reviewed>>

(* The source is read when the request's turn comes: it must be the text   *)
(* the plan saw, and FDM must have nothing pending for it.                 *)
CheckSource(a) ==
  /\ note = "plain" /\ ~disposed /\ Steps(a, {"sent"}, "checked")
  /\ UNCHANGED <<vars, note>> /\ BridgeOnly

(* Lost, disabled, disposed, past its deadline, another text, FDM busy:    *)
(* refused before the effect point.                                        *)
Refuse(a) ==
  /\ Steps(a, {"sent", "checked"}, "failed")
  /\ UNCHANGED <<vars, note>> /\ BridgeOnly

(* The effect point: the fence admits the token as the leaf is opened.     *)
OpenLeaf(a) ==
  /\ Steps(a, {"checked"}, "open")
  /\ EnterFenced(Token(a)) \/ EnterFencedAndRotate(Token(a))
  /\ UNCHANGED note /\ BridgeOnly

(* After a second look at the text, FDM's command is executed, ...         *)
Command(a) ==
  /\ note = "plain" /\ ~disposed /\ Steps(a, {"open"}, "dating")
  /\ UNCHANGED <<vars, note>> /\ BridgeOnly

(* ... which writes when it likes, ...                                     *)
FdmWrites(a) ==
  /\ \/ req[a].st = "dating" /\ UNCHANGED req
     \/ Steps(a, {"late"}, "failed")
  /\ note' = "dated"
  /\ UNCHANGED vars /\ BridgeOnly

(* ... and the observation ends with a stable dated note, or fails, maybe  *)
(* before that write: the fence is settled either way.                     *)
Ends(a) ==
  /\ \/ note = "dated" /\ Steps(a, {"dating"}, "prepared")
     \/ Steps(a, {"open", "dating"}, "failed")
     \/ note = "plain" /\ Steps(a, {"dating"}, "late")
  /\ SettleFenced(Token(a))
  /\ UNCHANGED note /\ BridgeOnly

-----------------------------------------------------------------------------
(* The owner's review of a lock, releaseDatePreparationLock(). *)

ReviewOnly == UNCHANGED <<note, plan, req, verified>>

ReviewReads ==
  /\ review.pc = "idle" /\ Held /\ ~disposed
  /\ review' = [pc |-> "resolve", lock |-> lock, answer |-> "none"]
  /\ UNCHANGED <<vars, lock, unstarted, reviewed>> /\ ReviewOnly

(* A faulty evaluation that closes over a running effect. *)
MayCloseAnyway(verdict) == TRUE

(* evaluateFence(): an effect that runs, or has settled too recently for a *)
(* late write to have landed, refuses the release; an unknown epoch cannot *)
(* run any more.                                                           *)
MayClose(verdict) == verdict # "effect_in_progress"

(* A faulty review that takes a settled effect for the last of it. *)
QuietAtOnce(a) == TRUE

(* The quiet period outlasts a write that FDM still owes. *)
Quiet(a) == req[a].st # "late"

ReviewResolves ==
  /\ review.pc = "resolve" /\ ~disposed
  /\ Resolve(TokenOf(review.lock), "revoke")
  /\ LET verdict == Verdict(TokenOf(review.lock), "revoke")
     IN  review' = IF MayClose(verdict) /\ (verdict = "effect_settled" => Quiet(review.lock.att))
                   THEN [review EXCEPT !.pc = "commit", !.answer = verdict] ELSE NoReview
  /\ UNCHANGED <<lock, unstarted, reviewed>> /\ ReviewOnly

ReviewCommits ==
  /\ review.pc = "commit"
  /\ lock' = Without(review.lock.att)
  /\ reviewed' = IF lock.att = review.lock.att THEN reviewed \cup {lock.att} ELSE reviewed
  /\ unstarted' = IF lock.att = review.lock.att /\ ProvesUnstarted(review.answer)
                  THEN unstarted \cup {lock.att} ELSE unstarted
  /\ review' = NoReview
  /\ UNCHANGED vars /\ ReviewOnly

ReviewGives ==
  /\ review.pc # "idle"
  /\ review' = NoReview
  /\ UNCHANGED <<vars, lock, unstarted, reviewed>> /\ ReviewOnly

-----------------------------------------------------------------------------
(* Everything else: an edit of the note, and the life of the Bridge.       *)

Edit ==
  /\ note' \in Contents \ {note}
  /\ UNCHANGED vars /\ BridgeOnly /\ UNCHANGED req

Unload == Dispose /\ UNCHANGED prepVars

Reload == Load /\ UNCHANGED prepVars

(* The requests of the realm die with it. *)
QuitRealm ==
  /\ Quit
  /\ req' = [a \in Attempts |->
               IF req[a].st \in {"none", "sent", "prepared"} THEN req[a]
               ELSE [req[a] EXCEPT !.st = "failed"]]
  /\ UNCHANGED note /\ BridgeOnly

-----------------------------------------------------------------------------
PrepNext ==
  \/ \E c \in Plans : ReadSource(c)
  \/ \E c \in Plans : Revokes(c)
  \/ \E c \in Plans : Releases(c)
  \/ \E c \in Plans, a \in Attempts : Dispatch(c, a)
  \/ \E c \in Plans : Answered(c)
  \/ \E c \in Plans : Fails(c)
  \/ \E c \in Plans : Verifies(c)
  \/ \E c \in Plans : ReleasesVerified(c)
  \/ \E c \in Plans : Gives(c)
  \/ \E a \in Attempts : CheckSource(a)
  \/ \E a \in Attempts : Refuse(a)
  \/ \E a \in Attempts : OpenLeaf(a)
  \/ \E a \in Attempts : Command(a)
  \/ \E a \in Attempts : FdmWrites(a)
  \/ \E a \in Attempts : Ends(a)
  \/ ReviewReads
  \/ ReviewResolves
  \/ ReviewCommits
  \/ ReviewGives
  \/ Edit
  \/ Unload
  \/ Reload
  \/ QuitRealm

PrepSpec == PrepInit /\ [][PrepNext]_allVars

-----------------------------------------------------------------------------
EnteredAttempts == {t[2] : t \in Entered}

(* While a preparation acts on the note, its own lock stands: so at most   *)
(* one acts at a time, and no plan can prepare the note over it.           *)
EffectHoldsItsLock ==
  \A t \in run : lock.att = t[2]

(* A preparation that may have changed the note keeps its lock until a     *)
(* plan has verified the result or the owner has reviewed it, whatever     *)
(* answer was lost and whoever crashed in between.                         *)
UnverifiedKeepsItsLock ==
  \A a \in EnteredAttempts \ (verified \cup reviewed) : lock.att = a

(* A write that FDM still owes, after its request has failed and the fence *)
(* was settled, keeps the lock too: nobody plans over a note that is about *)
(* to change, unless the fence has forgotten the request's epoch.          *)
LateWriteHoldsItsLock ==
  \A a \in Attempts :
    req[a].st = "late" /\ req[a].epoch \in registered => lock.att = a

(* What was recorded as never started never opened the note, and never     *)
(* will, though its request may still be under way.                        *)
UnstartedDidNothing == unstarted \cap EnteredAttempts = {}

=============================================================================

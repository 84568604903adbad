---------------------------- MODULE GovernedWrite ----------------------------
(***************************************************************************)
(* One governed note replacement, end to end: the calls that several MCP   *)
(* processes run on the same sealed plan (apply, status, recover and the   *)
(* administrative closure), the journal row they race for, the requests    *)
(* they send to the Atomic Write Bridge, the Bridge's compare-and-swap     *)
(* route behind its effect fence, and the note.                            *)
(*                                                                         *)
(* A call is a sequence of synchronous stretches separated by awaits; each *)
(* stretch is one action.  What an await returns is a snapshot: the answer *)
(* is computed at the Bridge in one step and used by the call in a later   *)
(* one.  The plan has no sealed modified-time settlement policy, so the    *)
(* code's settlement waits return at once.                                 *)
(***************************************************************************)
EXTENDS FenceContract, PlanJournal

CONSTANTS
  Calls,    \* request handlers of the MCP processes, reused once they return
  Faults    \* the environment events an instance of the model lets happen

FaultKinds == {"crash", "close", "lapse", "lose", "timeout", "writefail",
               "unload", "quit", "rotate", "disable", "retarget", "edit",
               "revert"}

ASSUME FaultsAssumption == Faults \subseteq FaultKinds

VARIABLES
  call,      \* per call: where it is and what it holds
  req,       \* per attempt: its compare-and-swap request
  reqEpoch,  \* per attempt: the fence epoch its request carries
  allow,     \* the Bridge setting that admits writes
  target,    \* which vault answers at the Bridge address
  note,      \* the note, as the sealed hashes tell it apart
  written    \* attempts whose content reached the note (history)

bridgeVars == <<req, reqEpoch, allow, target, note, written>>
vars == <<row, up, lease, live, issued, entered, running, barred, call,
          req, reqEpoch, allow, target, note, written>>

-----------------------------------------------------------------------------
Contents == {"before", "after", "other"}

ReadPhases == {"preflight", "conflict", "error", "observe", "recover",
               "recheck", "closeObserve"}
Phases == ReadPhases \cup {"idle", "status", "waiting", "closeResolve",
                           "closeCommit"}
Answers == Contents \cup {"pending", "failed", "elsewhere", "refused", "ok"}

RequestStates == {"none", "sent", "admitted", "running", "ok", "conflict",
                  "forbidden", "error", "gone"}

(* att is the attempt an executor owns; recovered its recoveredFromUnknown *)
(* flag; seen the status of the plan an observer loaded; answer the result *)
(* of the await under way; epoch the fence epoch of the status it read;    *)
(* observed the row a closure is about to compare and set.                 *)
CallStates == [ pc        : Phases,
                proc      : Procs \cup {NoProc},
                att       : Attempts \cup {NoAttempt},
                recovered : BOOLEAN,
                seen      : Statuses,
                answer    : Answers,
                epoch     : Epochs \cup {NoEpoch},
                observed  : Rows ]

Idle == [ pc |-> "idle", proc |-> NoProc, att |-> NoAttempt,
          recovered |-> FALSE, seen |-> "planned", answer |-> "pending",
          epoch |-> NoEpoch, observed |-> PlannedRow ]

Executing(p, a, recovered) ==
  [Idle EXCEPT !.pc = "status", !.proc = p, !.att = a, !.recovered = recovered]

Watching(p, phase, seen) ==
  [Idle EXCEPT !.pc = phase, !.proc = p, !.seen = seen]

TypeOK ==
  /\ JournalTypeOK
  /\ FenceTypeOK
  /\ call \in [Calls -> CallStates]
  /\ req \in [Attempts -> RequestStates]
  /\ reqEpoch \in [Attempts -> Epochs \cup {NoEpoch}]
  /\ allow \in BOOLEAN
  /\ target \in {"sealed", "another"}
  /\ note \in Contents
  /\ written \subseteq Attempts

Init ==
  /\ JournalInit
  /\ FenceInit
  /\ live # NoEpoch
  /\ call = [h \in Calls |-> Idle]
  /\ req = [a \in Attempts |-> "none"]
  /\ reqEpoch = [a \in Attempts |-> NoEpoch]
  /\ allow = TRUE
  /\ target = "sealed"
  /\ note = "before"
  /\ written = {}

-----------------------------------------------------------------------------
(* Steps of a call. *)

Free(h, p) == up[p] = "up" /\ call[h].pc = "idle"

Answered(h, phase) == call[h].pc = phase /\ call[h].answer # "pending"

Returns(h) == call' = [call EXCEPT ![h] = Idle]

Continues(h, phase) ==
  call' = [call EXCEPT ![h].pc = phase, ![h].answer = "pending"]

JournalOnly == UNCHANGED <<up, lease, fenceVars, bridgeVars>>

(* transitionOrReload() out of applying by the attempt's own executor. *)
LeaveApplying(h, next) ==
  /\ \E cur \in Loads :
       row' = Transitioned(cur, {"applying"}, next, call[h].att)
  /\ Returns(h)
  /\ JournalOnly

-----------------------------------------------------------------------------
(* Entry of the four tools: the synchronous stretch up to the first await. *)

Apply(h, p) ==
  /\ Free(h, p)
  /\ \E cur \in Loads :
       \/ /\ cur.status = "planned"
          /\ \E a \in FreshAttempts(cur) :
               /\ row' = Started(cur, p, a)
               /\ call' = [call EXCEPT ![h] = Executing(p, a, FALSE)]
       \/ /\ cur.status = "applying"
          /\ row' = cur
          /\ call' = [call EXCEPT ![h] = Watching(p, "observe", cur.status)]
       \/ /\ cur.status \notin {"planned", "applying"}
          /\ row' = cur
          /\ UNCHANGED call
  /\ JournalOnly

(* status(), recover() and closeOperation() begin alike: load the plan and *)
(* read the note when the plan is not settled.                             *)
Inquire(h, p, phase) ==
  /\ Free(h, p)
  /\ \E cur \in Loads :
       /\ row' = cur
       /\ call' = IF cur.status \in {"applying", "outcome_unknown"}
                  THEN [call EXCEPT ![h] = Watching(p, phase, cur.status)]
                  ELSE call
  /\ JournalOnly

Status(h, p)  == Inquire(h, p, "observe")
Recover(h, p) == Inquire(h, p, "recover")
Close(h, p)   == Inquire(h, p, "closeObserve")

-----------------------------------------------------------------------------
(* execute(): from a started attempt to the dispatch of its request. *)

StatusFailed(h) ==
  /\ Answered(h, "status")
  /\ call[h].answer = "failed"
  /\ LeaveApplying(h, "outcome_unknown")

StatusRefuses(h) ==
  /\ Answered(h, "status")
  /\ call[h].answer = "refused"
  /\ LeaveApplying(h, "rejected")

(* A faulty executor that goes on after a failed status request. *)
RecordUncheckedAttempt(h) ==
  /\ Answered(h, "status")
  /\ MayRecord(row, call[h].att)
  /\ ~AtAttemptLimit(row)
  /\ row' = Recorded(row, call[h].epoch, call[h].att)
  /\ Continues(h, "preflight")
  /\ JournalOnly

(* recordEffectAttempt(): the token is durable before the request exists. *)
RecordAttempt(h) ==
  /\ Answered(h, "status")
  /\ call[h].answer = "ok"
  /\ \E cur \in Loads :
       \/ /\ MayRecord(cur, call[h].att)
          /\ ~AtAttemptLimit(cur)
          /\ row' = Recorded(cur, call[h].epoch, call[h].att)
          /\ Continues(h, "preflight")
       \/ /\ ~MayRecord(cur, call[h].att)
          /\ row' = cur
          /\ Returns(h)
  /\ JournalOnly

AttemptLimitReached(h) ==
  /\ Answered(h, "status")
  /\ call[h].answer = "ok"
  /\ MayRecord(row, call[h].att)
  /\ AtAttemptLimit(row)
  /\ LeaveApplying(h, "rejected")

(* GovernedAtomicWriteBackend.replace(): the pre-dispatch read. *)
PreflightFailed(h) ==
  /\ Answered(h, "preflight")
  /\ call[h].answer = "failed"
  /\ LeaveApplying(h, "outcome_unknown")

PreflightConflicts(h) ==
  /\ Answered(h, "preflight")
  /\ call[h].answer \in {"elsewhere", "after", "other"}
  /\ LeaveApplying(h, "conflict")

Dispatch(h) ==
  /\ Answered(h, "preflight")
  /\ call[h].answer = "before"
  /\ req' = [req EXCEPT ![call[h].att] = "sent"]
  /\ reqEpoch' = [reqEpoch EXCEPT ![call[h].att] = call[h].epoch]
  /\ Continues(h, "waiting")
  /\ UNCHANGED <<journalVars, fenceVars, allow, target, note, written>>

-----------------------------------------------------------------------------
(* The compare-and-swap route of the Bridge (notes/cas). *)

TokenOf(a) == <<reqEpoch[a], a>>

RequestMoves(a, state) == req' = [req EXCEPT ![a] = state]

(* The route is reached: the write gate and the binding are checked. *)
AdmitRequest(a) ==
  /\ req[a] = "sent"
  /\ live # NoEpoch
  /\ RequestMoves(a, IF ~allow              THEN "forbidden"
                     ELSE IF target # "sealed" THEN "conflict"
                     ELSE "admitted")
  /\ UNCHANGED <<journalVars, fenceVars, call, reqEpoch, allow, target, note,
                 written>>

(* The vault.process callback: first the hash, then the fence, in one      *)
(* synchronous step.  Obsidian runs one vault.process per note at a time.  *)
HashConflict(a) ==
  /\ req[a] = "admitted"
  /\ running = {}
  /\ note # "before"
  /\ RequestMoves(a, "conflict")
  /\ UNCHANGED <<journalVars, fenceVars, call, reqEpoch, allow, target, note,
                 written>>

(* A faulty route that passes the fence without the hash comparison. *)
PassFenceWithoutHash(a) ==
  /\ req[a] = "admitted"
  /\ running = {}
  /\ Enter(TokenOf(a))
  /\ RequestMoves(a, "running")
  /\ UNCHANGED <<journalVars, call, reqEpoch, allow, target, note, written>>

PassFence(a) ==
  /\ req[a] = "admitted"
  /\ running = {}
  /\ note = "before"
  /\ \/ Enter(TokenOf(a))
     \/ /\ "rotate" \in Faults
        /\ \E e \in Epochs : EnterAndRotate(TokenOf(a), e)
  /\ RequestMoves(a, "running")
  /\ UNCHANGED <<journalVars, call, reqEpoch, allow, target, note, written>>

FenceRefuses(a) ==
  /\ req[a] = "admitted"
  /\ running = {}
  /\ note = "before"
  /\ ~Admits(TokenOf(a))
  /\ RequestMoves(a, "forbidden")
  /\ UNCHANGED <<journalVars, fenceVars, call, reqEpoch, allow, target, note,
                 written>>

(* The content reaches the note; the effect settles and the route answers. *)
WriteLands(a) ==
  /\ req[a] = "running"
  /\ note' = "after"
  /\ written' = written \cup {a}
  /\ Settle(TokenOf(a))
  /\ RequestMoves(a, "ok")
  /\ UNCHANGED <<journalVars, call, reqEpoch, allow, target>>

WriteFails(a) ==
  /\ "writefail" \in Faults
  /\ req[a] = "running"
  /\ Settle(TokenOf(a))
  /\ RequestMoves(a, "error")
  /\ UNCHANGED <<journalVars, call, reqEpoch, allow, target, note, written>>

LoseRequest(a) ==
  /\ "lose" \in Faults
  /\ req[a] = "sent"
  /\ RequestMoves(a, "gone")
  /\ UNCHANGED <<journalVars, fenceVars, call, reqEpoch, allow, target, note,
                 written>>

-----------------------------------------------------------------------------
(* execute(): after the dispatch. *)

CasCommits(h) ==
  /\ call[h].pc = "waiting"
  /\ req[call[h].att] = "ok"
  /\ LeaveApplying(h, "committed")

CasForbidden(h) ==
  /\ call[h].pc = "waiting"
  /\ req[call[h].att] = "forbidden"
  /\ LeaveApplying(h, "rejected")

CasConflicts(h) ==
  /\ call[h].pc = "waiting"
  /\ req[call[h].att] = "conflict"
  /\ Continues(h, "conflict")
  /\ UNCHANGED row
  /\ JournalOnly

(* An error answer, or no answer within the client's timeout. *)
CasErrs(h) ==
  /\ call[h].pc = "waiting"
  /\ req[call[h].att] = "error" \/ "timeout" \in Faults
  /\ Continues(h, "error")
  /\ UNCHANGED row
  /\ JournalOnly

(* reconcileCasConflict(): what the note says after a conflict answer. *)
ConflictOutcome(h) ==
  LET seen == call[h].answer
  IN  IF seen = "after"                              THEN "committed"
      ELSE IF seen = "failed"                        THEN "outcome_unknown"
      ELSE IF seen = "other" /\ call[h].recovered    THEN "outcome_unknown"
      ELSE "conflict"

ReconcileConflict(h) ==
  /\ Answered(h, "conflict")
  /\ LeaveApplying(h, ConflictOutcome(h))

(* A faulty reconciliation that takes the before content for a refusal. *)
ErrorOutcomeByContent(h) ==
  IF call[h].answer = "after"                     THEN "committed"
  ELSE IF call[h].answer \in {"before", "elsewhere"} THEN "conflict"
  ELSE "outcome_unknown"

(* reconcile() by the executor itself, after an error. *)
ErrorOutcome(h) ==
  IF call[h].answer = "after"           THEN "committed"
  ELSE IF call[h].answer = "elsewhere"  THEN "conflict"
  ELSE "outcome_unknown"

ReconcileError(h) ==
  /\ Answered(h, "error")
  /\ LeaveApplying(h, ErrorOutcome(h))

-----------------------------------------------------------------------------
(* reconcile() by an observer that owns no attempt: the rows it may leave. *)

ObserverRows(seen, answer) ==
  IF answer = "after" /\ seen = "applying"
  THEN {CommittedOnProof(cur) : cur \in Loads}
  ELSE IF answer = "after"
  THEN {Transitioned(cur, {"outcome_unknown"}, "committed", NoAttempt) :
          cur \in Loads}
  ELSE IF answer = "elsewhere" /\ seen = "outcome_unknown"
  THEN {Transitioned(cur, {"outcome_unknown"}, "conflict", NoAttempt) :
          cur \in Loads}
  ELSE {row}

Observe(h) ==
  /\ Answered(h, "observe")
  /\ row' \in ObserverRows(call[h].seen, call[h].answer)
  /\ Returns(h)
  /\ JournalOnly

(* recover(): only a plan that is still outcome_unknown after the first    *)
(* reading is read again; everything else ends here.                       *)
RecoverReconciles(h) ==
  /\ Answered(h, "recover")
  /\ row' \in ObserverRows(call[h].seen, call[h].answer)
  /\ IF /\ call[h].seen = "outcome_unknown"
        /\ call[h].answer \in {"before", "other"}
     THEN Continues(h, "recheck")
     ELSE Returns(h)
  /\ JournalOnly

RecoverSettles(h) ==
  /\ Answered(h, "recheck")
  /\ call[h].answer # "before"
  /\ row' \in ObserverRows("outcome_unknown", call[h].answer)
  /\ Returns(h)
  /\ JournalOnly

(* The note still has its sealed before content: a new attempt starts. The *)
(* last disjunct is the bound of the model on the number of attempts.      *)
RecoverStarts(h) ==
  /\ Answered(h, "recheck")
  /\ call[h].answer = "before"
  /\ \E cur \in Loads :
       \/ /\ cur.status = "outcome_unknown"
          /\ \E a \in FreshAttempts(cur) :
               /\ row' = Started(cur, call[h].proc, a)
               /\ call' = [call EXCEPT ![h] = Executing(call[h].proc, a, TRUE)]
       \/ /\ cur.status # "outcome_unknown" \/ FreshAttempts(cur) = {}
          /\ row' = cur
          /\ Returns(h)
  /\ JournalOnly

-----------------------------------------------------------------------------
(* closeOperation(). *)

CloseReconciles(h) ==
  /\ Answered(h, "closeObserve")
  /\ \E r \in ObserverRows(call[h].seen, call[h].answer) :
       \E cur \in LoadsOf(r) :
         /\ row' = cur
         /\ call' =
              IF cur.status = "outcome_unknown"
              THEN [call EXCEPT ![h].pc = "closeResolve",
                                ![h].answer = "pending",
                                ![h].observed = cur]
              ELSE [call EXCEPT ![h] = Idle]
  /\ JournalOnly

(* A faulty closure that inspects the tokens instead of revoking them. *)
CloseInspects(h) ==
  /\ call[h].pc = "closeResolve"
  /\ live # NoEpoch
  /\ target = "sealed"
  /\ call[h].observed.tokens \cap running = {}
  /\ Continues(h, "closeCommit")
  /\ UNCHANGED <<journalVars, fenceVars, bridgeVars>>

(* The resolve route revokes every recorded token in one synchronous step. *)
(* A running effect refuses the closure; a settled one may still be inside *)
(* its quiet period and refuse it too.                                     *)
CloseResolves(h) ==
  /\ call[h].pc = "closeResolve"
  /\ live # NoEpoch
  /\ target = "sealed"
  /\ Revoke(call[h].observed.tokens)
  /\ \/ /\ call[h].observed.tokens \cap running = {}
        /\ Continues(h, "closeCommit")
     \/ /\ call[h].observed.tokens \cap entered # {}
        /\ Returns(h)
  /\ UNCHANGED <<journalVars, bridgeVars>>

(* The Bridge is unavailable or its binding differs: the closure refuses.  *)
CloseRefused(h) ==
  /\ call[h].pc = "closeResolve"
  /\ live = NoEpoch \/ target # "sealed" \/ "timeout" \in Faults
  /\ Returns(h)
  /\ UNCHANGED row
  /\ JournalOnly

CloseCommits(h) ==
  /\ call[h].pc = "closeCommit"
  /\ IF MayClose(call[h].observed)
     THEN row' = Released(row, "reviewed_unverified")
     ELSE row' \in Loads
  /\ Returns(h)
  /\ JournalOnly

-----------------------------------------------------------------------------
(* Answers of the Bridge to reads and status requests. *)

BridgeReads(h) ==
  /\ call[h].pc \in ReadPhases
  /\ call[h].answer = "pending"
  /\ live # NoEpoch
  /\ call' = [call EXCEPT ![h].answer =
                IF target = "sealed" THEN note ELSE "elsewhere"]
  /\ UNCHANGED <<journalVars, fenceVars, bridgeVars>>

BridgeStatus(h) ==
  /\ call[h].pc = "status"
  /\ call[h].answer = "pending"
  /\ live # NoEpoch
  /\ call' = [call EXCEPT
                ![h].answer = IF target = "sealed" /\ allow
                              THEN "ok" ELSE "refused",
                ![h].epoch = live]
  /\ UNCHANGED <<journalVars, fenceVars, bridgeVars>>

RequestFails(h) ==
  /\ call[h].pc \in ReadPhases \cup {"status"}
  /\ call[h].answer = "pending"
  /\ live = NoEpoch \/ "timeout" \in Faults
  /\ call' = [call EXCEPT ![h].answer = "failed"]
  /\ UNCHANGED <<journalVars, fenceVars, bridgeVars>>

-----------------------------------------------------------------------------
(* Processes, plugin, settings and other writers of the note. *)

Start(p) == StartRuntime(p) /\ UNCHANGED <<fenceVars, call, bridgeVars>>

Heartbeat(p) == RenewLease(p) /\ UNCHANGED <<fenceVars, call, bridgeVars>>

Lapse(p) ==
  /\ up[p] = "down" \/ "lapse" \in Faults
  /\ LeaseLapses(p)
  /\ UNCHANGED <<fenceVars, call, bridgeVars>>

CallsWithout(p) ==
  call' = [h \in Calls |-> IF call[h].proc = p THEN Idle ELSE call[h]]

Stop(p) ==
  /\ "close" \in Faults
  /\ CloseRuntime(p)
  /\ CallsWithout(p)
  /\ UNCHANGED <<fenceVars, bridgeVars>>

Crash(p) ==
  /\ "crash" \in Faults
  /\ CrashRuntime(p)
  /\ CallsWithout(p)
  /\ UNCHANGED <<fenceVars, bridgeVars>>

UnloadBridge ==
  /\ "unload" \in Faults
  /\ Retire
  /\ UNCHANGED <<journalVars, call, bridgeVars>>

LoadBridge(e) ==
  /\ Issue(e)
  /\ UNCHANGED <<journalVars, call, bridgeVars>>

(* Obsidian quits: handlers die where they are, an effect under way having *)
(* reached the note or not.                                                *)
QuitObsidian(landed) ==
  /\ "quit" \in Faults
  /\ QuitRealm
  /\ req' = [a \in Attempts |->
               IF req[a] \in {"admitted", "running"} THEN "gone" ELSE req[a]]
  /\ written' = written \cup landed
  /\ note' = IF landed = {} THEN note ELSE "after"
  /\ UNCHANGED <<journalVars, call, reqEpoch, allow, target>>

InFlight == {a \in Attempts : req[a] = "running"}

ToggleWrites ==
  /\ "disable" \in Faults
  /\ allow' = ~allow
  /\ UNCHANGED <<journalVars, fenceVars, call, req, reqEpoch, target, note,
                 written>>

Retarget ==
  /\ "retarget" \in Faults
  /\ target' = IF target = "sealed" THEN "another" ELSE "sealed"
  /\ UNCHANGED <<journalVars, fenceVars, call, req, reqEpoch, allow, note,
                 written>>

(* Someone else edits the note, possibly back to its sealed before content *)
(* (an undo, a version restore); nobody else writes the exact new content. *)
EditNote(content) ==
  /\ running = {}
  /\ \/ content = "other"  /\ "edit" \in Faults
     \/ content = "before" /\ "revert" \in Faults
  /\ note # content
  /\ note' = content
  /\ UNCHANGED <<journalVars, fenceVars, call, req, reqEpoch, allow, target,
                 written>>

-----------------------------------------------------------------------------
CallStep(h) ==
  \/ StatusFailed(h)
  \/ StatusRefuses(h)
  \/ RecordAttempt(h)
  \/ AttemptLimitReached(h)
  \/ PreflightFailed(h)
  \/ PreflightConflicts(h)
  \/ Dispatch(h)
  \/ CasCommits(h)
  \/ CasForbidden(h)
  \/ CasConflicts(h)
  \/ CasErrs(h)
  \/ ReconcileConflict(h)
  \/ ReconcileError(h)
  \/ Observe(h)
  \/ RecoverReconciles(h)
  \/ RecoverSettles(h)
  \/ RecoverStarts(h)
  \/ CloseReconciles(h)
  \/ CloseResolves(h)
  \/ CloseRefused(h)
  \/ CloseCommits(h)

Answer(h) ==
  \/ BridgeReads(h)
  \/ BridgeStatus(h)
  \/ RequestFails(h)

RequestStep(a) ==
  \/ AdmitRequest(a)
  \/ HashConflict(a)
  \/ PassFence(a)
  \/ FenceRefuses(a)
  \/ WriteLands(a)
  \/ WriteFails(a)
  \/ LoseRequest(a)

Environment ==
  \/ \E p \in Procs : Start(p)
  \/ \E p \in Procs : Heartbeat(p)
  \/ \E p \in Procs : Lapse(p)
  \/ \E p \in Procs : Stop(p)
  \/ \E p \in Procs : Crash(p)
  \/ UnloadBridge
  \/ \E e \in Epochs : LoadBridge(e)
  \/ \E landed \in SUBSET InFlight : QuitObsidian(landed)
  \/ ToggleWrites
  \/ Retarget
  \/ \E content \in Contents : EditNote(content)

Next ==
  \/ \E h \in Calls, p \in Procs : Apply(h, p)
  \/ \E h \in Calls, p \in Procs : Status(h, p)
  \/ \E h \in Calls, p \in Procs : Recover(h, p)
  \/ \E h \in Calls, p \in Procs : Close(h, p)
  \/ \E h \in Calls : CallStep(h)
  \/ \E h \in Calls : Answer(h)
  \/ \E a \in Attempts : RequestStep(a)
  \/ Environment

Spec == Init /\ [][Next]_vars

-----------------------------------------------------------------------------
(* What a governed write promises, whatever the calls and the faults.      *)

(* The receipts of the plan and the effects on the note follow the one-    *)
(* shot outcome contract: terminal receipts are final, a commit follows an *)
(* effect, an expired or reviewed plan has no later effect.                *)
Outcome == INSTANCE WriteOutcome WITH
  outcome <- IF row.status \in Pending THEN "pending" ELSE row.status,
  effects <- written

ImplementsOutcome == Outcome!OutcomeSpec

(* The closure's guarantee "no_further_effect" rests on two facts: every   *)
(* request that exists carries a token of the row, and every token of a    *)
(* closed row is dead.                                                     *)
ClosedPlanIsDead ==
  /\ \A a \in Attempts : req[a] # "none" => TokenOf(a) \in row.tokens
  /\ row.status = "reviewed_unverified" => \A t \in row.tokens : Dead(t)

(* Without a restoration of the sealed content, the plan writes the note   *)
(* at most once however often it is retried.                               *)
AtMostOneEffect == "revert" \notin Faults => Cardinality(written) <= 1

(* The refusal of a plan that was executed once is true: nothing was       *)
(* written and no request of it can still write.  (A vault that was        *)
(* switched after the dispatch is excluded.)                               *)
FirstRefusalIsTrue ==
  /\ row.status \in {"conflict", "rejected"}
  /\ Cardinality(row.used) = 1
  /\ "retarget" \notin Faults
  => /\ written = {}
     /\ \A a \in Attempts : req[a] \notin {"sent", "admitted", "running"}

(* A plan being applied becomes conflict or rejected only by a step of the *)
(* very attempt that owns it, never by a stale executor; an observer of an *)
(* uncertain plan may do it when its own get() sweeps a lapsed owner.      *)
OnlyOwnerRefuses ==
  [][/\ row.status = "applying"
     /\ row'.status \in {"conflict", "rejected"}
     => \E h \in Calls :
          /\ call[h].pc # "idle" /\ call'[h] = Idle
          /\ \/ call[h].att = row.owner
             \/ call[h].att = NoAttempt /\ ~lease[row.proc]]_vars

(* While its owner's lease is fresh, nobody else declares a plan           *)
(* interrupted or starts another attempt.                                  *)
LiveOwnerKeepsPlan ==
  [][/\ row.status = "applying"
     /\ lease[row.proc]
     /\ row'.owner # row.owner
     /\ row'.status # "committed"
     => \/ \E h \in Calls : call[h].att = row.owner /\ call'[h] = Idle
        \/ up'[row.proc] = "down"]_vars

-----------------------------------------------------------------------------
(* Liveness. *)

(* The code's part: the event loops run, every request is answered, a dead *)
(* instance's lease passes its expiry.  The clients' part: they keep       *)
(* asking for the status and, after a review, for the closure.  The        *)
(* clock's part: the sweep interval and the quiet period end, so that a    *)
(* request repeated for ever meets them ended.                             *)
AskStatus == \E h \in Calls, p \in Procs : Status(h, p) /\ row' = Swept(row)

AskClosure == \E h \in Calls, p \in Procs : Close(h, p) /\ row' = row

ResolvesQuiet(h) == CloseResolves(h) /\ call'[h].pc = "closeCommit"

Fairness ==
  /\ \A h \in Calls : WF_vars(CallStep(h)) /\ WF_vars(Answer(h))
  /\ \A a \in Attempts : WF_vars(RequestStep(a))
  /\ \A p \in Procs : WF_vars(Lapse(p) /\ up[p] = "down")
  /\ SF_vars(AskStatus)
  /\ SF_vars(AskClosure)
  /\ \A h \in Calls : SF_vars(ResolvesQuiet(h))

FairSpec == Spec /\ Fairness

SomeProcess == \E p \in Procs : up[p] = "up"

(* A plan whose executor died does not stay "applying": as long as some    *)
(* process lives, the interruption is noticed.                             *)
InterruptionIsNoticed ==
  []<>SomeProcess => (row.status = "applying" ~> row.status # "applying")

(* An uncertain plan does not stay uncertain once its owner keeps asking   *)
(* for its closure, whatever recoveries run beside it, unless another      *)
(* vault keeps coming back behind the address.                             *)
UncertaintyIsClosed ==
  []<>SomeProcess /\ <>[](target = "sealed") =>
    (row.status = "outcome_unknown" ~> row.status # "outcome_unknown")

-----------------------------------------------------------------------------
(* What the documentation says and the code does not keep. *)

(* ADR-Common-Operation-Runtime.md: "return outcome_unknown rather than    *)
(* invite blind retry when final state cannot be proven"; after an         *)
(* uncertain attempt "a later CAS conflict can become terminal only when   *)
(* the follow-up proof identifies a sealed state", else the receipt        *)
(* "remains outcome_unknown", because "an expired executor may have        *)
(* committed".                                                             *)
RecoveryDeniesOnlyWithProof ==
  [][\A h \in Calls :
       /\ row.status = "applying"
       /\ row.owner = call[h].att
       /\ call[h].recovered
       /\ written # {}
       => /\ row'.status # "rejected"
          /\ call[h].answer = "other" => row'.status # "conflict"]_vars

=============================================================================

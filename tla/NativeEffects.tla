---------------------------- MODULE NativeEffects ----------------------------
(***************************************************************************)
(* One governed deletion or native move, end to end: the apply and status  *)
(* calls that several MCP processes run on the same sealed plan, the       *)
(* journal row they race for, the single request, the Bridge service that  *)
(* handles it and keeps its receipt in memory, the effect fence and the    *)
(* note.                                                                   *)
(*                                                                         *)
(* Unlike a replacement, such an effect is dispatched once and never       *)
(* recovered: after a lost answer only the receipt of the Bridge settles   *)
(* the plan.  The two kinds have services and adapters of their own which  *)
(* follow the same protocol, one around trashFile(), one around            *)
(* renameFile(); the actions name the few differences.                     *)
(***************************************************************************)
EXTENDS FenceContract, PlanJournal

CONSTANTS
  Calls,   \* request handlers of the MCP processes, reused once they return
  Kinds,   \* what the plan may be: a trash preference it was sealed under, or
           \* "move"
  Faults   \* the environment events an instance of the model lets happen

FaultKinds == {"crash", "close", "lapse", "lose", "timeout", "effectfail",
               "unload", "quit", "rotate", "settings", "retarget", "edit",
               "busy", "evict"}

ASSUME EffectAssumption ==
  /\ Kinds \subseteq {"local", "system", "move"}
  /\ Faults \subseteq FaultKinds

VARIABLES
  call,     \* per call: where it is and what it holds
  req,      \* the request of the plan
  entry,    \* the receipt of the loaded service, or its absence
  kind,     \* what the plan is
  note,     \* the note and what else the seal covers
  done      \* the attempts that took effect (history)

bridgeVars == <<req, entry, kind, note, done>>
vars == <<row, up, lease, live, issued, entered, running, barred, call, req,
          entry, kind, note, done>>

-----------------------------------------------------------------------------
Contents == {"sealed", "other", "absent"}

Outcomes == {"committed", "conflict", "rejected", "outcome_unknown"}

(* An observation of the Bridge: its outcome and, of a deletion, the trash  *)
(* preference it names, which is "local" until the plan is revalidated.    *)
Observation(outcome, option) == [ outcome |-> outcome, option |-> option ]

Observations == [ outcome : Outcomes, option : {"local", "system", "move"} ]

InFlight  == Observation("outcome_unknown", "local")
NoReceipt == Observation("none", "local")

(* What an await holds before, or instead of, an observation. *)
Reply(word) == Observation(word, "local")

(* att is the attempt an executor owns, seen and owner what an observer    *)
(* loaded, answer the result of the await under way.                       *)
CallStates ==
  [ pc     : {"idle", "qualify", "epoch", "waiting", "query"},
    proc   : Procs \cup {NoProc},
    att    : Attempts \cup {NoAttempt},
    seen   : Statuses,
    owner  : Attempts \cup {NoAttempt},
    answer : Observations \cup {Reply(w) : w \in {"pending", "failed", "ok"}},
    epoch  : Epochs \cup {NoEpoch} ]

Idle == [ pc |-> "idle", proc |-> NoProc, att |-> NoAttempt,
          seen |-> "planned", owner |-> NoAttempt,
          answer |-> Reply("pending"), epoch |-> NoEpoch ]

(* Where the handler of the request stands; "reading" and "read" are       *)
(* before and after the second observation of the note, "landed" is after  *)
(* the effect and before the handler knows.                                *)
Acting == {"sent", "validating", "listing", "reading", "read", "running",
           "landed"}

(* served says that the handling service is the one that is loaded.        *)
Requests ==
  [ phase  : Acting \cup {"none", "answered", "gone"},
    att    : Attempts \cup {NoAttempt},
    epoch  : Epochs \cup {NoEpoch},
    served : BOOLEAN,
    answer : Observations ]

NoRequest == [ phase |-> "none", att |-> NoAttempt, epoch |-> NoEpoch,
               served |-> FALSE, answer |-> InFlight ]

Token == <<req.epoch, req.att>>

TypeOK ==
  /\ JournalTypeOK
  /\ FenceTypeOK
  /\ call \in [Calls -> CallStates]
  /\ req \in Requests
  /\ entry \in Observations \cup {NoReceipt}
  /\ kind \in {"local", "system", "move"}
  /\ note \in Contents
  /\ done \subseteq Attempts

Init ==
  /\ JournalInit
  /\ FenceInit
  /\ live # NoEpoch
  /\ call = [h \in Calls |-> Idle]
  /\ req = NoRequest
  /\ entry = NoReceipt
  /\ kind \in Kinds
  /\ note = "sealed"
  /\ done = {}

-----------------------------------------------------------------------------
(* Calls of the adapter. *)

Free(h, p) == up[p] = "up" /\ call[h].pc = "idle"

Answered(h, phase) == call[h].pc = phase /\ call[h].answer.outcome # "pending"

Returns(h) == call' = [call EXCEPT ![h] = Idle]

JournalOnly == UNCHANGED <<up, lease, fenceVars, bridgeVars>>

(* status(): a plan that may be unsettled is asked of the Bridge.  (For a  *)
(* committed one the answer only adds the postflight to the receipt.)      *)
StatusOf(h, p, r) ==
  /\ row' = r
  /\ call' = [call EXCEPT ![h] =
       IF r.status \in {"applying", "outcome_unknown"}
       THEN [Idle EXCEPT !.pc = "query", !.proc = p, !.seen = r.status,
                         !.owner = r.owner]
       ELSE Idle]

Status(h, p) ==
  /\ Free(h, p)
  /\ \E cur \in Loads : StatusOf(h, p, cur)
  /\ JournalOnly

Apply(h, p) ==
  /\ Free(h, p)
  /\ \E cur \in Loads :
       \/ /\ cur.status = "planned"
          /\ row' = cur
          /\ call' = [call EXCEPT ![h] =
               [Idle EXCEPT !.pc = "qualify", !.proc = p]]
       \/ /\ cur.status # "planned"
          /\ StatusOf(h, p, cur)
  /\ JournalOnly

(* The Bridge is not there or does not qualify: nothing was recorded.      *)
Unqualified(h) ==
  /\ Answered(h, "qualify")
  /\ call[h].answer.outcome = "failed"
  /\ Returns(h)
  /\ UNCHANGED row
  /\ JournalOnly

(* transition() from planned to applying; who loses the race asks for the  *)
(* status.                                                                 *)
Start(h) ==
  /\ Answered(h, "qualify")
  /\ call[h].answer.outcome = "ok"
  /\ \E cur \in Loads :
       \/ /\ MayTransition(cur, {"planned"}, NoAttempt)
          /\ \E a \in FreshAttempts(cur) :
               /\ row' = Started(cur, call[h].proc, a)
               /\ call' = [call EXCEPT ![h] =
                    [Idle EXCEPT !.pc = "epoch", !.proc = call[h].proc,
                                 !.att = a]]
       \/ /\ ~MayTransition(cur, {"planned"}, NoAttempt)
          /\ StatusOf(h, call[h].proc, cur)
  /\ JournalOnly

(* A faulty adapter that records and sends whatever the status said.       *)
RecordUnqualified(h) ==
  /\ Answered(h, "epoch")
  /\ MayRecord(row, call[h].att)
  /\ row' = Recorded(row, call[h].epoch, call[h].att)
  /\ req' = [NoRequest EXCEPT !.phase = "sent", !.att = call[h].att,
                              !.epoch = call[h].epoch]
  /\ call' = [call EXCEPT ![h].pc = "waiting", ![h].answer = Reply("pending")]
  /\ UNCHANGED <<up, lease, fenceVars, entry, kind, note, done>>

(* recordEffectAttempt() and, in the same stretch, the request.            *)
RecordAndSend(h) ==
  /\ Answered(h, "epoch")
  /\ call[h].answer.outcome = "ok"
  /\ \E cur \in Loads :
       \/ /\ MayRecord(cur, call[h].att)
          /\ ~AtAttemptLimit(cur)
          /\ row' = Recorded(cur, call[h].epoch, call[h].att)
          /\ req' = [NoRequest EXCEPT !.phase = "sent", !.att = call[h].att,
                                      !.epoch = call[h].epoch]
          /\ call' = [call EXCEPT ![h].pc = "waiting",
                                  ![h].answer = Reply("pending")]
       \/ /\ ~MayRecord(cur, call[h].att)
          /\ StatusOf(h, call[h].proc, cur)
          /\ UNCHANGED req
  /\ UNCHANGED <<up, lease, fenceVars, entry, kind, note, done>>

(* observation(): an answer that names another trash preference than the   *)
(* plan's is not believed; that of a move names none.                      *)
Identified(obs) == kind = "move" \/ obs.option = kind

(* The catch of apply(): whatever threw after the plan was applying.       *)
ApplyFails(h) ==
  /\ \/ Answered(h, "epoch") /\ call[h].answer.outcome = "failed"
     \/ /\ Answered(h, "waiting")
        /\ \/ call[h].answer.outcome = "failed"
           \/ ~Identified(call[h].answer)
  /\ \E cur \in Loads :
       row' = Transitioned(cur, {"applying"}, "outcome_unknown", call[h].att)
  /\ Returns(h)
  /\ JournalOnly

ApplySettles(h) ==
  /\ Answered(h, "waiting")
  /\ call[h].answer.outcome # "failed"
  /\ Identified(call[h].answer)
  /\ \E cur \in Loads :
       row' = Transitioned(cur, {"applying"}, call[h].answer.outcome,
                           call[h].att)
  /\ Returns(h)
  /\ JournalOnly

StatusFails(h) ==
  /\ Answered(h, "query")
  /\ call[h].answer.outcome = "failed" \/ ~Identified(call[h].answer)
  /\ row' \in Loads
  /\ Returns(h)
  /\ JournalOnly

(* A faulty status() that records every outcome the Bridge answers, also   *)
(* that the request is still under way.                                    *)
ReconciledAnyway(cur, obs, owner) ==
  Transitioned(cur, {"applying", "outcome_unknown"}, obs.outcome, owner)

(* The receipt settles the plan: a commit whoever owns it, a conflict with *)
(* the owner that this call loaded before it asked.                        *)
Reconciled(cur, obs, owner) ==
  IF obs.outcome = "committed" THEN CommittedOnProof(cur)
  ELSE IF obs.outcome = "conflict"
  THEN Transitioned(cur, {"applying", "outcome_unknown"}, "conflict", owner)
  ELSE cur

StatusReconciles(h) ==
  /\ Answered(h, "query")
  /\ call[h].answer.outcome # "failed"
  /\ Identified(call[h].answer)
  /\ \E cur \in Loads :
       row' = Reconciled(cur, call[h].answer, call[h].owner)
  /\ Returns(h)
  /\ JournalOnly

-----------------------------------------------------------------------------
(* What the awaits of a call return. *)

CallOnly == UNCHANGED <<journalVars, fenceVars, bridgeVars>>

BridgeStatus(h) ==
  /\ call[h].pc \in {"qualify", "epoch"}
  /\ call[h].answer.outcome = "pending"
  /\ live # NoEpoch
  /\ call' = [call EXCEPT ![h].answer = Reply("ok"), ![h].epoch = live]
  /\ CallOnly

(* A faulty service that takes the absence of the note for its deletion.   *)
AbsenceAnswers(h) ==
  /\ call[h].pc = "query"
  /\ call[h].answer.outcome = "pending"
  /\ live # NoEpoch
  /\ entry = NoReceipt
  /\ call' = [call EXCEPT ![h].answer =
       IF note = "absent" THEN Observation("committed", kind) ELSE InFlight]
  /\ CallOnly

(* status() of the service; without a receipt nothing is known.            *)
ReceiptAnswers(h) ==
  /\ call[h].pc = "query"
  /\ call[h].answer.outcome = "pending"
  /\ live # NoEpoch
  /\ call' = [call EXCEPT ![h].answer =
                IF entry = NoReceipt THEN InFlight ELSE entry]
  /\ CallOnly

EffectAnswers(h) ==
  /\ call[h].pc = "waiting"
  /\ call[h].answer.outcome = "pending"
  /\ req.phase = "answered"
  /\ call' = [call EXCEPT ![h].answer = req.answer]
  /\ CallOnly

AwaitFails(h) ==
  /\ call[h].pc # "idle"
  /\ call[h].answer.outcome = "pending"
  /\ \/ "timeout" \in Faults
     \/ call[h].pc # "waiting" /\ live = NoEpoch
     \/ call[h].pc = "waiting" /\ req.phase = "gone"
  /\ call' = [call EXCEPT ![h].answer = Reply("failed")]
  /\ CallOnly

-----------------------------------------------------------------------------
(* apply() of the Bridge service. *)

WorldSame == UNCHANGED <<journalVars, call, kind>>

RequestMoves(from, to) ==
  /\ req.phase = from
  /\ req' = [req EXCEPT !.phase = to]

(* The handler ends; its service keeps the outcome as the receipt.         *)
Settles(obs) ==
  /\ req' = [req EXCEPT !.phase = "answered", !.answer = obs]
  /\ entry' = IF req.served THEN obs ELSE entry

Accept ==
  /\ req.phase = "sent"
  /\ live # NoEpoch
  /\ req' = [req EXCEPT !.phase = "validating", !.served = TRUE]
  /\ entry' = InFlight
  /\ WorldSame
  /\ UNCHANGED <<fenceVars, note, done>>

(* Another request is executing or the receipt table is full; or another  *)
(* vault answers, whose binding differs and whose receipts are not ours.   *)
TurnAway ==
  /\ req.phase = "sent"
  /\ live # NoEpoch
  /\ \/ /\ "busy" \in Faults
        /\ req' = [req EXCEPT !.phase = "answered",
                              !.answer = Observation("rejected", "local")]
     \/ /\ "retarget" \in Faults
        /\ req' = [req EXCEPT !.phase = "answered",
                              !.answer = Observation("conflict", "local")]
  /\ WorldSame
  /\ UNCHANGED <<fenceVars, entry, note, done>>

RequestLost ==
  /\ req.phase = "sent"
  /\ "lose" \in Faults \/ live = NoEpoch
  /\ RequestMoves("sent", "gone")
  /\ WorldSame
  /\ UNCHANGED <<fenceVars, entry, note, done>>

(* The grant of such plans and the vault's preference belong to the owner,  *)
(* who may change them at any moment, so each look may find them changed.  *)
SettingsChanged == "settings" \in Faults

(* The whole seal is derived again; for a deletion the trash is listed     *)
(* next, a move may fail to reserve the room for its plan.                 *)
Revalidate ==
  /\ req.phase = "validating"
  /\ \/ /\ note = "sealed"
        /\ RequestMoves("validating",
                        IF kind = "move" THEN "reading" ELSE "listing")
        /\ UNCHANGED entry
     \/ /\ \/ SettingsChanged \/ note # "sealed"
           \/ kind = "move" /\ "busy" \in Faults
        /\ Settles(Observation("conflict", "local"))
  /\ WorldSame
  /\ UNCHANGED <<fenceVars, note, done>>

(* The trash was listed, unless that failed; the preference and the grant  *)
(* are read again and trash() begins.                                      *)
BeginEffect ==
  /\ req.phase = "listing"
  /\ \/ /\ RequestMoves("listing", "reading")
        /\ UNCHANGED entry
     \/ /\ SettingsChanged \/ "effectfail" \in Faults
        /\ Settles(Observation("conflict", kind))
  /\ WorldSame
  /\ UNCHANGED <<fenceVars, note, done>>

(* The last comparison of the note with the seal. *)
ReadAgain ==
  /\ req.phase = "reading"
  /\ IF note = "sealed"
     THEN RequestMoves("reading", "read") /\ UNCHANGED entry
     ELSE Settles(Observation("conflict", kind))
  /\ WorldSame
  /\ UNCHANGED <<fenceVars, note, done>>

(* The effect point: the fence and trashFile() or renameFile() in one tick. *)
PassFence ==
  /\ req.phase = "read"
  /\ \/ Enter(Token)
     \/ "rotate" \in Faults /\ \E e \in Epochs : EnterAndRotate(Token, e)
  /\ RequestMoves("read", "running")
  /\ WorldSame
  /\ UNCHANGED <<entry, note, done>>

Refuse ==
  /\ req.phase = "read"
  /\ SettingsChanged \/ ~Admits(Token)
  /\ Settles(Observation("conflict", kind))
  /\ WorldSame
  /\ UNCHANGED <<fenceVars, note, done>>

(* The file is gone, or its path fails the physical checks: no conflict.   *)
PathFails ==
  /\ req.phase = "read"
  /\ "effectfail" \in Faults \/ note = "absent"
  /\ Settles(Observation("outcome_unknown", kind))
  /\ WorldSame
  /\ UNCHANGED <<fenceVars, note, done>>

EffectLands ==
  /\ note # "absent"
  /\ RequestMoves("running", "landed")
  /\ note' = "absent"
  /\ done' = done \cup {req.att}
  /\ WorldSame
  /\ UNCHANGED <<fenceVars, entry>>

(* A faulty service that takes an error of the effect for a refusal. *)
EffectErrorIsConflict ==
  /\ req.phase \in {"running", "landed"}
  /\ \/ "effectfail" \in Faults
     \/ req.phase = "running" /\ note = "absent"
     \/ req.phase = "landed" /\ note # "absent"
  /\ Settle(Token)
  /\ Settles(Observation("conflict", kind))
  /\ WorldSame
  /\ UNCHANGED <<note, done>>

(* The native call throws, before or after its effect, or the path is      *)
(* taken again when the handler looks.                                     *)
EffectUncertain ==
  /\ req.phase \in {"running", "landed"}
  /\ \/ "effectfail" \in Faults
     \/ req.phase = "running" /\ note = "absent"
     \/ req.phase = "landed" /\ note # "absent"
  /\ Settle(Token)
  /\ Settles(Observation("outcome_unknown", kind))
  /\ WorldSame
  /\ UNCHANGED <<note, done>>

EffectReturns ==
  /\ req.phase = "landed"
  /\ note = "absent"
  /\ Settle(Token)
  /\ Settles(Observation("committed", kind))
  /\ WorldSame
  /\ UNCHANGED <<note, done>>

-----------------------------------------------------------------------------
(* Processes, plugin, receipts and other writers. *)

Launch(p) == StartRuntime(p) /\ UNCHANGED <<fenceVars, call, bridgeVars>>

Heartbeat(p) == RenewLease(p) /\ UNCHANGED <<fenceVars, call, bridgeVars>>

Lapse(p) ==
  /\ up[p] = "down" \/ "lapse" \in Faults
  /\ LeaseLapses(p)
  /\ UNCHANGED <<fenceVars, call, bridgeVars>>

CallsWithout(p) ==
  call' = [h \in Calls |-> IF call[h].proc = p THEN Idle ELSE call[h]]

Stop(p) ==
  /\ "close" \in Faults
  /\ CloseRuntime(p)
  /\ CallsWithout(p)
  /\ UNCHANGED <<fenceVars, bridgeVars>>

Crash(p) ==
  /\ "crash" \in Faults
  /\ CrashRuntime(p)
  /\ CallsWithout(p)
  /\ UNCHANGED <<fenceVars, bridgeVars>>

(* The receipts go with the plugin instance; its handlers run on. *)
UnloadBridge ==
  /\ "unload" \in Faults
  /\ Retire
  /\ entry' = NoReceipt
  /\ req' = [req EXCEPT !.served = FALSE]
  /\ UNCHANGED <<journalVars, call, kind, note, done>>

LoadBridge(e) ==
  /\ Issue(e)
  /\ UNCHANGED <<journalVars, call, bridgeVars>>

(* Obsidian quits: a handler dies where it is, its effect taken or not. *)
QuitObsidian(landed) ==
  /\ "quit" \in Faults
  /\ landed => req.phase = "running" /\ note # "absent"
  /\ QuitRealm
  /\ entry' = NoReceipt
  /\ req' = [req EXCEPT
       !.phase = IF @ \in Acting \ {"sent"} THEN "gone" ELSE @,
       !.served = FALSE]
  /\ note' = IF landed THEN "absent" ELSE note
  /\ done' = IF landed THEN done \cup {req.att} ELSE done
  /\ UNCHANGED <<journalVars, call, kind>>

(* reserve() drops a settled receipt that is old, or that the table needs. *)
Evict ==
  /\ "evict" \in Faults
  /\ entry.outcome \in {"committed", "conflict"}
  /\ entry' = NoReceipt
  /\ UNCHANGED <<journalVars, fenceVars, call, req, kind, note, done>>

(* Someone else edits, deletes, restores or recreates the note. *)
EditNote(content) ==
  /\ "edit" \in Faults
  /\ note # content
  /\ note' = content
  /\ UNCHANGED <<journalVars, fenceVars, call, req, entry, kind, done>>

-----------------------------------------------------------------------------
CallStep(h) ==
  \/ Unqualified(h)
  \/ Start(h)
  \/ RecordAndSend(h)
  \/ ApplyFails(h)
  \/ ApplySettles(h)
  \/ StatusFails(h)
  \/ StatusReconciles(h)

Answer(h) ==
  \/ BridgeStatus(h)
  \/ ReceiptAnswers(h)
  \/ EffectAnswers(h)
  \/ AwaitFails(h)

RequestStep ==
  \/ Accept
  \/ TurnAway
  \/ RequestLost
  \/ Revalidate
  \/ BeginEffect
  \/ ReadAgain
  \/ PassFence
  \/ Refuse
  \/ PathFails
  \/ EffectLands
  \/ EffectUncertain
  \/ EffectReturns

Environment ==
  \/ \E p \in Procs : Launch(p)
  \/ \E p \in Procs : Heartbeat(p)
  \/ \E p \in Procs : Lapse(p)
  \/ \E p \in Procs : Stop(p)
  \/ \E p \in Procs : Crash(p)
  \/ UnloadBridge
  \/ \E e \in Epochs : LoadBridge(e)
  \/ \E landed \in BOOLEAN : QuitObsidian(landed)
  \/ Evict
  \/ \E content \in Contents : EditNote(content)

Next ==
  \/ \E h \in Calls, p \in Procs : Apply(h, p)
  \/ \E h \in Calls, p \in Procs : Status(h, p)
  \/ \E h \in Calls : CallStep(h)
  \/ \E h \in Calls : Answer(h)
  \/ RequestStep
  \/ Environment

Spec == Init /\ [][Next]_vars

-----------------------------------------------------------------------------
(* Deletions and moves keep the one-shot outcome contract of governed      *)
(* writes: receipts are final, a committed plan took effect, an expired    *)
(* one never did.                                                          *)
Outcome == INSTANCE WriteOutcome WITH
  outcome <- IF row.status \in Pending THEN "pending" ELSE row.status,
  effects <- done

ImplementsOutcome == Outcome!OutcomeSpec

(* A refusal is true and stays true, whoever recorded it and from whatever *)
(* answer or receipt: the plan had no effect and no handler of its request *)
(* is left that could have one.                                            *)
RefusedPlanIsDead ==
  row.status \in {"conflict", "rejected", "expired"} =>
    done = {} /\ req.phase \notin Acting

(* While its owner's lease is fresh, nobody of another process or call     *)
(* declares a plan interrupted: what an observer may record meanwhile is   *)
(* the outcome that the Bridge's receipt proves.                           *)
LiveOwnerKeepsPlan ==
  [][/\ row.status = "applying"
     /\ lease[row.proc]
     /\ row'.owner # row.owner
     => \/ up'[row.proc] = "down"
        \/ \E h \in Calls :
             /\ call[h] # Idle /\ call'[h] = Idle
             /\ \/ call[h].att = row.owner
                \/ call[h].answer.outcome = row'.status
                     /\ row'.status \in {"committed", "conflict"}]_vars

-----------------------------------------------------------------------------
(* What the documentation says and the code does not keep. *)

(* governed-note-delete.md: "any difference (content, size, incoming       *)
(* links, preference, binding, grant) is a `conflict` before any effect    *)
(* and requires a new plan."  The answer of the Bridge says conflict; what *)
(* its own executor records of it is this.                                 *)
AnsweredConflictIsRecorded ==
  [][\A h \in Calls :
       /\ call[h].pc = "waiting" /\ call'[h] = Idle
       /\ call[h].answer.outcome = "conflict"
       /\ row.status = "applying" /\ row.owner = call[h].att
       => row'.status = "conflict"]_vars

=============================================================================

------------------------- MODULE NativeEffectsProofs -------------------------
(***************************************************************************)
(* Proofs about NativeEffects, for any number of calls, processes,         *)
(* attempts and epochs, for any kind of plan and any choice of faults.     *)
(***************************************************************************)
EXTENDS NativeEffects, ContractProofs, TLAPS

-----------------------------------------------------------------------------
(* The invariant. *)

(* Who is about to send has an epoch, a request has a token, and the       *)
(* answer of a Bridge operation is never that of a Bridge status.          *)
ShapeInv ==
  /\ \A h \in Calls :
       /\ call[h].pc = "epoch" /\ call[h].answer.outcome = "ok"
          => call[h].epoch \in Epochs
       /\ call[h].pc \in {"waiting", "query"} => call[h].answer.outcome # "ok"
  /\ req.phase # "none" => req.att \in Attempts /\ req.epoch \in Epochs

TypeInv == TypeOK /\ ShapeInv

(* A plan has one executor, which sends the only request; a plan that was  *)
(* not started, or expired so, has neither.                                *)
ExecutorInv ==
  /\ row.status \in {"planned", "expired"} =>
       /\ req.phase = "none"
       /\ \A h \in Calls : call[h].pc \in {"idle", "qualify"}
  /\ row.status = "applying" => row.proc \in Procs
  /\ \A h \in Calls :
       /\ call[h].att # NoAttempt <=> call[h].pc \in {"epoch", "waiting"}
       /\ call[h].pc = "epoch" => req.phase = "none"
       /\ call[h].pc # "idle" => call[h].proc \in Procs
  /\ \A h, k \in Calls :
       call[h].att # NoAttempt /\ call[k].att # NoAttempt => h = k

(* Nothing is done before the native call, something is once it landed.    *)
EffectInv ==
  /\ req.phase \in {"none"} \cup (Acting \ {"landed"}) => done = {}
  /\ req.phase = "landed" => done # {}

(* A refusal is true for good, a commit had its effect. *)
Truthful(outcome) ==
  /\ outcome \in {"conflict", "rejected"} => done = {} /\ req.phase = "answered"
  /\ outcome = "committed" => done # {}

(* Whoever knows an outcome knows the truth: the row, the receipt, the     *)
(* answer of the request and the answers that calls hold.                  *)
EvidenceInv ==
  /\ row.status # "reviewed_unverified"
  /\ Truthful(row.status)
  /\ Truthful(entry.outcome)
  /\ req.phase = "answered" => Truthful(req.answer.outcome)
  /\ \A h \in Calls : Truthful(call[h].answer.outcome)

Inv == TypeInv /\ ExecutorInv /\ EffectInv /\ EvidenceInv

-----------------------------------------------------------------------------
(* Calls. *)

Replies == {Reply(w) : w \in {"pending", "failed", "ok"}}

LEMMA RepliesAreReplies ==
  /\ Reply("pending") \in Replies /\ Reply("failed") \in Replies
  /\ Reply("ok") \in Replies
  /\ \A w : Reply(w).outcome = w
  BY DEF Replies, Reply, Observation

LEMMA ObservationTypes ==
  \A o \in Outcomes, p \in {"local", "system", "move"} :
    /\ Observation(o, p) \in Observations
    /\ Observation(o, p).outcome = o
  BY DEF Observation, Observations

LEMMA IdleIsCallState == Idle \in CallStates
  BY RepliesAreReplies DEF Idle, CallStates, Statuses, Pending, Replies

LEMMA CallStatesAre ==
  ASSUME NEW c \in CallStates
  PROVE  /\ c.pc \in {"idle", "qualify", "epoch", "waiting", "query"}
         /\ c.proc \in Procs \cup {NoProc}
         /\ c.att \in Attempts \cup {NoAttempt}
         /\ c.owner \in Attempts \cup {NoAttempt}
         /\ c.answer \in Observations \cup Replies
  BY DEF CallStates, Replies

(* A call after an await answered. *)
LEMMA AnsweredCalls ==
  ASSUME call \in [Calls -> CallStates], NEW h \in Calls,
         NEW a \in Observations \cup Replies,
         call' = [call EXCEPT ![h].answer = a]
  PROVE  /\ call' \in [Calls -> CallStates]
         /\ \A k \in Calls \ {h} : call'[k] = call[k]
         /\ call'[h].pc = call[h].pc /\ call'[h].att = call[h].att
         /\ call'[h].proc = call[h].proc /\ call'[h].answer = a
<1>1. call[h] \in CallStates /\ call'[h] = [call[h] EXCEPT !.answer = a]
  OBVIOUS
<1>2. /\ call'[h] \in CallStates
      /\ call'[h].pc = call[h].pc /\ call'[h].att = call[h].att
      /\ call'[h].proc = call[h].proc /\ call'[h].answer = a
  BY <1>1 DEF CallStates, Replies
<1>. QED
  BY <1>2

-----------------------------------------------------------------------------
(* What the steps do. *)

(* The call is no executor and awaits something new, or nothing. *)
Leaves(h) ==
  /\ call'[h].pc \in {"idle", "qualify", "query"}
  /\ call'[h].pc = "query" => row'.status \in {"applying", "outcome_unknown"}
  /\ call'[h].att = NoAttempt
  /\ UNCHANGED req

(* The call becomes the executor of the plan. *)
Begins(h) ==
  /\ row.status = "planned"
  /\ row'.status = "applying"
  /\ row'.proc = call[h].proc
  /\ call[h].pc = "qualify"
  /\ call'[h].pc = "epoch"
  /\ call'[h].att \in Attempts
  /\ UNCHANGED req

(* The executor sends its request. *)
Sends(h) ==
  /\ call[h].pc = "epoch"
  /\ call'[h].pc = "waiting"
  /\ call'[h].att = call[h].att
  /\ row'.status = "applying"
  /\ req' \in Requests
  /\ req'.phase = "sent" /\ req'.att \in Attempts /\ req'.epoch \in Epochs

(* A call decides nothing but what its answer says. *)
CallShape(h) ==
  /\ Evolves(row, row')
  /\ row'.status \in {row.status, "applying", "outcome_unknown", "expired",
                      call[h].answer.outcome}
  /\ row'.status = "applying" /\ ~Begins(h) =>
       row.status = "applying" /\ row'.proc = row.proc
  /\ call' \in [Calls -> CallStates]
  /\ \A k \in Calls \ {h} : call'[k] = call[k]
  /\ call'[h].answer = Reply("pending")
  /\ call'[h].pc # "idle" => call'[h].proc \in Procs
  /\ Leaves(h) \/ Begins(h) \/ Sends(h)
  /\ UNCHANGED <<up, lease, fenceVars, entry, kind, note, done>>

(* An answer is that of a Bridge status or a failure, or what the receipt  *)
(* or the handler says.                                                    *)
AnswerShape(h) ==
  /\ CallOnly
  /\ call' \in [Calls -> CallStates]
  /\ \A k \in Calls \ {h} : call'[k] = call[k]
  /\ call'[h].pc = call[h].pc /\ call'[h].att = call[h].att
  /\ call'[h].proc = call[h].proc
  /\ \/ /\ call'[h].answer.outcome = "ok"
        /\ call[h].pc \in {"qualify", "epoch"}
        /\ call'[h].epoch \in Epochs
     \/ call'[h].answer.outcome \in {"failed", "outcome_unknown"}
     \/ call'[h].answer.outcome = entry.outcome /\ entry.outcome # "ok"
     \/ /\ call'[h].answer.outcome = req.answer.outcome
        /\ req.answer.outcome # "ok"
        /\ req.phase = "answered"

(* Processes come and go: at most their calls end and their plan is swept. *)
ProcessShape ==
  /\ Evolves(row, row')
  /\ row'.status \in {row.status, "outcome_unknown", "expired"}
  /\ row'.status = "applying" => row'.proc = row.proc
  /\ JournalTypeOK'
  /\ call' \in [Calls -> CallStates]
  /\ \A h \in Calls : call'[h] \in {call[h], Idle}
  /\ UNCHANGED <<fenceVars, bridgeVars>>

-----------------------------------------------------------------------------
(* The steps of a call. *)

LEMMA Loaded ==
  ASSUME TypeOK, NEW cur \in Loads
  PROVE  /\ cur \in Rows /\ Evolves(row, cur)
         /\ cur.status \in {row.status, "outcome_unknown", "expired"}
         /\ cur.status \in {"planned", "applying"} => cur = row
<1>1. row \in Rows
  BY DEF TypeOK, JournalTypeOK
<1>2. cur \in Rows /\ Evolves(row, cur)
  BY <1>1, LoadsAreRows, LoadsEvolve DEF Loads
<1>3. cur = row \/ cur.status \in {"outcome_unknown", "expired"}
  BY <1>1 DEF Loads, LoadsOf, Swept, Expired, Released, Rows
<1>. QED
  BY <1>2, <1>3

(* What a transition makes of the row that was loaded.                     *)
LEMMA TransitionedRow ==
  ASSUME TypeOK, NEW cur \in Loads, NEW a,
         NEW E \in SUBSET {"applying", "outcome_unknown"}, NEW next \in Outcomes
  PROVE  LET r == Transitioned(cur, E, next, a)
         IN  /\ Evolves(row, r)
             /\ r.status \in {row.status, "outcome_unknown", "expired", next}
             /\ r.status = "applying" => r = row
<1>. DEFINE r == Transitioned(cur, E, next, a)
<1>1. /\ cur \in Rows /\ Evolves(row, cur)
      /\ cur.status \in {row.status, "outcome_unknown", "expired"}
      /\ cur.status = "applying" => cur = row
  BY Loaded
<1>2. Evolves(cur, r)
  BY <1>1, TransitionsEvolve DEF Outcomes
<1>3. r = cur \/ r.status = next
  BY <1>1 DEF Transitioned, Released, Rows
<1>4. Evolves(row, r)
  BY <1>1, <1>2, EvolvesIsTransitive
<1>. QED
  BY <1>1, <1>3, <1>4 DEF Outcomes

LEMMA CommittedRow ==
  ASSUME TypeOK, NEW cur \in Loads
  PROVE  LET r == CommittedOnProof(cur)
         IN  /\ Evolves(row, r)
             /\ r.status \in {row.status, "outcome_unknown", "expired", "committed"}
             /\ r.status = "applying" => r = row
<1>. DEFINE r == CommittedOnProof(cur)
<1>1. /\ cur \in Rows /\ Evolves(row, cur)
      /\ cur.status \in {row.status, "outcome_unknown", "expired"}
      /\ cur.status = "applying" => cur = row
  BY Loaded
<1>2. Evolves(cur, r)
  BY <1>1, CommitsEvolve
<1>3. r = cur \/ r.status = "committed"
  BY <1>1 DEF CommittedOnProof, Released, Rows
<1>4. Evolves(row, r)
  BY <1>1, <1>2, EvolvesIsTransitive
<1>. QED
  BY <1>1, <1>3, <1>4

(* A call that returns. *)
LEMMA ReturnsShape ==
  ASSUME TypeOK, NEW h \in Calls, Returns(h), JournalOnly, Evolves(row, row'),
         row'.status \in {row.status, "outcome_unknown", "expired",
                          call[h].answer.outcome},
         row'.status = "applying" => row' = row
  PROVE  CallShape(h)
<1>1. call \in [Calls -> CallStates]
  BY DEF TypeOK
<1>2. /\ call' \in [Calls -> CallStates] /\ call'[h] = Idle
      /\ \A k \in Calls \ {h} : call'[k] = call[k]
  BY <1>1, IdleIsCallState DEF Returns
<1>3. Idle.pc = "idle" /\ Idle.att = NoAttempt /\ Idle.answer = Reply("pending")
  BY DEF Idle
<1>4. Leaves(h)
  BY <1>2, <1>3 DEF Leaves, JournalOnly, bridgeVars
<1>. QED
  BY <1>2, <1>3, <1>4 DEF CallShape, JournalOnly, bridgeVars

(* A call that asks for the status, or returns what the row says. *)
LEMMA StatusOfShape ==
  ASSUME TypeOK, NEW h \in Calls, NEW p \in Procs, NEW cur \in Loads,
         StatusOf(h, p, cur), UNCHANGED <<up, lease, fenceVars, bridgeVars>>
  PROVE  CallShape(h)
<1>. DEFINE c == [Idle EXCEPT !.pc = "query", !.proc = p, !.seen = cur.status,
                              !.owner = cur.owner]
<1>1. call \in [Calls -> CallStates]
  BY DEF TypeOK
<1>2. /\ cur \in Rows /\ Evolves(row, cur)
      /\ cur.status \in {row.status, "outcome_unknown", "expired"}
      /\ cur.status = "applying" => cur = row
  BY Loaded
<1>3. cur.status \in Statuses /\ cur.owner \in Attempts \cup {NoAttempt}
  BY <1>2 DEF Rows
<1>4. c \in CallStates /\ c.pc = "query" /\ c.att = NoAttempt
      /\ c.answer = Reply("pending") /\ c.proc = p
  BY <1>3, IdleIsCallState DEF Idle, CallStates
<1>5. Idle.pc = "idle" /\ Idle.att = NoAttempt /\ Idle.answer = Reply("pending")
  BY DEF Idle
<1>6. /\ row' = cur
      /\ \/ cur.status \in {"applying", "outcome_unknown"} /\ call' = [call EXCEPT ![h] = c]
         \/ call' = [call EXCEPT ![h] = Idle]
  BY DEF StatusOf
<1>7. /\ call' \in [Calls -> CallStates]
      /\ \A k \in Calls \ {h} : call'[k] = call[k]
      /\ \/ call'[h] = Idle
         \/ call'[h] = c /\ cur.status \in {"applying", "outcome_unknown"}
  BY <1>1, <1>4, <1>6, IdleIsCallState
<1>8. Leaves(h)
  BY <1>4, <1>5, <1>6, <1>7 DEF Leaves, bridgeVars
<1>. QED
  BY <1>2, <1>4, <1>5, <1>6, <1>7, <1>8 DEF CallShape, bridgeVars

LEMMA EntryShape ==
  ASSUME TypeOK, NEW h \in Calls, NEW p \in Procs, Apply(h, p) \/ Status(h, p)
  PROVE  CallShape(h)
<1>1. UNCHANGED <<up, lease, fenceVars, bridgeVars>>
  BY DEF Apply, Status, JournalOnly
<1>2. CASE Status(h, p)
  BY <1>1, <1>2, StatusOfShape DEF Status
<1>3. CASE Apply(h, p)
  <2>. DEFINE c == [Idle EXCEPT !.pc = "qualify", !.proc = p]
  <2>1. PICK cur \in Loads :
          \/ cur.status = "planned" /\ row' = cur /\ call' = [call EXCEPT ![h] = c]
          \/ StatusOf(h, p, cur)
    BY <1>3 DEF Apply
  <2>2. CASE StatusOf(h, p, cur)
    BY <1>1, <2>2, StatusOfShape
  <2>3. CASE cur.status = "planned" /\ row' = cur /\ call' = [call EXCEPT ![h] = c]
    <3>1. cur = row
      BY <2>3, Loaded
    <3>2. c \in CallStates /\ c.pc = "qualify" /\ c.att = NoAttempt
          /\ c.answer = Reply("pending") /\ c.proc = p
      BY IdleIsCallState DEF Idle, CallStates
    <3>3. /\ call' \in [Calls -> CallStates] /\ call'[h] = c
          /\ \A k \in Calls \ {h} : call'[k] = call[k]
      BY <2>3, <3>2 DEF TypeOK
    <3>4. Evolves(row, row)
      BY DEF Evolves, TypeOK, JournalTypeOK
    <3>5. Leaves(h)
      BY <1>1, <3>2, <3>3 DEF Leaves, bridgeVars
    <3>. QED
      BY <1>1, <2>3, <3>1, <3>2, <3>3, <3>4, <3>5 DEF CallShape, bridgeVars
  <2>. QED
    BY <2>1, <2>2, <2>3
<1>. QED
  BY <1>2, <1>3

LEMMA StartShape ==
  ASSUME TypeInv, ExecutorInv, NEW h \in Calls, Start(h)
  PROVE  CallShape(h)
<1>. USE DEF TypeInv
<1>1. UNCHANGED <<up, lease, fenceVars, bridgeVars>>
  BY DEF Start, JournalOnly
<1>2. call[h].pc = "qualify" /\ call[h].proc \in Procs
  BY DEF Start, Answered, ExecutorInv
<1>3. PICK cur \in Loads :
        \/ /\ MayTransition(cur, {"planned"}, NoAttempt)
           /\ \E a \in FreshAttempts(cur) :
                /\ row' = Started(cur, call[h].proc, a)
                /\ call' = [call EXCEPT ![h] =
                     [Idle EXCEPT !.pc = "epoch", !.proc = call[h].proc, !.att = a]]
        \/ StatusOf(h, call[h].proc, cur)
  BY DEF Start
<1>4. CASE StatusOf(h, call[h].proc, cur)
  BY <1>1, <1>2, <1>4, StatusOfShape
<1>5. ASSUME cur.status = "planned", NEW a \in FreshAttempts(cur),
             row' = Started(cur, call[h].proc, a),
             call' = [call EXCEPT ![h] =
               [Idle EXCEPT !.pc = "epoch", !.proc = call[h].proc, !.att = a]]
      PROVE  CallShape(h)
  <2>. DEFINE c == [Idle EXCEPT !.pc = "epoch", !.proc = call[h].proc, !.att = a]
  <2>1. cur = row /\ cur \in Rows
    BY <1>5, Loaded
  <2>2. Evolves(row, row')
    BY <1>2, <1>5, <2>1, StartsEvolve
  <2>3. row'.status = "applying" /\ row'.proc = call[h].proc
    BY <1>5, <2>1 DEF Started, Rows
  <2>4. a \in Attempts
    BY DEF FreshAttempts
  <2>5. /\ c \in CallStates /\ c.pc = "epoch" /\ c.att = a
        /\ c.answer = Reply("pending") /\ c.proc = call[h].proc
    BY <1>2, <2>4, IdleIsCallState DEF Idle, CallStates
  <2>6. /\ call' \in [Calls -> CallStates] /\ call'[h] = c
        /\ \A k \in Calls \ {h} : call'[k] = call[k]
    BY <1>5, <2>5 DEF TypeOK
  <2>7. Begins(h)
    BY <1>1, <1>2, <1>5, <2>1, <2>3, <2>4, <2>5, <2>6 DEF Begins, bridgeVars
  <2>. QED
    BY <1>1, <1>2, <2>2, <2>3, <2>5, <2>6, <2>7 DEF CallShape, bridgeVars
<1>. QED
  BY <1>3, <1>4, <1>5 DEF MayTransition

LEMMA SendShape ==
  ASSUME TypeInv, ExecutorInv, NEW h \in Calls, RecordAndSend(h)
  PROVE  CallShape(h)
<1>. USE DEF TypeInv
<1>1. UNCHANGED <<up, lease, fenceVars, entry, kind, note, done>>
  BY DEF RecordAndSend
<1>2. /\ call[h].pc = "epoch" /\ call[h].proc \in Procs
      /\ call[h].epoch \in Epochs
  BY DEF RecordAndSend, Answered, ExecutorInv, ShapeInv
<1>3. call[h] \in CallStates
  BY DEF TypeOK
<1>4. PICK cur \in Loads :
        \/ /\ MayRecord(cur, call[h].att)
           /\ row' = Recorded(cur, call[h].epoch, call[h].att)
           /\ req' = [NoRequest EXCEPT !.phase = "sent", !.att = call[h].att,
                                       !.epoch = call[h].epoch]
           /\ call' = [call EXCEPT ![h].pc = "waiting",
                                   ![h].answer = Reply("pending")]
        \/ StatusOf(h, call[h].proc, cur) /\ UNCHANGED req
  BY DEF RecordAndSend
<1>5. CASE StatusOf(h, call[h].proc, cur) /\ UNCHANGED req
  BY <1>1, <1>2, <1>5, StatusOfShape DEF bridgeVars
<1>6. CASE /\ MayRecord(cur, call[h].att)
           /\ row' = Recorded(cur, call[h].epoch, call[h].att)
           /\ req' = [NoRequest EXCEPT !.phase = "sent", !.att = call[h].att,
                                       !.epoch = call[h].epoch]
           /\ call' = [call EXCEPT ![h].pc = "waiting",
                                   ![h].answer = Reply("pending")]
  <2>1. call[h].att \in Attempts
    BY <1>3, <1>6 DEF MayRecord, CallStates
  <2>2. cur = row /\ cur \in Rows /\ cur.status = "applying"
    BY <1>6, Loaded DEF MayRecord
  <2>3. Evolves(row, row') /\ row'.status = "applying" /\ row'.proc = row.proc
    BY <1>2, <1>6, <2>1, <2>2, RecordsEvolve DEF Recorded, Rows
  <2>4. call'[h] = [call[h] EXCEPT !.pc = "waiting", !.answer = Reply("pending")]
        /\ \A k \in Calls \ {h} : call'[k] = call[k]
    BY <1>6 DEF TypeOK
  <2>5. /\ call'[h] \in CallStates
        /\ call'[h].pc = "waiting" /\ call'[h].answer = Reply("pending")
        /\ call'[h].att = call[h].att /\ call'[h].proc = call[h].proc
    BY <1>3, <2>4 DEF CallStates
  <2>6. call' \in [Calls -> CallStates]
    BY <1>6, <2>4, <2>5 DEF TypeOK
  <2>7. NoRequest \in Requests
    BY ObservationTypes DEF NoRequest, Requests, InFlight, Outcomes
  <2>8. /\ req' \in Requests
        /\ req'.phase = "sent" /\ req'.att = call[h].att /\ req'.epoch = call[h].epoch
    BY <1>2, <1>6, <2>1, <2>7 DEF Requests, NoRequest, Acting
  <2>9. Sends(h)
    BY <1>2, <2>1, <2>3, <2>5, <2>8 DEF Sends
  <2>. QED
    BY <1>1, <1>2, <2>2, <2>3, <2>4, <2>5, <2>6, <2>9 DEF CallShape
<1>. QED
  BY <1>4, <1>5, <1>6

(* The outcome that an answer of a Bridge operation names. *)
LEMMA AnswerOutcome ==
  ASSUME TypeInv, NEW h \in Calls, Answered(h, "waiting") \/ Answered(h, "query"),
         call[h].answer.outcome # "failed"
  PROVE  call[h].answer.outcome \in Outcomes
<1>1. call[h].answer.outcome \notin {"pending", "failed", "ok"}
  BY DEF TypeInv, ShapeInv, Answered
<1>2. call[h].answer \in Observations \cup Replies
  BY CallStatesAre DEF TypeInv, TypeOK
<1>. QED
  BY <1>1, <1>2, RepliesAreReplies DEF Observations, Replies

LEMMA CallStepShape ==
  ASSUME TypeInv, ExecutorInv, NEW h \in Calls, CallStep(h)
  PROVE  CallShape(h)
<1>. USE DEF TypeInv
<1>1. Evolves(row, row)
  BY DEF Evolves, TypeOK, JournalTypeOK
<1>2. CASE Unqualified(h)
  BY <1>1, <1>2, ReturnsShape DEF Unqualified
<1>3. CASE StatusFails(h)
  <2>1. row' \in Loads /\ Returns(h) /\ JournalOnly
    BY <1>3 DEF StatusFails
  <2>. QED
    BY <2>1, Loaded, ReturnsShape
<1>4. CASE ApplyFails(h)
  <2>1. /\ \E cur \in Loads :
             row' = Transitioned(cur, {"applying"}, "outcome_unknown", call[h].att)
        /\ Returns(h) /\ JournalOnly
    BY <1>4 DEF ApplyFails
  <2>2. "outcome_unknown" \in Outcomes
    BY DEF Outcomes
  <2>. QED
    BY <2>1, <2>2, TransitionedRow, ReturnsShape
<1>5. CASE ApplySettles(h)
  <2>1. /\ \E cur \in Loads :
             row' = Transitioned(cur, {"applying"}, call[h].answer.outcome, call[h].att)
        /\ Returns(h) /\ JournalOnly
    BY <1>5 DEF ApplySettles
  <2>2. call[h].answer.outcome \in Outcomes
    BY <1>5, AnswerOutcome DEF ApplySettles
  <2>. QED
    BY <2>1, <2>2, TransitionedRow, ReturnsShape
<1>6. CASE StatusReconciles(h)
  <2>1. PICK cur \in Loads : row' = Reconciled(cur, call[h].answer, call[h].owner)
    BY <1>6 DEF StatusReconciles
  <2>2. Returns(h) /\ JournalOnly
    BY <1>6 DEF StatusReconciles
  <2>3. CASE call[h].answer.outcome = "committed"
    BY <2>1, <2>2, <2>3, CommittedRow, ReturnsShape DEF Reconciled
  <2>4. CASE call[h].answer.outcome = "conflict"
    <3>1. row' = Transitioned(cur, {"applying", "outcome_unknown"}, "conflict", call[h].owner)
      BY <2>1, <2>4 DEF Reconciled
    <3>2. "conflict" \in Outcomes
      BY DEF Outcomes
    <3>. QED
      BY <2>2, <2>4, <3>1, <3>2, TransitionedRow, ReturnsShape
  <2>5. CASE call[h].answer.outcome \notin {"committed", "conflict"}
    <3>1. row' = cur
      BY <2>1, <2>5 DEF Reconciled
    <3>. QED
      BY <2>2, <3>1, Loaded, ReturnsShape
  <2>. QED
    BY <2>3, <2>4, <2>5
<1>. QED
  BY <1>2, <1>3, <1>4, <1>5, <1>6, StartShape, SendShape DEF CallStep

LEMMA AnswersShape ==
  ASSUME TypeInv, NEW h \in Calls, Answer(h)
  PROVE  AnswerShape(h)
<1>. USE DEF TypeInv
<1>1. call \in [Calls -> CallStates] /\ call[h] \in CallStates
  BY DEF TypeOK
<1>2. CASE BridgeStatus(h)
  <2>1. /\ call[h].pc \in {"qualify", "epoch"} /\ live \in Epochs /\ CallOnly
        /\ call' = [call EXCEPT ![h].answer = Reply("ok"), ![h].epoch = live]
    BY <1>2 DEF BridgeStatus, TypeOK, FenceTypeOK
  <2>2. /\ call' \in [Calls -> CallStates]
        /\ \A k \in Calls \ {h} : call'[k] = call[k]
        /\ call'[h].pc = call[h].pc /\ call'[h].att = call[h].att
        /\ call'[h].proc = call[h].proc
        /\ call'[h].answer = Reply("ok") /\ call'[h].epoch = live
    <3>1. /\ call'[h] = [call[h] EXCEPT !.answer = Reply("ok"), !.epoch = live]
          /\ \A k \in Calls \ {h} : call'[k] = call[k]
          /\ call' \in [Calls -> {call'[k] : k \in Calls}]
      BY <1>1, <2>1
    <3>2. /\ call'[h] \in CallStates
          /\ call'[h].pc = call[h].pc /\ call'[h].att = call[h].att
          /\ call'[h].proc = call[h].proc
          /\ call'[h].answer = Reply("ok") /\ call'[h].epoch = live
      BY <1>1, <2>1, <3>1, RepliesAreReplies DEF CallStates, Replies
    <3>3. call' \in [Calls -> CallStates]
      BY <1>1, <3>1, <3>2
    <3>. QED
      BY <3>1, <3>2, <3>3
  <2>. QED
    BY <2>1, <2>2, RepliesAreReplies DEF AnswerShape
<1>3. CASE ReceiptAnswers(h)
  <2>1. CallOnly
    BY <1>3 DEF ReceiptAnswers
  <2>2. PICK a \in Observations :
          /\ call' = [call EXCEPT ![h].answer = a]
          /\ a.outcome = "outcome_unknown" \/ a = entry
    <3>1. /\ InFlight \in Observations /\ InFlight.outcome = "outcome_unknown"
          /\ entry \in Observations \cup {NoReceipt}
      BY ObservationTypes DEF TypeOK, InFlight, Outcomes
    <3>2. CASE entry = NoReceipt
      BY <1>3, <3>1, <3>2 DEF ReceiptAnswers
    <3>3. CASE entry # NoReceipt
      BY <1>3, <3>1, <3>3 DEF ReceiptAnswers
    <3>. QED
      BY <3>2, <3>3
  <2>3. a.outcome # "ok"
    BY DEF Observations, Outcomes
  <2>4. /\ call' \in [Calls -> CallStates]
        /\ \A k \in Calls \ {h} : call'[k] = call[k]
        /\ call'[h].pc = call[h].pc /\ call'[h].att = call[h].att
        /\ call'[h].proc = call[h].proc
        /\ call'[h].answer = a
    BY <1>1, <2>1, <2>2, AnsweredCalls
  <2>. QED
    BY <2>1, <2>2, <2>3, <2>4 DEF AnswerShape
<1>4. CASE EffectAnswers(h)
  <2>1. /\ CallOnly /\ call' = [call EXCEPT ![h].answer = req.answer]
        /\ req.phase = "answered"
    BY <1>4 DEF EffectAnswers
  <2>2. req.answer \in Observations /\ req.answer.outcome # "ok"
    BY DEF TypeOK, Requests, Observations, Outcomes
  <2>3. /\ call' \in [Calls -> CallStates]
        /\ \A k \in Calls \ {h} : call'[k] = call[k]
        /\ call'[h].pc = call[h].pc /\ call'[h].att = call[h].att
        /\ call'[h].proc = call[h].proc
        /\ call'[h].answer = req.answer
    BY <1>1, <2>1, <2>2, AnsweredCalls
  <2>. QED
    BY <2>1, <2>2, <2>3 DEF AnswerShape
<1>5. CASE AwaitFails(h)
  <2>1. CallOnly /\ call' = [call EXCEPT ![h].answer = Reply("failed")]
    BY <1>5 DEF AwaitFails
  <2>2. /\ call' \in [Calls -> CallStates]
        /\ \A k \in Calls \ {h} : call'[k] = call[k]
        /\ call'[h].pc = call[h].pc /\ call'[h].att = call[h].att
        /\ call'[h].proc = call[h].proc
        /\ call'[h].answer = Reply("failed")
    BY <1>1, <2>1, AnsweredCalls, RepliesAreReplies
  <2>. QED
    BY <2>1, <2>2, RepliesAreReplies DEF AnswerShape
<1>. QED
  BY <1>2, <1>3, <1>4, <1>5 DEF Answer

-----------------------------------------------------------------------------
(* The steps of the request. *)

(* What the handler answers is what its progress proves. *)
RequestShape ==
  /\ WorldSame
  /\ req.phase \in Acting
  /\ req' \in Requests
  /\ req'.att = req.att /\ req'.epoch = req.epoch
  /\ entry' \in Observations \cup {NoReceipt}
  /\ FenceTypeOK'
  /\ note' \in Contents
  /\ \/ /\ req'.phase \in Acting \ {"sent", "landed"}
        /\ req.phase \notin {"running", "landed"}
        /\ entry' \in {entry, InFlight} /\ done' = done
     \/ /\ req.phase = "running" /\ req'.phase = "landed"
        /\ entry' = entry /\ done' = done \cup {req.att} /\ note' = "absent"
     \/ /\ req'.phase = "gone"
        /\ entry' = entry /\ done' = done
     \/ /\ req'.phase = "answered"
        /\ req'.answer.outcome = "committed" => req.phase = "landed"
        /\ req'.answer.outcome \in {"conflict", "rejected"} =>
             req.phase \notin {"running", "landed"}
        /\ entry' \in {entry, req'.answer} /\ done' = done

LEMMA RequestUpdates ==
  ASSUME TypeInv, NEW ph \in Acting \cup {"answered", "gone"}, NEW o \in Observations,
         \/ req' = [req EXCEPT !.phase = ph]
         \/ req' = [req EXCEPT !.phase = ph, !.served = TRUE]
         \/ req' = [req EXCEPT !.phase = ph, !.answer = o]
  PROVE  /\ req' \in Requests
         /\ req'.phase = ph /\ req'.att = req.att /\ req'.epoch = req.epoch
         /\ req' = [req EXCEPT !.phase = ph, !.answer = o] => req'.answer = o
  BY DEF TypeInv, TypeOK, Requests

LEMMA RequestMovesUpdates ==
  ASSUME TypeInv, NEW from, NEW ph \in Acting \cup {"gone"}, RequestMoves(from, ph)
  PROVE  /\ req' \in Requests /\ req.phase = from
         /\ req'.phase = ph /\ req'.att = req.att /\ req'.epoch = req.epoch
<1>1. InFlight \in Observations
  BY ObservationTypes DEF InFlight, Outcomes
<1>. QED
  BY <1>1, RequestUpdates DEF RequestMoves

(* The handler ends with an outcome. *)
LEMMA SettlesShape ==
  ASSUME TypeInv, NEW o \in Outcomes, NEW p \in {"local", "system", "move"},
         Settles(Observation(o, p)), WorldSame, req.phase \in Acting, FenceTypeOK',
         note' = note, done' = done,
         o = "committed" => req.phase = "landed",
         o \in {"conflict", "rejected"} => req.phase \notin {"running", "landed"}
  PROVE  RequestShape
<1>1. Observation(o, p) \in Observations /\ Observation(o, p).outcome = o
  BY ObservationTypes
<1>2. /\ req' = [req EXCEPT !.phase = "answered", !.answer = Observation(o, p)]
      /\ entry' \in {entry, Observation(o, p)}
  BY DEF Settles
<1>3. /\ req' \in Requests /\ req'.phase = "answered"
      /\ req'.att = req.att /\ req'.epoch = req.epoch
      /\ req'.answer = Observation(o, p)
  BY <1>1, <1>2, RequestUpdates
<1>. QED
  BY <1>1, <1>2, <1>3 DEF RequestShape, TypeInv, TypeOK

LEMMA FenceSteps ==
  ASSUME TypeOK
  PROVE  /\ UNCHANGED fenceVars => FenceTypeOK'
         /\ Retire \/ QuitRealm => FenceTypeOK'
         /\ \A e \in Epochs : Issue(e) => FenceTypeOK'
         /\ \A t \in Tokens : Enter(t) \/ Settle(t) => FenceTypeOK'
         /\ \A t \in Tokens, e \in Epochs : EnterAndRotate(t, e) => FenceTypeOK'
<1>1. UNCHANGED fenceVars => FenceTypeOK'
  BY DEF TypeOK, FenceTypeOK, fenceVars
<1>2. FenceNext => FenceTypeOK'
  BY FenceStepTypes DEF TypeOK
<1>. QED
  BY <1>1, <1>2 DEF FenceNext

LEMMA RequestStepShape ==
  ASSUME TypeInv, RequestStep
  PROVE  RequestShape
<1>. USE DEF TypeInv
<1>1. /\ TypeOK /\ entry \in Observations \cup {NoReceipt} /\ note \in Contents
      /\ kind \in {"local", "system", "move"}
  BY DEF TypeOK
<1>2. WorldSame /\ req.phase \in Acting
  BY DEF RequestStep, Accept, TurnAway, RequestLost, Revalidate, BeginEffect,
         ReadAgain, PassFence, Refuse, PathFails, EffectLands, EffectUncertain,
         EffectReturns, RequestMoves, Acting
<1>3. Token \in Tokens
  BY <1>2 DEF Token, Tokens, ShapeInv, Acting
<1>4. InFlight \in Observations
  BY ObservationTypes DEF InFlight, Outcomes
<1>5. \A o \in {"conflict", "rejected", "committed", "outcome_unknown"} : o \in Outcomes
  BY DEF Outcomes
<1>6. UNCHANGED fenceVars => FenceTypeOK'
  BY <1>1, FenceSteps
<1>7. CASE Accept
  <2>1. req' = [req EXCEPT !.phase = "validating", !.served = TRUE]
    BY <1>7 DEF Accept
  <2>2. /\ req' \in Requests /\ req'.phase = "validating"
        /\ req'.att = req.att /\ req'.epoch = req.epoch
    BY <1>4, <2>1, RequestUpdates DEF Acting
  <2>. QED
    BY <1>1, <1>2, <1>4, <1>6, <1>7, <2>2 DEF Accept, RequestShape, Acting
<1>8. CASE TurnAway
  <2>1. PICK o \in {"rejected", "conflict"} :
          req' = [req EXCEPT !.phase = "answered", !.answer = Observation(o, "local")]
    BY <1>8 DEF TurnAway
  <2>2. Observation(o, "local") \in Observations /\ Observation(o, "local").outcome = o
    BY <1>5, ObservationTypes
  <2>3. /\ req' \in Requests /\ req'.phase = "answered"
        /\ req'.att = req.att /\ req'.epoch = req.epoch
        /\ req'.answer = Observation(o, "local")
    BY <2>1, <2>2, RequestUpdates
  <2>. QED
    BY <1>1, <1>2, <1>6, <1>8, <2>2, <2>3 DEF TurnAway, RequestShape
<1>9. CASE RequestLost
  BY <1>1, <1>2, <1>6, <1>9, RequestMovesUpdates DEF RequestLost, RequestShape
<1>10. CASE Revalidate
  <2>1. req.phase = "validating" /\ UNCHANGED <<fenceVars, note, done>>
    BY <1>10 DEF Revalidate
  <2>2. CASE Settles(Observation("conflict", "local"))
    BY <1>2, <1>5, <1>6, <2>1, <2>2, SettlesShape
  <2>3. CASE /\ RequestMoves("validating", IF kind = "move" THEN "reading" ELSE "listing")
             /\ UNCHANGED entry
    <3>1. PICK ph \in {"reading", "listing"} : RequestMoves("validating", ph)
      BY <2>3
    <3>. QED
      BY <1>1, <1>2, <1>6, <2>1, <2>3, <3>1, RequestMovesUpdates DEF RequestShape, Acting
  <2>. QED
    BY <1>10, <2>2, <2>3 DEF Revalidate
<1>11. CASE BeginEffect
  <2>1. req.phase = "listing" /\ UNCHANGED <<fenceVars, note, done>>
    BY <1>11 DEF BeginEffect
  <2>2. CASE Settles(Observation("conflict", kind))
    BY <1>1, <1>2, <1>5, <1>6, <2>1, <2>2, SettlesShape
  <2>3. CASE RequestMoves("listing", "reading") /\ UNCHANGED entry
    BY <1>1, <1>2, <1>6, <2>1, <2>3, RequestMovesUpdates DEF RequestShape, Acting
  <2>. QED
    BY <1>11, <2>2, <2>3 DEF BeginEffect
<1>12. CASE ReadAgain
  <2>1. req.phase = "reading" /\ UNCHANGED <<fenceVars, note, done>>
    BY <1>12 DEF ReadAgain
  <2>2. CASE Settles(Observation("conflict", kind))
    BY <1>1, <1>2, <1>5, <1>6, <2>1, <2>2, SettlesShape
  <2>3. CASE RequestMoves("reading", "read") /\ UNCHANGED entry
    BY <1>1, <1>2, <1>6, <2>1, <2>3, RequestMovesUpdates DEF RequestShape, Acting
  <2>. QED
    BY <1>12, <2>2, <2>3 DEF ReadAgain
<1>13. CASE PassFence
  <2>1. FenceTypeOK'
    BY <1>1, <1>3, <1>13, FenceSteps DEF PassFence
  <2>2. RequestMoves("read", "running") /\ UNCHANGED <<entry, note, done>>
    BY <1>13 DEF PassFence
  <2>. QED
    BY <1>1, <1>2, <2>1, <2>2, RequestMovesUpdates DEF RequestShape, Acting
<1>14. CASE Refuse
  BY <1>1, <1>2, <1>5, <1>6, <1>14, SettlesShape DEF Refuse
<1>15. CASE PathFails
  BY <1>1, <1>2, <1>5, <1>6, <1>15, SettlesShape DEF PathFails
<1>16. CASE EffectLands
  <2>1. RequestMoves("running", "landed") /\ "absent" \in Contents
    BY <1>16 DEF EffectLands, Contents
  <2>. QED
    BY <1>1, <1>2, <1>6, <1>16, <2>1, RequestMovesUpdates DEF EffectLands, RequestShape, Acting
<1>17. CASE EffectUncertain \/ EffectReturns
  <2>1. FenceTypeOK'
    BY <1>1, <1>3, <1>17, FenceSteps DEF EffectUncertain, EffectReturns
  <2>. QED
    BY <1>1, <1>2, <1>5, <1>17, <2>1, SettlesShape DEF EffectUncertain, EffectReturns
<1>. QED
  BY <1>7, <1>8, <1>9, <1>10, <1>11, <1>12, <1>13, <1>14, <1>15, <1>16, <1>17
  DEF RequestStep

-----------------------------------------------------------------------------
(* The processes, the plugin and the environment. *)

Process ==
  \E p \in Procs :
    Launch(p) \/ Heartbeat(p) \/ Lapse(p) \/ Stop(p) \/ Crash(p)

LEMMA SweptEvolves ==
  ASSUME TypeOK
  PROVE  /\ Swept(row) \in Rows /\ Evolves(row, Swept(row))
         /\ Swept(row).status \in {row.status, "outcome_unknown"}
         /\ Swept(row).status \in {"planned", "applying"} => Swept(row) = row
<1>1. row \in Rows
  BY DEF TypeOK, JournalTypeOK
<1>2. Swept(row) \in LoadsOf(row)
  BY DEF LoadsOf
<1>3. Swept(row) \in Rows /\ Evolves(row, Swept(row))
  BY <1>1, <1>2, LoadsEvolve, LoadsAreRows
<1>4. \/ Swept(row) = row
      \/ Swept(row).status = "outcome_unknown"
  BY <1>1 DEF Swept, Released, Rows
<1>. QED
  BY <1>3, <1>4

(* What becomes of the row when a process comes or goes. *)
LEMMA ProcessRow ==
  ASSUME TypeOK, Process
  PROVE  /\ Evolves(row, row')
         /\ row'.status \in {row.status, "outcome_unknown", "expired"}
         /\ row'.status = "applying" => row' = row
<1>1. row \in Rows
  BY DEF TypeOK, JournalTypeOK
<1>2. Evolves(row, row)
  BY <1>1 DEF Evolves
<1>3. ASSUME NEW p \in Procs, Launch(p)
      PROVE  /\ Evolves(row, row')
             /\ row'.status \in {row.status, "outcome_unknown", "expired"}
             /\ row'.status = "applying" => row' = row
  <2>. DEFINE s == Swept(row)
  <2>1. /\ s \in Rows /\ Evolves(row, s)
        /\ s.status \in {row.status, "outcome_unknown"}
        /\ s.status = "applying" => s = row
    BY SweptEvolves
  <2>2. row' \in {s, Expired(s)}
    BY <1>3 DEF Launch, StartRuntime
  <2>3. Expired(s) \in LoadsOf(s)
    BY DEF LoadsOf
  <2>4. Evolves(s, Expired(s))
    BY <2>1, <2>3, LoadsEvolve
  <2>5. Evolves(row, Expired(s))
    BY <2>1, <2>4, EvolvesIsTransitive
  <2>6. Expired(s) = s \/ Expired(s).status = "expired"
    BY <2>1 DEF Expired, Released, Rows
  <2>. QED
    BY <2>1, <2>2, <2>5, <2>6
<1>4. ASSUME NEW p \in Procs, Stop(p)
      PROVE  /\ Evolves(row, row')
             /\ row'.status \in {row.status, "outcome_unknown", "expired"}
             /\ row'.status = "applying" => row' = row
  <2>1. \/ row' = row
        \/ row.status = "applying" /\ row' = Released(row, "outcome_unknown")
    BY <1>4 DEF Stop, CloseRuntime
  <2>2. Released(row, "outcome_unknown") \in Rows
    BY <1>1, RowOperators DEF Statuses, Pending
  <2>3. CASE row' = row
    BY <1>2, <2>3
  <2>4. CASE row.status = "applying" /\ row' = Released(row, "outcome_unknown")
    <3>1. /\ row'.status = "outcome_unknown"
          /\ row'.tokens = row.tokens /\ row'.used = row.used
      BY <1>1, <2>4 DEF Released, Rows
    <3>. QED
      BY <2>2, <2>4, <3>1 DEF Evolves, Pending
  <2>. QED
    BY <2>1, <2>3, <2>4
<1>5. ASSUME NEW p \in Procs, Heartbeat(p) \/ Lapse(p) \/ Crash(p)
      PROVE  row' = row
  BY <1>5 DEF Heartbeat, Lapse, Crash, RenewLease, LeaseLapses, CrashRuntime
<1>. QED
  BY <1>2, <1>3, <1>4, <1>5 DEF Process

LEMMA ProcessStepShape ==
  ASSUME TypeOK, Process
  PROVE  ProcessShape
<1>1. row' \in Rows
  BY ProcessRow DEF Evolves
<1>2. /\ call \in [Calls -> CallStates]
      /\ up \in [Procs -> {"new", "up", "down"}]
      /\ lease \in [Procs -> BOOLEAN]
  BY DEF TypeOK, JournalTypeOK
<1>3. /\ up' \in [Procs -> {"new", "up", "down"}]
      /\ lease' \in [Procs -> BOOLEAN]
  BY <1>2 DEF Process, Launch, Heartbeat, Lapse, Stop, Crash, StartRuntime,
       RenewLease, LeaseLapses, CloseRuntime, CrashRuntime
<1>4. /\ call' \in [Calls -> CallStates]
      /\ \A h \in Calls : call'[h] \in {call[h], Idle}
  <2>1. UNCHANGED call \/ \E p \in Procs : CallsWithout(p)
    BY DEF Process, Launch, Heartbeat, Lapse, Stop, Crash
  <2>2. ASSUME NEW p \in Procs, CallsWithout(p)
        PROVE  /\ call' \in [Calls -> CallStates]
               /\ \A h \in Calls : call'[h] \in {call[h], Idle}
    BY <1>2, <2>2, IdleIsCallState DEF CallsWithout
  <2>. QED
    BY <1>2, <2>1, <2>2
<1>5. UNCHANGED <<fenceVars, bridgeVars>>
  BY DEF Process, Launch, Heartbeat, Lapse, Stop, Crash
<1>. QED
  BY <1>1, <1>3, <1>4, <1>5, ProcessRow DEF ProcessShape, JournalTypeOK

(* The plugin comes and goes, receipts are dropped, the note is edited: a  *)
(* handler dies at most, with or without its effect.                       *)
PluginShape ==
  /\ UNCHANGED <<journalVars, call, kind>>
  /\ FenceTypeOK'
  /\ req' \in Requests
  /\ req'.att = req.att /\ req'.epoch = req.epoch
  /\ req'.answer = req.answer
  /\ entry' \in {entry, NoReceipt}
  /\ note' \in Contents
  /\ \/ req'.phase = req.phase /\ done' = done
     \/ /\ req.phase \in Acting
        /\ req'.phase = "gone"
        /\ done' \in {done, done \cup {req.att}}

Plugin ==
  \/ UnloadBridge
  \/ \E e \in Epochs : LoadBridge(e)
  \/ \E landed \in BOOLEAN : QuitObsidian(landed)
  \/ Evict
  \/ \E content \in Contents : EditNote(content)

LEMMA PluginStepShape ==
  ASSUME TypeOK, Plugin
  PROVE  PluginShape
<1>1. /\ req \in Requests /\ note \in Contents /\ "absent" \in Contents
      /\ UNCHANGED fenceVars => FenceTypeOK'
      /\ Retire \/ QuitRealm => FenceTypeOK'
      /\ \A e \in Epochs : Issue(e) => FenceTypeOK'
  BY FenceSteps DEF TypeOK, Contents
<1>2. CASE UnloadBridge
  <2>1. req' = [req EXCEPT !.served = FALSE]
    BY <1>2 DEF UnloadBridge
  <2>2. /\ req' \in Requests
        /\ req'.phase = req.phase /\ req'.answer = req.answer
        /\ req'.att = req.att /\ req'.epoch = req.epoch
    BY <1>1, <2>1 DEF Requests
  <2>. QED
    BY <1>1, <1>2, <2>2 DEF UnloadBridge, PluginShape
<1>3. CASE \E e \in Epochs : LoadBridge(e)
  BY <1>1, <1>3 DEF LoadBridge, PluginShape, bridgeVars
<1>4. CASE \E landed \in BOOLEAN : QuitObsidian(landed)
  <2>1. PICK landed \in BOOLEAN : QuitObsidian(landed)
    BY <1>4
  <2>. DEFINE ph == IF req.phase \in Acting \ {"sent"} THEN "gone" ELSE req.phase
  <2>2. req' = [req EXCEPT !.phase = ph, !.served = FALSE]
    BY <2>1 DEF QuitObsidian
  <2>3. ph \in Acting \cup {"none", "answered", "gone"}
    BY <1>1 DEF Requests
  <2>4. /\ req' \in Requests
        /\ req'.phase = ph /\ req'.answer = req.answer
        /\ req'.att = req.att /\ req'.epoch = req.epoch
    BY <1>1, <2>2, <2>3 DEF Requests
  <2>5. landed => req.phase = "running"
    BY <2>1 DEF QuitObsidian
  <2>6. /\ done' \in {done, done \cup {req.att}}
        /\ ~landed => done' = done
        /\ note' \in Contents
    BY <1>1, <2>1 DEF QuitObsidian
  <2>7. \/ req'.phase = req.phase /\ done' = done
        \/ req.phase \in Acting /\ req'.phase = "gone"
    BY <2>4, <2>5, <2>6 DEF Acting
  <2>. QED
    BY <1>1, <2>1, <2>4, <2>6, <2>7 DEF QuitObsidian, PluginShape
<1>5. CASE Evict
  BY <1>1, <1>5 DEF Evict, PluginShape
<1>6. CASE \E content \in Contents : EditNote(content)
  BY <1>1, <1>6 DEF EditNote, PluginShape
<1>. QED
  BY <1>2, <1>3, <1>4, <1>5, <1>6 DEF Plugin

(* Every step is of one of these kinds. *)
StepKind ==
  \/ \E h \in Calls : CallShape(h)
  \/ \E h \in Calls : AnswerShape(h)
  \/ RequestShape
  \/ ProcessShape
  \/ PluginShape
  \/ UNCHANGED vars

LEMMA EveryStepHasAKind ==
  ASSUME TypeInv, ExecutorInv, [Next]_vars
  PROVE  StepKind
<1>. USE DEF TypeInv
<1>1. ASSUME NEW h \in Calls, NEW p \in Procs, Apply(h, p) \/ Status(h, p)
      PROVE  StepKind
  BY <1>1, EntryShape DEF StepKind
<1>2. ASSUME NEW h \in Calls, CallStep(h)
      PROVE  StepKind
  BY <1>2, CallStepShape DEF StepKind
<1>3. ASSUME NEW h \in Calls, Answer(h)
      PROVE  StepKind
  BY <1>3, AnswersShape DEF StepKind
<1>4. CASE RequestStep
  BY <1>4, RequestStepShape DEF StepKind
<1>5. CASE Environment
  <2>1. Process \/ Plugin
    BY <1>5 DEF Environment, Process, Plugin
  <2>. QED
    BY <2>1, ProcessStepShape, PluginStepShape DEF StepKind
<1>6. CASE UNCHANGED vars
  BY <1>6 DEF StepKind
<1>. QED
  BY <1>1, <1>2, <1>3, <1>4, <1>5, <1>6 DEF Next

-----------------------------------------------------------------------------
(* The invariant holds.                                                    *)

LEMMA InitInv ==
  ASSUME Init
  PROVE  Inv
<1>. USE DEF Init
<1>1. /\ Idle \in CallStates /\ Idle.pc = "idle" /\ Idle.att = NoAttempt
      /\ Idle.answer = Reply("pending")
  BY IdleIsCallState DEF Idle
<1>2. /\ NoRequest \in Requests /\ NoRequest.phase = "none"
      /\ NoRequest.att = NoAttempt
  BY ObservationTypes DEF NoRequest, Requests, InFlight, Outcomes
<1>3. PlannedRow \in Rows /\ PlannedRow.status = "planned"
  BY DEF PlannedRow, Rows, Statuses, Pending
<1>4. JournalTypeOK
  BY <1>3 DEF JournalInit, JournalTypeOK
<1>5. FenceTypeOK
  BY DEF FenceInit, FenceTypeOK
<1>6. TypeOK
  BY <1>1, <1>2, <1>4, <1>5, EffectAssumption DEF TypeOK, Contents
<1>7. NoReceipt.outcome = "none"
  BY DEF NoReceipt, Observation
<1>8. /\ \A h \in Calls : call[h] = Idle
      /\ req.phase = "none" /\ row.status = "planned"
  BY <1>2, <1>3 DEF JournalInit
<1>9. ShapeInv
  BY <1>1, <1>8, RepliesAreReplies DEF ShapeInv
<1>10. ExecutorInv
  BY <1>1, <1>8 DEF ExecutorInv
<1>11. EffectInv
  BY <1>8 DEF EffectInv, Acting
<1>12. EvidenceInv
  BY <1>1, <1>7, <1>8, RepliesAreReplies DEF EvidenceInv, Truthful
<1>. QED
  BY <1>6, <1>9, <1>10, <1>11, <1>12 DEF Inv, TypeInv

LEMMA TypeStep ==
  ASSUME Inv, StepKind
  PROVE  TypeInv'
<1>. USE DEF Inv, TypeInv
<1>1. /\ req \in Requests /\ entry \in Observations \cup {NoReceipt}
      /\ note \in Contents /\ done \subseteq Attempts
  BY DEF TypeOK
<1>2. Acting \cap {"none"} = {}
  BY DEF Acting
<1>3. ASSUME NEW h \in Calls, CallShape(h)
      PROVE  TypeInv'
  <2>1. req' \in Requests /\ (req'.phase # "none" => req'.att \in Attempts /\ req'.epoch \in Epochs)
    BY <1>1, <1>3 DEF CallShape, Leaves, Begins, Sends, ShapeInv
  <2>2. row' \in Rows
    BY <1>3 DEF CallShape, Evolves
  <2>3. TypeOK'
    BY <1>3, <2>1, <2>2 DEF CallShape, TypeOK, JournalTypeOK, FenceTypeOK, fenceVars
  <2>4. ShapeInv'
    BY <1>3, <2>1, RepliesAreReplies DEF CallShape, ShapeInv
  <2>. QED
    BY <2>3, <2>4
<1>4. ASSUME NEW h \in Calls, AnswerShape(h)
      PROVE  TypeInv'
  <2>1. TypeOK'
    BY <1>4 DEF AnswerShape, CallOnly, TypeOK, JournalTypeOK, FenceTypeOK, fenceVars,
         journalVars, bridgeVars
  <2>2. req' = req
    BY <1>4 DEF AnswerShape, CallOnly, bridgeVars
  <2>3. ShapeInv'
    BY <1>4, <2>2 DEF AnswerShape, ShapeInv
  <2>. QED
    BY <2>1, <2>3
<1>5. CASE RequestShape
  <2>1. done' \subseteq Attempts
    BY <1>1, <1>2, <1>5 DEF RequestShape, ShapeInv
  <2>2. TypeOK'
    BY <1>5, <2>1 DEF RequestShape, WorldSame, TypeOK, JournalTypeOK, journalVars
  <2>3. ShapeInv'
    BY <1>2, <1>5 DEF RequestShape, WorldSame, ShapeInv
  <2>. QED
    BY <2>2, <2>3
<1>6. CASE ProcessShape
  <2>1. TypeOK'
    BY <1>6 DEF ProcessShape, TypeOK, FenceTypeOK, fenceVars, bridgeVars
  <2>2. req' = req
    BY <1>6 DEF ProcessShape, bridgeVars
  <2>3. Idle.pc = "idle"
    BY DEF Idle
  <2>4. ShapeInv'
    BY <1>6, <2>2, <2>3 DEF ProcessShape, ShapeInv
  <2>. QED
    BY <2>1, <2>4
<1>7. CASE PluginShape
  <2>1. done' \subseteq Attempts
    BY <1>1, <1>2, <1>7 DEF PluginShape, ShapeInv
  <2>2. TypeOK'
    BY <1>7, <2>1 DEF PluginShape, TypeOK, JournalTypeOK, journalVars
  <2>3. ShapeInv'
    BY <1>2, <1>7 DEF PluginShape, ShapeInv
  <2>. QED
    BY <2>2, <2>3
<1>8. CASE UNCHANGED vars
  BY <1>8 DEF vars, TypeOK, ShapeInv, JournalTypeOK, FenceTypeOK
<1>. QED
  BY <1>3, <1>4, <1>5, <1>6, <1>7, <1>8 DEF StepKind

LEMMA ExecutorStep ==
  ASSUME Inv, StepKind
  PROVE  ExecutorInv'
<1>. USE DEF Inv, TypeInv
<1>1. "none" \notin Acting
  BY DEF Acting
<1>2. Idle.pc = "idle" /\ Idle.att = NoAttempt
  BY DEF Idle
<1>3. row \in Rows
  BY DEF TypeOK, JournalTypeOK
<1>4. ASSUME NEW h \in Calls, CallShape(h)
      PROVE  ExecutorInv'
  <2>1. /\ Evolves(row, row') /\ \A k \in Calls \ {h} : call'[k] = call[k]
        /\ call'[h].pc # "idle" => call'[h].proc \in Procs
        /\ row'.status \in {"planned", "expired"} => row.status \in {"planned", "expired"}
    BY <1>4 DEF CallShape, Evolves
  <2>2. CASE Leaves(h)
    <3>1. /\ call'[h].pc \in {"idle", "qualify", "query"} /\ call'[h].att = NoAttempt
          /\ row'.status \in {"planned", "expired"} => call'[h].pc # "query"
          /\ req' = req
      BY <2>2 DEF Leaves
    <3>2. ~Begins(h)
      BY <3>1 DEF Begins
    <3>3. row'.status = "applying" => row'.proc \in Procs
      BY <1>4, <3>2 DEF CallShape, ExecutorInv
    <3>. QED
      BY <2>1, <3>1, <3>3 DEF ExecutorInv
  <2>3. CASE Begins(h)
    <3>1. /\ call'[h].pc = "epoch" /\ call'[h].att \in Attempts
          /\ row'.status = "applying" /\ row'.proc \in Procs
          /\ req' = req /\ req.phase = "none"
          /\ \A k \in Calls : call[k].pc \in {"idle", "qualify"}
      BY <2>3 DEF Begins, ExecutorInv
    <3>2. \A k \in Calls : call[k].att = NoAttempt
      BY <3>1 DEF ExecutorInv
    <3>. QED
      BY <2>1, <3>1, <3>2, JournalAssumption DEF ExecutorInv
  <2>4. CASE Sends(h)
    <3>1. /\ call[h].pc = "epoch" /\ call'[h].pc = "waiting"
          /\ call'[h].att = call[h].att /\ row'.status = "applying"
      BY <2>4 DEF Sends
    <3>2. ~Begins(h)
      BY <3>1 DEF Begins
    <3>3. row'.proc \in Procs
      BY <1>4, <3>1, <3>2 DEF CallShape, ExecutorInv
    <3>4. \A k \in Calls \ {h} : call[k].att = NoAttempt /\ call[k].pc # "epoch"
      BY <3>1 DEF ExecutorInv
    <3>. QED
      BY <2>1, <3>1, <3>3, <3>4 DEF ExecutorInv
  <2>. QED
    BY <1>4, <2>2, <2>3, <2>4 DEF CallShape
<1>5. ASSUME NEW h \in Calls, AnswerShape(h)
      PROVE  ExecutorInv'
  <2>1. /\ req' = req /\ row' = row
        /\ \A k \in Calls : call'[k].pc = call[k].pc /\ call'[k].att = call[k].att
                            /\ call'[k].proc = call[k].proc
    BY <1>5 DEF AnswerShape, CallOnly, journalVars, bridgeVars
  <2>. QED
    BY <2>1 DEF ExecutorInv
<1>6. CASE RequestShape
  <2>1. /\ req.phase # "none" /\ row' = row /\ call' = call
    BY <1>1, <1>6 DEF RequestShape, WorldSame, journalVars
  <2>. QED
    BY <2>1 DEF ExecutorInv
<1>7. CASE ProcessShape
  <2>1. /\ Evolves(row, row') /\ \A h \in Calls : call'[h] \in {call[h], Idle}
        /\ row'.status = "applying" => row.status = "applying" /\ row'.proc = row.proc
        /\ row'.status \in {"planned", "expired"} => row.status \in {"planned", "expired"}
        /\ req' = req
    BY <1>7 DEF ProcessShape, Evolves, bridgeVars
  <2>. QED
    BY <1>2, <2>1 DEF ExecutorInv
<1>8. CASE PluginShape
  <2>1. /\ row' = row /\ call' = call
        /\ req'.phase = "none" <=> req.phase = "none"
    BY <1>1, <1>8 DEF PluginShape, journalVars
  <2>. QED
    BY <2>1 DEF ExecutorInv
<1>9. CASE UNCHANGED vars
  BY <1>9 DEF vars, ExecutorInv
<1>. QED
  BY <1>4, <1>5, <1>6, <1>7, <1>8, <1>9 DEF StepKind

LEMMA EffectStep ==
  ASSUME Inv, StepKind
  PROVE  EffectInv'
<1>. USE DEF Inv, TypeInv
<1>1. ASSUME NEW h \in Calls, CallShape(h)
      PROVE  EffectInv'
  <2>1. done' = done
    BY <1>1 DEF CallShape
  <2>2. CASE req' = req
    BY <2>1, <2>2 DEF EffectInv
  <2>3. CASE Sends(h)
    BY <2>1, <2>3 DEF EffectInv, Sends, ExecutorInv
  <2>. QED
    BY <1>1, <2>2, <2>3 DEF CallShape, Leaves, Begins
<1>2. ASSUME NEW h \in Calls, AnswerShape(h)
      PROVE  EffectInv'
  BY <1>2 DEF AnswerShape, CallOnly, bridgeVars, EffectInv
<1>3. CASE RequestShape
  BY <1>3 DEF RequestShape, EffectInv, Acting
<1>4. CASE ProcessShape
  BY <1>4 DEF ProcessShape, bridgeVars, EffectInv
<1>5. CASE PluginShape
  BY <1>5 DEF PluginShape, EffectInv, Acting
<1>6. CASE UNCHANGED vars
  BY <1>6 DEF vars, EffectInv
<1>. QED
  BY <1>1, <1>2, <1>3, <1>4, <1>5, <1>6 DEF StepKind

(* What was proved about the effect stays proved: an answered request is   *)
(* over, and no effect is undone.                                          *)
ProofsKeep ==
  /\ req.phase = "answered" =>
       req'.phase = "answered" /\ req'.answer = req.answer /\ done' = done
  /\ done \subseteq done'

(* The truth of an outcome after the step. *)
TruthfulNext(outcome) ==
  /\ outcome \in {"conflict", "rejected"} => done' = {} /\ req'.phase = "answered"
  /\ outcome = "committed" => done' # {}

LEMMA TruthIsKept ==
  ASSUME ProofsKeep
  PROVE  \A o : Truthful(o) => TruthfulNext(o)
  BY DEF ProofsKeep, Truthful, TruthfulNext

(* What has to be shown of a step. *)
LEMMA EvidenceAfter ==
  ASSUME row'.status # "reviewed_unverified",
         TruthfulNext(row'.status),
         TruthfulNext(entry'.outcome),
         req'.phase = "answered" => TruthfulNext(req'.answer.outcome),
         \A h \in Calls : TruthfulNext(call'[h].answer.outcome)
  PROVE  EvidenceInv'
  BY DEF EvidenceInv, Truthful, TruthfulNext

LEMMA EveryStepKeepsProofs ==
  ASSUME Inv, StepKind
  PROVE  ProofsKeep
<1>1. "answered" \notin Acting
  BY DEF Acting
<1>2. ASSUME NEW h \in Calls, CallShape(h)
      PROVE  ProofsKeep
  BY <1>2 DEF CallShape, Leaves, Begins, Sends, ProofsKeep, Inv, ExecutorInv
<1>3. ASSUME NEW h \in Calls, AnswerShape(h)
      PROVE  ProofsKeep
  BY <1>3 DEF AnswerShape, CallOnly, bridgeVars, ProofsKeep
<1>4. CASE RequestShape
  BY <1>1, <1>4 DEF RequestShape, ProofsKeep
<1>5. CASE ProcessShape
  BY <1>5 DEF ProcessShape, bridgeVars, ProofsKeep
<1>6. CASE PluginShape
  BY <1>1, <1>6 DEF PluginShape, ProofsKeep
<1>7. CASE UNCHANGED vars
  BY <1>7 DEF vars, ProofsKeep
<1>. QED
  BY <1>2, <1>3, <1>4, <1>5, <1>6, <1>7 DEF StepKind

LEMMA EvidenceStep ==
  ASSUME Inv, StepKind
  PROVE  EvidenceInv'
<1>. USE DEF Inv
<1>1. ProofsKeep
  BY EveryStepKeepsProofs
<1>2. \A o : Truthful(o) => TruthfulNext(o)
  BY <1>1, TruthIsKept
<1>3. \A o : o \notin {"conflict", "rejected", "committed"} => TruthfulNext(o)
  BY DEF TruthfulNext
<1>4. /\ req.phase = "answered" => TruthfulNext(req.answer.outcome)
      /\ TruthfulNext(entry.outcome) /\ TruthfulNext(row.status)
      /\ \A h \in Calls : TruthfulNext(call[h].answer.outcome)
      /\ row.status # "reviewed_unverified"
  BY <1>2 DEF EvidenceInv
<1>5. /\ NoReceipt.outcome = "none" /\ InFlight.outcome = "outcome_unknown"
      /\ Reply("pending").outcome = "pending" /\ Idle.answer = Reply("pending")
  BY DEF NoReceipt, InFlight, Observation, Reply, Idle
<1>6. ASSUME NEW h \in Calls, CallShape(h)
      PROVE  EvidenceInv'
  <2>1. call[h].answer.outcome # "reviewed_unverified"
    <3>1. call[h].answer \in Observations \cup Replies
      BY CallStatesAre DEF TypeInv, TypeOK
    <3>. QED
      BY <3>1, RepliesAreReplies DEF Observations, Outcomes, Replies
  <2>2. /\ row'.status \in {row.status, "applying", "outcome_unknown", "expired",
                            call[h].answer.outcome}
        /\ entry' = entry
        /\ call'[h].answer = Reply("pending")
        /\ \A k \in Calls \ {h} : call'[k] = call[k]
    BY <1>6 DEF CallShape
  <2>3. TruthfulNext(row'.status) /\ row'.status # "reviewed_unverified"
    BY <1>2, <1>3, <1>4, <2>1, <2>2
  <2>4. req'.phase = "answered" => req' = req
    BY <1>6 DEF CallShape, Leaves, Begins, Sends
  <2>5. \A k \in Calls : TruthfulNext(call'[k].answer.outcome)
    BY <1>2, <1>3, <1>4, <1>5, <2>2
  <2>. QED
    BY <1>4, <2>2, <2>3, <2>4, <2>5, EvidenceAfter
<1>7. ASSUME NEW h \in Calls, AnswerShape(h)
      PROVE  EvidenceInv'
  <2>1. /\ row' = row /\ entry' = entry /\ req' = req /\ done' = done
        /\ \A k \in Calls \ {h} : call'[k] = call[k]
    BY <1>7 DEF AnswerShape, CallOnly, journalVars, bridgeVars
  <2>2. TruthfulNext(call'[h].answer.outcome)
    BY <1>3, <1>4, <1>7 DEF AnswerShape
  <2>. QED
    BY <1>4, <2>1, <2>2, EvidenceAfter
<1>8. CASE RequestShape
  <2>1. row' = row /\ call' = call /\ req.phase \in Acting
    BY <1>8 DEF RequestShape, WorldSame, journalVars
  <2>2. req'.phase = "answered" => TruthfulNext(req'.answer.outcome)
    <3>. SUFFICES ASSUME req'.phase = "answered"
                  PROVE  TruthfulNext(req'.answer.outcome)
      OBVIOUS
    <3>1. /\ req'.answer.outcome = "committed" => req.phase = "landed"
          /\ req'.answer.outcome \in {"conflict", "rejected"} =>
               req.phase \notin {"running", "landed"}
          /\ done' = done
      BY <1>8 DEF RequestShape, Acting
    <3>2. req'.answer.outcome = "committed" => done' # {}
      BY <3>1 DEF EffectInv
    <3>3. req'.answer.outcome \in {"conflict", "rejected"} => done' = {}
      BY <2>1, <3>1 DEF EffectInv
    <3>. QED
      BY <3>2, <3>3 DEF TruthfulNext
  <2>3. TruthfulNext(entry'.outcome)
    <3>1. CASE entry' \in {entry, InFlight}
      BY <1>2, <1>3, <1>4, <1>5, <3>1
    <3>2. CASE req'.phase = "answered" /\ entry' = req'.answer
      BY <2>2, <3>2
    <3>. QED
      BY <1>8, <3>1, <3>2 DEF RequestShape
  <2>. QED
    BY <1>4, <2>1, <2>2, <2>3, EvidenceAfter
<1>9. CASE ProcessShape
  <2>1. /\ req' = req /\ entry' = entry /\ done' = done
        /\ \A k \in Calls : call'[k] \in {call[k], Idle}
        /\ row'.status \in {row.status, "outcome_unknown", "expired"}
    BY <1>9 DEF ProcessShape, bridgeVars
  <2>. QED
    BY <1>3, <1>4, <1>5, <2>1, EvidenceAfter
<1>10. CASE PluginShape
  <2>1. /\ row' = row /\ call' = call /\ entry' \in {entry, NoReceipt}
        /\ req'.answer = req.answer
        /\ req'.phase = "answered" => req.phase = "answered"
    BY <1>10 DEF PluginShape, journalVars
  <2>2. TruthfulNext(entry'.outcome)
    BY <1>2, <1>3, <1>4, <1>5, <2>1
  <2>. QED
    BY <1>4, <2>1, <2>2, EvidenceAfter
<1>11. CASE UNCHANGED vars
  BY <1>4, <1>11, EvidenceAfter DEF vars
<1>. QED
  BY <1>6, <1>7, <1>8, <1>9, <1>10, <1>11 DEF StepKind

LEMMA InvStep ==
  ASSUME Inv, [Next]_vars
  PROVE  Inv' /\ StepKind
<1>1. StepKind
  BY EveryStepHasAKind DEF Inv
<1>. QED
  BY <1>1, TypeStep, ExecutorStep, EffectStep, EvidenceStep DEF Inv

LEMMA InvHolds == Spec => []Inv
<1>1. Init => Inv
  BY InitInv
<1>2. Inv /\ [Next]_vars => Inv'
  BY InvStep
<1>. QED
  BY <1>1, <1>2, PTL DEF Spec

-----------------------------------------------------------------------------
(* The theorems.                                                           *)

(* Rows, leases, calls, the request, the receipt and the fence keep their  *)
(* types, whatever the calls, the plugin and the environment do.           *)
THEOREM TypeCorrect == Spec => []TypeOK
<1>1. Inv => TypeOK
  BY DEF Inv, TypeInv
<1>. QED
  BY <1>1, InvHolds, PTL

(* Whoever records the refusal or the expiry of a deletion or a move       *)
(* (the executor, or a status call that read a receipt) speaks the truth   *)
(* for good: nothing was done, and no handler is left that could.          *)
THEOREM RefusedPlansAreDead == Spec => []RefusedPlanIsDead
<1>1. Inv => RefusedPlanIsDead
  BY DEF Inv, ExecutorInv, EffectInv, EvidenceInv, Truthful, RefusedPlanIsDead, Acting
<1>. QED
  BY <1>1, InvHolds, PTL

LEMMA ReceiptSteps ==
  ASSUME Inv, Inv', Evolves(row, row'), UNCHANGED done
  PROVE  [Outcome!OutcomeNext]_(Outcome!outcomeVars)
<1>1. row.status \in Statuses /\ row'.status \in Statuses
  BY DEF Evolves, Rows, Inv, TypeInv, TypeOK, JournalTypeOK
<1>2. CASE row.status \in Pending /\ row'.status \in Pending
  BY <1>2 DEF Outcome!outcomeVars
<1>3. CASE row.status \notin Pending
  BY <1>3 DEF Evolves, Outcome!outcomeVars
<1>4. CASE row.status \in Pending /\ row'.status \notin Pending
  <2>1. row'.status \in StableTerminal
    BY <1>1, <1>4 DEF Statuses, Inv, EvidenceInv
  <2>2. row'.status = "committed" => done # {}
    BY DEF Inv, EvidenceInv, Truthful
  <2>3. row'.status = "expired" => done = {}
    BY DEF Inv, ExecutorInv, EffectInv
  <2>. QED
    BY <1>4, <2>1, <2>2, <2>3
    DEF Pending, StableTerminal, Outcome!OutcomeNext, Outcome!Commit,
        Outcome!Refuse, Outcome!Expire, Outcome!Ends
<1>. QED
  BY <1>2, <1>3, <1>4

LEMMA EffectSteps ==
  ASSUME Inv, req.phase \in Acting, UNCHANGED row,
         done' \in {done, done \cup {req.att}}
  PROVE  [Outcome!OutcomeNext]_(Outcome!outcomeVars)
<1>1. row.status \notin {"expired", "reviewed_unverified"}
  BY DEF Inv, ExecutorInv, EvidenceInv, Acting
<1>2. req.att \in Attempts
  BY DEF Inv, TypeInv, ShapeInv, Acting
<1>3. CASE done' = done
  BY <1>3 DEF Outcome!outcomeVars
<1>4. CASE req.att \notin done /\ done' = done \cup {req.att}
  BY <1>1, <1>2, <1>4 DEF Pending, Outcome!OutcomeNext, Outcome!TakeEffect
<1>. QED
  BY <1>3, <1>4

LEMMA OutcomeStep ==
  ASSUME Inv, Inv', StepKind
  PROVE  [Outcome!OutcomeNext]_(Outcome!outcomeVars)
<1>1. Evolves(row, row)
  BY DEF Evolves, Inv, TypeInv, TypeOK, JournalTypeOK
<1>2. ASSUME NEW h \in Calls, CallShape(h)
      PROVE  [Outcome!OutcomeNext]_(Outcome!outcomeVars)
  BY <1>2, ReceiptSteps DEF CallShape
<1>3. ASSUME NEW h \in Calls, AnswerShape(h)
      PROVE  [Outcome!OutcomeNext]_(Outcome!outcomeVars)
  BY <1>1, <1>3, ReceiptSteps DEF AnswerShape, CallOnly, journalVars, bridgeVars
<1>4. CASE RequestShape
  <2>1. req.phase \in Acting /\ UNCHANGED row /\ done' \in {done, done \cup {req.att}}
    BY <1>4 DEF RequestShape, WorldSame, journalVars
  <2>. QED
    BY <2>1, EffectSteps
<1>5. CASE ProcessShape
  BY <1>5, ReceiptSteps DEF ProcessShape, bridgeVars
<1>6. CASE PluginShape
  <2>1. UNCHANGED row
    BY <1>6 DEF PluginShape, journalVars
  <2>2. CASE done' = done
    BY <1>1, <2>1, <2>2, ReceiptSteps
  <2>3. CASE req.phase \in Acting /\ done' \in {done, done \cup {req.att}}
    BY <2>1, <2>3, EffectSteps
  <2>. QED
    BY <1>6, <2>2, <2>3 DEF PluginShape
<1>7. CASE UNCHANGED vars
  BY <1>1, <1>7, ReceiptSteps DEF vars
<1>. QED
  BY <1>2, <1>3, <1>4, <1>5, <1>6, <1>7 DEF StepKind

(* The receipts of deletions and moves are final, a committed plan took    *)
(* effect and an expired one never did, for any number of processes that   *)
(* apply and reconcile the plan.                                           *)
THEOREM NativeEffectsImplementOutcome == Spec => ImplementsOutcome
<1>1. Init => Outcome!OutcomeInit
  BY DEF Init, JournalInit, PlannedRow, Pending, Outcome!OutcomeInit
<1>2. Inv /\ Inv' /\ [Next]_vars => [Outcome!OutcomeNext]_(Outcome!outcomeVars)
  BY InvStep, OutcomeStep
<1>. QED
  BY <1>1, <1>2, InvHolds, PTL DEF Spec, ImplementsOutcome, Outcome!OutcomeSpec

(* The step that takes the plan from its owner, as LiveOwnerKeepsPlan      *)
(* allows it.                                                              *)
OwnerEnds ==
  \/ up'[row.proc] = "down"
  \/ \E h \in Calls :
       /\ call[h] # Idle /\ call'[h] = Idle
       /\ \/ call[h].att = row.owner
          \/ /\ call[h].answer.outcome = row'.status
             /\ row'.status \in {"committed", "conflict"}

LEMMA ReturningCall ==
  ASSUME Inv, NEW h \in Calls, Returns(h), call[h].pc # "idle"
  PROVE  call[h] # Idle /\ call'[h] = Idle
  BY DEF Inv, TypeInv, TypeOK, Returns, Idle

LEMMA OwnershipStep ==
  ASSUME Inv, [Next]_vars, row.status = "applying", lease[row.proc]
  PROVE  row'.owner = row.owner \/ OwnerEnds
<1>1. /\ row \in Rows /\ row.proc \in Procs
      /\ Swept(row) = row /\ Expired(row) = row
      /\ \A cur \in Loads : cur = row
  BY FreshLoads DEF Inv, ExecutorInv, TypeInv, TypeOK, JournalTypeOK
<1>2. ASSUME NEW h \in Calls, NEW p \in Procs, Apply(h, p) \/ Status(h, p)
      PROVE  row' = row
  BY <1>1, <1>2 DEF Apply, Status, StatusOf
<1>3. ASSUME NEW h \in Calls, Unqualified(h) \/ Start(h) \/ StatusFails(h)
      PROVE  row' = row
  BY <1>1, <1>3 DEF Unqualified, Start, StatusFails, StatusOf, MayTransition
<1>4. ASSUME NEW h \in Calls, RecordAndSend(h)
      PROVE  row'.owner = row.owner
  BY <1>1, <1>4 DEF RecordAndSend, StatusOf, Recorded, Rows
<1>5. ASSUME NEW h \in Calls, ApplyFails(h) \/ ApplySettles(h)
      PROVE  row' = row \/ OwnerEnds
  <2>1. PICK next : row' = Transitioned(row, {"applying"}, next, call[h].att)
    BY <1>1, <1>5 DEF ApplyFails, ApplySettles
  <2>2. row' = row \/ row.owner = call[h].att
    BY <1>1, <2>1, TransitionedOwner
  <2>3. call[h] # Idle /\ call'[h] = Idle
    BY <1>5, ReturningCall DEF ApplyFails, ApplySettles, Answered
  <2>. QED
    BY <2>2, <2>3 DEF OwnerEnds
<1>6. ASSUME NEW h \in Calls, StatusReconciles(h)
      PROVE  row' = row \/ OwnerEnds
  <2>1. row' = Reconciled(row, call[h].answer, call[h].owner)
    BY <1>1, <1>6 DEF StatusReconciles
  <2>2. call[h] # Idle /\ call'[h] = Idle
    BY <1>6, ReturningCall DEF StatusReconciles, Answered
  <2>3. CASE call[h].answer.outcome = "committed"
    <3>1. row'.status = "committed"
      BY <1>1, <2>1, <2>3 DEF Reconciled, CommittedOnProof, Released, Rows
    <3>. QED
      BY <2>2, <2>3, <3>1 DEF OwnerEnds
  <2>4. CASE call[h].answer.outcome = "conflict"
    <3>1. row' = Transitioned(row, {"applying", "outcome_unknown"}, "conflict",
                              call[h].owner)
      BY <2>1, <2>4 DEF Reconciled
    <3>2. row' = row \/ row'.status = "conflict"
      BY <1>1, <3>1, TransitionedOwner
    <3>. QED
      BY <2>2, <2>4, <3>2 DEF OwnerEnds
  <2>5. CASE call[h].answer.outcome \notin {"committed", "conflict"}
    BY <2>1, <2>5 DEF Reconciled
  <2>. QED
    BY <2>3, <2>4, <2>5
<1>7. ASSUME NEW h \in Calls, CallStep(h)
      PROVE  row'.owner = row.owner \/ OwnerEnds
  BY <1>3, <1>4, <1>5, <1>6, <1>7 DEF CallStep
<1>8. ASSUME NEW h \in Calls, Answer(h)
      PROVE  row' = row
  BY <1>8, AnswersShape DEF Inv, AnswerShape, CallOnly, journalVars
<1>9. CASE RequestStep
  BY <1>9, RequestStepShape DEF Inv, RequestShape, WorldSame, journalVars
<1>10. CASE Plugin
  BY <1>10, PluginStepShape DEF Inv, TypeInv, PluginShape, journalVars
<1>11. CASE Process
  <2>1. ASSUME NEW p \in Procs, Launch(p)
        PROVE  row' = row
    BY <1>1, <2>1 DEF Launch, StartRuntime
  <2>2. ASSUME NEW p \in Procs, Stop(p)
        PROVE  row' = row \/ OwnerEnds
    <3>1. /\ row' = row \/ row.proc = p
          /\ up' = [up EXCEPT ![p] = "down"]
      BY <2>2 DEF Stop, CloseRuntime
    <3>2. up'[p] = "down"
      BY <3>1 DEF Inv, TypeInv, TypeOK, JournalTypeOK
    <3>. QED
      BY <3>1, <3>2 DEF OwnerEnds
  <2>3. ASSUME NEW p \in Procs, Heartbeat(p) \/ Lapse(p) \/ Crash(p)
        PROVE  row' = row
    BY <2>3 DEF Heartbeat, Lapse, Crash, RenewLease, LeaseLapses, CrashRuntime
  <2>. QED
    BY <1>11, <2>1, <2>2, <2>3 DEF Process
<1>12. CASE UNCHANGED vars
  BY <1>12 DEF vars
<1>. QED
  BY <1>2, <1>7, <1>8, <1>9, <1>10, <1>11, <1>12
  DEF Next, Environment, Process, Plugin

(* An executor whose lease is fresh loses its plan to nobody: only its own *)
(* call or the end of its process interrupts it, and another call records  *)
(* at most the outcome that a receipt proves.                              *)
THEOREM OwnersKeepPlans == Spec => LiveOwnerKeepsPlan
<1>1. Inv /\ [Next]_vars =>
        [/\ row.status = "applying"
         /\ lease[row.proc]
         /\ row'.owner # row.owner
         => \/ up'[row.proc] = "down"
            \/ \E h \in Calls :
                 /\ call[h] # Idle /\ call'[h] = Idle
                 /\ \/ call[h].att = row.owner
                    \/ call[h].answer.outcome = row'.status
                         /\ row'.status \in {"committed", "conflict"}]_vars
  BY OwnershipStep DEF OwnerEnds
<1>. QED
  BY <1>1, InvHolds, PTL DEF Spec, LiveOwnerKeepsPlan

=============================================================================

------------------------- MODULE GovernedWriteProofs -------------------------
(***************************************************************************)
(* Proofs about GovernedWrite, for any number of calls, processes,         *)
(* attempts and epochs and for any choice of faults.                       *)
(***************************************************************************)
EXTENDS GovernedWrite, ContractProofs,
        FiniteSetTheorems, TLAPS

-----------------------------------------------------------------------------
(* Rows. *)

LEMMA ObserverRowsAreRows ==
  ASSUME row \in Rows, NEW seen, NEW answer
  PROVE  ObserverRows(seen, answer) \subseteq Rows
<1>1. Loads \subseteq Rows
  BY LoadsAreRows DEF Loads
<1>2. "committed" \in Statuses /\ "conflict" \in Statuses
  BY DEF Statuses, StableTerminal
<1>3. {CommittedOnProof(cur) : cur \in Loads} \subseteq Rows
  BY <1>1, <1>2, TransitionsAreRows
<1>4. \A E : {Transitioned(cur, E, "committed", NoAttempt) : cur \in Loads} \subseteq Rows
  BY <1>1, <1>2, TransitionsAreRows
<1>5. \A E : {Transitioned(cur, E, "conflict", NoAttempt) : cur \in Loads} \subseteq Rows
  BY <1>1, <1>2, TransitionsAreRows
<1>. QED
  BY <1>3, <1>4, <1>5 DEF ObserverRows

-----------------------------------------------------------------------------
(* Calls. *)

LEMMA IdleIsCallState == Idle \in CallStates
  BY DEF Idle, CallStates, Phases, Statuses, Pending, Answers, PlannedRow, Rows

LEMMA NewCallStates ==
  /\ \A p \in Procs \cup {NoProc}, a \in Attempts, b \in BOOLEAN :
       Executing(p, a, b) \in CallStates
  /\ \A p \in Procs, ph \in Phases, s \in Statuses : Watching(p, ph, s) \in CallStates
<1>1. "status" \in Phases
  BY DEF Phases
<1>. QED
  BY <1>1, IdleIsCallState DEF Executing, Watching, CallStates

LEMMA CallUpdates ==
  ASSUME call \in [Calls -> CallStates], NEW h \in Calls
  PROVE  /\ Returns(h) => call' \in [Calls -> CallStates]
         /\ \A ph \in Phases : Continues(h, ph) => call' \in [Calls -> CallStates]
         /\ \A c \in CallStates :
              call' = [call EXCEPT ![h] = c] => call' \in [Calls -> CallStates]
<1>1. "pending" \in Answers
  BY DEF Answers
<1>2. \A ph \in Phases : [call[h] EXCEPT !.pc = ph, !.answer = "pending"] \in CallStates
  BY <1>1 DEF CallStates
<1>. QED
  BY <1>2, IdleIsCallState DEF Returns, Continues

-----------------------------------------------------------------------------
(* Type correctness. *)

LEMMA InitTypes == Init => TypeOK
<1>. SUFFICES ASSUME Init PROVE TypeOK
  OBVIOUS
<1>1. PlannedRow \in Rows
  BY DEF PlannedRow, Rows, Statuses, Pending
<1>2. JournalTypeOK
  BY <1>1 DEF Init, JournalInit, JournalTypeOK
<1>3. FenceTypeOK
  BY DEF Init, FenceInit, FenceTypeOK
<1>. QED
  BY <1>2, <1>3, IdleIsCallState
  DEF Init, TypeOK, RequestStates, Contents

(* A step of a call that touches nothing but the row and the call.         *)
LEMMA JournalOnlyTypes ==
  ASSUME TypeOK, JournalOnly, row' \in Rows, call' \in [Calls -> CallStates]
  PROVE  TypeOK'
  BY DEF TypeOK, JournalOnly, JournalTypeOK, FenceTypeOK, fenceVars, bridgeVars

(* A step of the Bridge that touches neither the journal nor the calls.    *)
LEMMA BridgeOnlyTypes ==
  ASSUME TypeOK, UNCHANGED <<journalVars, call>>, FenceTypeOK',
         req' \in [Attempts -> RequestStates], UNCHANGED reqEpoch,
         allow' \in BOOLEAN, target' \in {"sealed", "another"},
         note' \in Contents, written' \subseteq Attempts
  PROVE  TypeOK'
  BY DEF TypeOK, JournalTypeOK, journalVars

-----------------------------------------------------------------------------
(* What an observer makes of a row.                                        *)

LEMMA ObserversEvolve ==
  ASSUME row \in Rows, NEW seen, NEW answer, NEW s \in ObserverRows(seen, answer)
  PROVE  Evolves(row, s) /\ (answer # "after" => Undecided(row, s))
<1>1. \A cur \in Loads : cur \in Rows /\ Evolves(row, cur) /\ Undecided(row, cur)
  BY LoadsAreRows, LoadsEvolve DEF Loads
<1>2. Evolves(row, row) /\ Undecided(row, row)
  BY DEF Evolves, Undecided
<1>3. ASSUME NEW cur \in Loads
      PROVE  Evolves(row, CommittedOnProof(cur))
  BY <1>1, CommitsEvolve, EvolvesIsTransitive
<1>4. ASSUME NEW cur \in Loads, NEW next \in {"committed", "conflict"}
      PROVE  LET t == Transitioned(cur, {"outcome_unknown"}, next, NoAttempt)
             IN  Evolves(row, t) /\ (next # "committed" => Undecided(row, t))
  <2>. DEFINE t == Transitioned(cur, {"outcome_unknown"}, next, NoAttempt)
  <2>1. Evolves(cur, t) /\ (next # "committed" => Undecided(cur, t))
    BY <1>1, TransitionsEvolve
  <2>. QED
    BY <1>1, <2>1, EvolvesIsTransitive DEF Undecided
<1>. QED
  BY <1>2, <1>3, <1>4 DEF ObserverRows

LEMMA ObserversNeverReview ==
  ASSUME row \in Rows, NEW seen, NEW answer, NEW s \in ObserverRows(seen, answer),
         s.status = "reviewed_unverified"
  PROVE  row.status = "reviewed_unverified"
<1>1. \A cur \in Loads : cur \in Rows /\ Undecided(row, cur)
  BY LoadsAreRows, LoadsEvolve DEF Loads
<1>2. \A cur \in Loads :
        /\ CommittedOnProof(cur).status \in {cur.status, "committed"}
        /\ \A next \in {"committed", "conflict"} :
             Transitioned(cur, {"outcome_unknown"}, next, NoAttempt).status
               \in {cur.status, next}
  BY <1>1 DEF Transitioned, CommittedOnProof, Released, Rows
<1>. QED
  BY <1>1, <1>2 DEF ObserverRows, Undecided

-----------------------------------------------------------------------------
(* What a step of a call may do: to the row, to the call, to the others.   *)

(* The token an executor is about to use carries a real epoch.             *)
EpochKnown ==
  /\ \A h \in Calls :
       \/ call[h].pc = "preflight"
       \/ call[h].pc = "status" /\ call[h].answer = "ok"
       => call[h].epoch # NoEpoch
  /\ \A a \in Attempts : req[a] # "none" => reqEpoch[a] # NoEpoch

TypeInv == TypeOK /\ EpochKnown

(* The call moves on without becoming an executor, or returns.             *)
Proceeds(h) ==
  /\ call'[h].pc \notin {"status", "preflight"}
  /\ call'[h].answer = "pending"
  /\ call'[h].att \in {call[h].att, NoAttempt}
  /\ call'[h].pc = "closeCommit" =>
       /\ CloseResolves(h)
       /\ call'[h].observed = call[h].observed
       /\ call[h].observed.tokens \cap running = {}

(* The call becomes the executor of a fresh attempt. *)
Begins(h) ==
  /\ call'[h].pc = "status"
  /\ call'[h].answer = "pending"
  /\ call'[h].att \in Attempts \ row.used
  /\ row'.used = row.used \cup {call'[h].att}

(* The executor has recorded its token and reads the note. *)
Records(h) ==
  /\ call[h].pc = "status"
  /\ call[h].epoch # NoEpoch
  /\ call'[h].pc = "preflight"
  /\ call'[h].answer = "pending"
  /\ call'[h].att = call[h].att
  /\ call'[h].epoch = call[h].epoch
  /\ <<call[h].epoch, call[h].att>> \in row'.tokens

CallMoves(h) ==
  /\ call' \in [Calls -> CallStates]
  /\ \A k \in Calls \ {h} : call'[k] = call[k]
  /\ Proceeds(h) \/ Begins(h) \/ Records(h) \/ call'[h] = call[h]

(* A commit is decided on an answer that proves the effect, a closure on   *)
(* the resolved row itself.                                                *)
Decides(h) ==
  /\ row'.status = "committed" =>
       \/ row.status = "committed"
       \/ call[h].answer = "after"
       \/ call[h].att \in Attempts /\ req[call[h].att] = "ok"
  /\ row'.status = "reviewed_unverified" =>
       \/ row.status = "reviewed_unverified"
       \/ /\ call[h].pc = "closeCommit"
          /\ row = call[h].observed
          /\ row'.tokens = row.tokens

Shape(h) == Evolves(row, row') /\ CallMoves(h) /\ Decides(h)

LEMMA UndecidedDecides ==
  ASSUME NEW h, Undecided(row, row')
  PROVE  Decides(h)
  BY DEF Undecided, Decides

LEMMA ReturnsMoves ==
  ASSUME TypeOK, NEW h \in Calls, Returns(h)
  PROVE  CallMoves(h)
<1>1. call' \in [Calls -> CallStates]
  BY CallUpdates DEF TypeOK
<1>2. call'[h] = Idle /\ \A k \in Calls \ {h} : call'[k] = call[k]
  BY DEF TypeOK, Returns
<1>. QED
  BY <1>1, <1>2 DEF CallMoves, Proceeds, Idle

LEMMA ContinuesMoves ==
  ASSUME TypeOK, NEW h \in Calls,
         NEW ph \in {"conflict", "error", "recheck", "waiting"}, Continues(h, ph)
  PROVE  CallMoves(h)
<1>1. ph \in Phases
  BY DEF Phases, ReadPhases
<1>2. call' \in [Calls -> CallStates]
  BY <1>1, CallUpdates DEF TypeOK
<1>3. call'[h] = [call[h] EXCEPT !.pc = ph, !.answer = "pending"]
      /\ \A k \in Calls \ {h} : call'[k] = call[k]
  BY DEF TypeOK, Continues
<1>4. call'[h].pc = ph /\ call'[h].answer = "pending" /\ call'[h].att = call[h].att
  BY <1>3 DEF TypeOK, CallStates
<1>. QED
  BY <1>2, <1>3, <1>4 DEF CallMoves, Proceeds

LEMMA LeaveApplyingShape ==
  ASSUME TypeOK, NEW h \in Calls,
         NEW s \in {"committed", "conflict", "rejected", "outcome_unknown"},
         LeaveApplying(h, s),
         s = "committed" => call[h].answer = "after" \/ req[call[h].att] = "ok"
  PROVE  Shape(h)
<1>1. PICK cur \in Loads : row' = Transitioned(cur, {"applying"}, s, call[h].att)
  BY DEF LeaveApplying
<1>2. row \in Rows
  BY DEF TypeOK, JournalTypeOK
<1>3. cur \in Rows /\ Evolves(row, cur) /\ Undecided(row, cur)
  BY <1>2, LoadsAreRows, LoadsEvolve DEF Loads
<1>4. Evolves(cur, row') /\ (s # "committed" => Undecided(cur, row'))
  BY <1>1, <1>3, TransitionsEvolve
<1>5. Evolves(row, row')
  BY <1>3, <1>4, EvolvesIsTransitive
<1>6. row'.status \in {cur.status, s}
  BY <1>1, <1>3 DEF Transitioned, Released, Rows
<1>7. Decides(h)
  <2>1. call[h].att \in Attempts \cup {NoAttempt}
    BY DEF TypeOK, CallStates
  <2>. QED
    BY <1>1, <1>3, <1>4, <1>6, <2>1 DEF Decides, Undecided, Transitioned, MayTransition
<1>. QED
  BY <1>5, <1>7, ReturnsMoves DEF Shape, LeaveApplying

LEMMA EntryShape ==
  ASSUME TypeOK, NEW h \in Calls, NEW p \in Procs,
         Apply(h, p) \/ Status(h, p) \/ Recover(h, p) \/ Close(h, p)
  PROVE  Shape(h) /\ JournalOnly
<1>1. row \in Rows /\ call \in [Calls -> CallStates]
  BY DEF TypeOK, JournalTypeOK
<1>2. \A cur \in Loads : cur \in Rows /\ Evolves(row, cur) /\ Undecided(row, cur)
  BY <1>1, LoadsAreRows, LoadsEvolve DEF Loads
<1>3. \A cur \in Loads : cur.status \in Statuses
  BY <1>2 DEF Rows
<1>4. ASSUME UNCHANGED call
      PROVE  CallMoves(h)
  BY <1>1, <1>4 DEF CallMoves
<1>5. ASSUME NEW ph \in {"observe", "recover", "closeObserve"}, NEW s \in Statuses,
             call' = [call EXCEPT ![h] = Watching(p, ph, s)]
      PROVE  CallMoves(h)
  <2>1. ph \in Phases
    BY DEF Phases, ReadPhases
  <2>2. call' \in [Calls -> CallStates]
    BY <1>1, <1>5, <2>1, NewCallStates, CallUpdates
  <2>3. call'[h] = Watching(p, ph, s) /\ \A k \in Calls \ {h} : call'[k] = call[k]
    BY <1>1, <1>5
  <2>4. call'[h].pc = ph /\ call'[h].answer = "pending" /\ call'[h].att = NoAttempt
    BY <2>3 DEF Watching, Idle
  <2>. QED
    BY <2>2, <2>3, <2>4 DEF CallMoves, Proceeds
<1>6. ASSUME NEW ph \in {"observe", "recover", "closeObserve"}, Inquire(h, p, ph)
      PROVE  Shape(h) /\ JournalOnly
  <2>1. PICK cur \in Loads :
          /\ row' = cur
          /\ \/ UNCHANGED call
             \/ call' = [call EXCEPT ![h] = Watching(p, ph, cur.status)]
    BY <1>6 DEF Inquire
  <2>. QED
    BY <1>2, <1>3, <1>4, <1>5, <1>6, <2>1, UndecidedDecides DEF Shape, Inquire
<1>7. ASSUME Apply(h, p)
      PROVE  Shape(h) /\ JournalOnly
  <2>1. PICK cur \in Loads :
          \/ /\ cur.status = "planned"
             /\ \E a \in FreshAttempts(cur) :
                  /\ row' = Started(cur, p, a)
                  /\ call' = [call EXCEPT ![h] = Executing(p, a, FALSE)]
          \/ /\ row' = cur
             /\ \/ UNCHANGED call
                \/ call' = [call EXCEPT ![h] = Watching(p, "observe", cur.status)]
    BY <1>7 DEF Apply
  <2>2. CASE /\ row' = cur
             /\ \/ UNCHANGED call
                \/ call' = [call EXCEPT ![h] = Watching(p, "observe", cur.status)]
    BY <1>2, <1>3, <1>4, <1>5, <1>7, <2>2, UndecidedDecides DEF Shape, Apply
  <2>3. ASSUME cur.status = "planned", NEW a \in FreshAttempts(cur),
               row' = Started(cur, p, a),
               call' = [call EXCEPT ![h] = Executing(p, a, FALSE)]
        PROVE  Shape(h) /\ JournalOnly
    <3>1. /\ Evolves(cur, row') /\ Undecided(cur, row')
          /\ row'.used = cur.used \cup {a}
      BY <1>2, <2>3, StartsEvolve
    <3>2. Evolves(row, row') /\ Undecided(row, row')
      BY <1>2, <3>1, EvolvesIsTransitive DEF Undecided
    <3>3. cur = row
      BY <1>2, <2>3 DEF Evolves
    <3>4. call' \in [Calls -> CallStates]
      BY <1>1, <2>3, NewCallStates, CallUpdates DEF FreshAttempts
    <3>5. call'[h] = Executing(p, a, FALSE) /\ \A k \in Calls \ {h} : call'[k] = call[k]
      BY <1>1, <2>3
    <3>6. call'[h].pc = "status" /\ call'[h].answer = "pending" /\ call'[h].att = a
      BY <3>5 DEF Executing, Idle
    <3>7. CallMoves(h)
      BY <2>3, <3>1, <3>3, <3>4, <3>5, <3>6 DEF CallMoves, Begins, FreshAttempts
    <3>. QED
      BY <1>7, <3>2, <3>7, UndecidedDecides DEF Shape, Apply
  <2>. QED
    BY <2>1, <2>2, <2>3
<1>. QED
  BY <1>6, <1>7 DEF Status, Recover, Close

LEMMA CallStepShape ==
  ASSUME TypeInv, NEW h \in Calls, CallStep(h)
  PROVE  Shape(h)
<1>. USE DEF TypeInv
<1>1. row \in Rows /\ call \in [Calls -> CallStates] /\ call[h] \in CallStates
  BY DEF TypeOK, JournalTypeOK
<1>2. \A cur \in Loads : cur \in Rows /\ Evolves(row, cur) /\ Undecided(row, cur)
  BY <1>1, LoadsAreRows, LoadsEvolve DEF Loads
<1>3. /\ call[h].epoch \in Epochs \cup {NoEpoch}
      /\ call[h].att \in Attempts \cup {NoAttempt}
      /\ call[h].observed \in Rows
  BY <1>1 DEF CallStates
<1>4. Evolves(row, row) /\ Undecided(row, row)
  BY <1>1 DEF Evolves, Undecided
<1>5. CASE \/ StatusFailed(h) \/ StatusRefuses(h) \/ AttemptLimitReached(h)
           \/ PreflightFailed(h) \/ PreflightConflicts(h) \/ CasForbidden(h)
  BY <1>5, LeaveApplyingShape
  DEF StatusFailed, StatusRefuses, AttemptLimitReached, PreflightFailed,
      PreflightConflicts, CasForbidden
<1>6. CASE CasCommits(h)
  BY <1>6, LeaveApplyingShape DEF CasCommits
<1>7. CASE ReconcileConflict(h) \/ ReconcileError(h)
  BY <1>7, LeaveApplyingShape
  DEF ReconcileConflict, ReconcileError, ConflictOutcome, ErrorOutcome
<1>8. CASE RecordAttempt(h)
  <2>. USE <1>8
  <2>1. CASE \E cur \in Loads : row' = cur /\ Returns(h)
    BY <1>2, <2>1, UndecidedDecides, ReturnsMoves DEF Shape
  <2>2. ASSUME NEW cur \in Loads, MayRecord(cur, call[h].att),
               row' = Recorded(cur, call[h].epoch, call[h].att),
               Continues(h, "preflight")
        PROVE  Shape(h)
    <3>1. call[h].att \in Attempts /\ cur.status = "applying"
      BY <1>3, <2>2 DEF MayRecord
    <3>2. call[h].pc = "status" /\ call[h].epoch # NoEpoch /\ call[h].epoch \in Epochs
      BY <1>3 DEF RecordAttempt, Answered, EpochKnown
    <3>3. /\ Evolves(cur, row') /\ Undecided(cur, row')
          /\ row'.tokens = cur.tokens \cup {<<call[h].epoch, call[h].att>>}
      BY <1>2, <2>2, <3>1, <3>2, RecordsEvolve
    <3>4. Evolves(row, row') /\ Undecided(row, row')
      BY <1>2, <3>3, EvolvesIsTransitive DEF Undecided
    <3>5. call'[h] = [call[h] EXCEPT !.pc = "preflight", !.answer = "pending"]
          /\ \A k \in Calls \ {h} : call'[k] = call[k]
      BY <1>1, <2>2 DEF Continues
    <3>6. /\ call'[h].pc = "preflight" /\ call'[h].answer = "pending"
          /\ call'[h].att = call[h].att /\ call'[h].epoch = call[h].epoch
      BY <1>1, <3>5 DEF CallStates
    <3>7. call' \in [Calls -> CallStates]
      BY <1>1, <2>2, CallUpdates DEF Phases, ReadPhases
    <3>. QED
      BY <3>2, <3>3, <3>4, <3>5, <3>6, <3>7, UndecidedDecides
      DEF Shape, CallMoves, Records
  <2>. QED
    BY <2>1, <2>2 DEF RecordAttempt
<1>9. CASE Dispatch(h) \/ CasConflicts(h) \/ CasErrs(h)
  <2>1. row' = row
    BY <1>9 DEF Dispatch, CasConflicts, CasErrs, journalVars
  <2>2. CallMoves(h)
    BY <1>9, ContinuesMoves DEF Dispatch, CasConflicts, CasErrs
  <2>. QED
    BY <1>4, <2>1, <2>2, UndecidedDecides DEF Shape
<1>10. CASE Observe(h) \/ RecoverReconciles(h) \/ RecoverSettles(h)
  <2>1. PICK seen, answer : /\ row' \in ObserverRows(seen, answer)
                            /\ answer = call[h].answer
    BY <1>10 DEF Observe, RecoverReconciles, RecoverSettles
  <2>2. Evolves(row, row') /\ (answer # "after" => Undecided(row, row'))
    BY <1>1, <2>1, ObserversEvolve
  <2>3. Decides(h)
    <3>1. CASE answer # "after"
      BY <2>2, <3>1, UndecidedDecides
    <3>2. CASE answer = "after"
      BY <1>1, <2>1, <3>2, ObserversNeverReview DEF Decides
    <3>. QED
      BY <3>1, <3>2
  <2>4. CallMoves(h)
    BY <1>10, ReturnsMoves, ContinuesMoves DEF Observe, RecoverReconciles, RecoverSettles
  <2>. QED
    BY <2>2, <2>3, <2>4 DEF Shape
<1>11. CASE RecoverStarts(h)
  <2>1. CASE \E cur \in Loads : row' = cur /\ Returns(h)
    BY <1>2, <2>1, UndecidedDecides, ReturnsMoves DEF Shape
  <2>2. ASSUME NEW cur \in Loads, cur.status = "outcome_unknown",
               NEW a \in FreshAttempts(cur),
               row' = Started(cur, call[h].proc, a),
               call' = [call EXCEPT ![h] = Executing(call[h].proc, a, TRUE)]
        PROVE  Shape(h)
    <3>1. cur.used = row.used
      BY <1>1, LoadsEvolve DEF Loads
    <3>2. call[h].proc \in Procs \cup {NoProc} /\ a \in Attempts \ row.used
      BY <1>1, <3>1 DEF CallStates, FreshAttempts
    <3>3. /\ Evolves(cur, row') /\ Undecided(cur, row')
          /\ row'.used = cur.used \cup {a}
      BY <1>2, <2>2, <3>2, StartsEvolve
    <3>4. Evolves(row, row') /\ Undecided(row, row')
      BY <1>2, <3>3, EvolvesIsTransitive DEF Undecided
    <3>5. Executing(call[h].proc, a, TRUE) \in CallStates
      BY <3>2, NewCallStates
    <3>6. call' \in [Calls -> CallStates]
      BY <1>1, <2>2, <3>5, CallUpdates
    <3>7. /\ call'[h] = Executing(call[h].proc, a, TRUE)
          /\ \A k \in Calls \ {h} : call'[k] = call[k]
      BY <1>1, <2>2
    <3>8. call'[h].pc = "status" /\ call'[h].answer = "pending" /\ call'[h].att = a
      BY <3>7 DEF Executing, Idle
    <3>9. CallMoves(h)
      BY <3>1, <3>2, <3>3, <3>6, <3>7, <3>8 DEF CallMoves, Begins
    <3>. QED
      BY <3>4, <3>9, UndecidedDecides DEF Shape
  <2>. QED
    BY <1>11, <2>1, <2>2 DEF RecoverStarts
<1>12. CASE CloseReconciles(h)
  <2>1. PICK r \in ObserverRows(call[h].seen, call[h].answer) :
          \E cur \in LoadsOf(r) :
            /\ row' = cur
            /\ call' = IF cur.status = "outcome_unknown"
                       THEN [call EXCEPT ![h].pc = "closeResolve",
                                         ![h].answer = "pending",
                                         ![h].observed = cur]
                       ELSE [call EXCEPT ![h] = Idle]
    BY <1>12 DEF CloseReconciles
  <2>2. r \in Rows /\ Evolves(row, r) /\ (call[h].answer # "after" => Undecided(row, r))
    BY <1>1, <2>1, ObserversEvolve DEF Evolves
  <2>3. row' \in Rows /\ Evolves(r, row') /\ Undecided(r, row')
    BY <2>1, <2>2, LoadsEvolve DEF Evolves
  <2>4. Evolves(row, row')
    BY <2>2, <2>3, EvolvesIsTransitive
  <2>5. Decides(h)
    <3>1. r.status = "reviewed_unverified" => row.status = "reviewed_unverified"
      BY <1>1, <2>1, ObserversNeverReview
    <3>. QED
      BY <2>2, <2>3, <3>1 DEF Decides, Undecided
  <2>6. CallMoves(h)
    <3>1. CASE call' = [call EXCEPT ![h] = Idle]
      BY <3>1, ReturnsMoves DEF Returns
    <3>2. CASE call' = [call EXCEPT ![h].pc = "closeResolve",
                                    ![h].answer = "pending",
                                    ![h].observed = row']
      <4>1. call'[h] = [call[h] EXCEPT !.pc = "closeResolve", !.answer = "pending",
                                       !.observed = row']
            /\ \A k \in Calls \ {h} : call'[k] = call[k]
        BY <1>1, <3>2
      <4>2. [call[h] EXCEPT !.pc = "closeResolve", !.answer = "pending",
                            !.observed = row'] \in CallStates
        BY <1>1, <2>3 DEF CallStates, Phases, Answers
      <4>3. call' \in [Calls -> CallStates]
        BY <1>1, <3>2, <4>2
      <4>4. /\ call'[h].pc = "closeResolve" /\ call'[h].answer = "pending"
            /\ call'[h].att = call[h].att
        BY <1>1, <4>1 DEF CallStates
      <4>. QED
        BY <4>1, <4>3, <4>4 DEF CallMoves, Proceeds
    <3>. QED
      BY <2>1, <3>1, <3>2
  <2>. QED
    BY <2>4, <2>5, <2>6 DEF Shape
<1>13. CASE CloseResolves(h)
  <2>1. row' = row
    BY <1>13 DEF CloseResolves, journalVars
  <2>2. CASE Returns(h)
    BY <1>4, <2>1, <2>2, ReturnsMoves, UndecidedDecides DEF Shape
  <2>3. CASE call[h].observed.tokens \cap running = {} /\ Continues(h, "closeCommit")
    <3>1. call'[h] = [call[h] EXCEPT !.pc = "closeCommit", !.answer = "pending"]
          /\ \A k \in Calls \ {h} : call'[k] = call[k]
      BY <1>1, <2>3 DEF Continues
    <3>2. /\ call'[h].pc = "closeCommit" /\ call'[h].answer = "pending"
          /\ call'[h].att = call[h].att /\ call'[h].observed = call[h].observed
      BY <1>1, <3>1 DEF CallStates
    <3>3. call' \in [Calls -> CallStates]
      BY <1>1, <2>3, CallUpdates DEF Phases
    <3>4. CallMoves(h)
      BY <1>13, <2>3, <3>1, <3>2, <3>3 DEF CallMoves, Proceeds
    <3>. QED
      BY <1>4, <2>1, <3>4, UndecidedDecides DEF Shape
  <2>. QED
    BY <1>13, <2>2, <2>3 DEF CloseResolves
<1>14. CASE CloseRefused(h)
  BY <1>4, <1>14, ReturnsMoves, UndecidedDecides DEF CloseRefused, Shape
<1>15. CASE CloseCommits(h)
  <2>1. CallMoves(h)
    BY <1>15, ReturnsMoves DEF CloseCommits
  <2>2. CASE row' \in Loads
    BY <1>2, <2>1, <2>2, UndecidedDecides DEF Shape
  <2>3. CASE MayClose(call[h].observed) /\ row' = Released(row, "reviewed_unverified")
    <3>1. row' \in Rows
      BY <1>1, <2>3, RowOperators DEF Statuses
    <3>2. row.status = "outcome_unknown" /\ row = call[h].observed
      BY <2>3 DEF MayClose
    <3>3. row'.status = "reviewed_unverified" /\ row'.tokens = row.tokens
          /\ row'.used = row.used
      BY <1>1, <2>3 DEF Released, Rows
    <3>. QED
      BY <1>15, <2>1, <3>1, <3>2, <3>3
      DEF Shape, Evolves, Decides, CloseCommits, Pending
  <2>. QED
    BY <1>15, <2>2, <2>3 DEF CloseCommits
<1>. QED
  BY <1>5, <1>6, <1>7, <1>8, <1>9, <1>10, <1>11, <1>12, <1>13, <1>14, <1>15
  DEF CallStep

-----------------------------------------------------------------------------
(* The kinds of steps of the system. *)

(* A call runs: entry of a tool, or the code after an await. *)
CallKind(h) ==
  /\ Shape(h)
  /\ UNCHANGED <<up, lease, allow, target, note, written>>
  /\ UNCHANGED fenceVars \/ CloseResolves(h)
  /\ UNCHANGED <<req, reqEpoch>> \/ Dispatch(h)

(* The answer of a read or of a status request reaches a call. *)
AnswerKind(h) ==
  /\ UNCHANGED <<journalVars, fenceVars, bridgeVars>>
  /\ call' \in [Calls -> CallStates]
  /\ \A k \in Calls \ {h} : call'[k] = call[k]
  /\ call'[h].pc = call[h].pc
  /\ call'[h].att = call[h].att
  /\ call'[h].observed = call[h].observed
  /\ call'[h].pc = "preflight" => call'[h].epoch = call[h].epoch
  /\ call'[h].answer = "ok" => call'[h].epoch # NoEpoch
  /\ call'[h].answer = "after" => note = "after"

(* A process starts, renews or loses its lease, stops or crashes. *)
ProcessKind ==
  /\ UNCHANGED <<fenceVars, bridgeVars>>
  /\ JournalTypeOK'
  /\ Evolves(row, row') /\ Undecided(row, row')
  /\ call' \in [Calls -> CallStates]
  /\ \A k \in Calls : call'[k] \in {call[k], Idle}

(* The plugin is unloaded or loaded. *)
PluginKind ==
  /\ UNCHANGED <<journalVars, call, bridgeVars, running>>
  /\ FenceNext

(* A setting, the target or the note changes by another hand. *)
WorldKind ==
  /\ UNCHANGED <<journalVars, fenceVars, call, req, reqEpoch, written>>
  /\ allow' \in BOOLEAN /\ target' \in {"sealed", "another"}
  /\ note' \in {note, "before", "other"}

LEMMA CallStepFrame ==
  ASSUME TypeInv, NEW h \in Calls, CallStep(h)
  PROVE  CallKind(h)
<1>1. Shape(h)
  BY CallStepShape
<1>2. CASE Dispatch(h)
  BY <1>1, <1>2 DEF Dispatch, CallKind, journalVars
<1>3. CASE CloseResolves(h)
  BY <1>1, <1>3 DEF CloseResolves, CallKind, journalVars, bridgeVars
<1>4. CASE JournalOnly
  BY <1>1, <1>4 DEF JournalOnly, CallKind, bridgeVars
<1>5. CASE \E s : LeaveApplying(h, s)
  BY <1>4, <1>5 DEF LeaveApplying
<1>. QED
  BY <1>2, <1>3, <1>4, <1>5
  DEF CallStep, StatusFailed, StatusRefuses, RecordAttempt, AttemptLimitReached,
      PreflightFailed, PreflightConflicts, CasCommits, CasForbidden, CasConflicts,
      CasErrs, ReconcileConflict, ReconcileError, Observe, RecoverReconciles,
      RecoverSettles, RecoverStarts, CloseReconciles, CloseRefused, CloseCommits

LEMMA AnswerFrame ==
  ASSUME TypeOK, NEW h \in Calls, Answer(h)
  PROVE  AnswerKind(h)
<1>1. call \in [Calls -> CallStates] /\ call[h] \in CallStates
  BY DEF TypeOK
<1>2. live \in Epochs \cup {NoEpoch} /\ note \in Contents
  BY DEF TypeOK, FenceTypeOK
<1>3. CASE BridgeReads(h)
  <2>. DEFINE ans == IF target = "sealed" THEN note ELSE "elsewhere"
  <2>1. /\ call'[h] = [call[h] EXCEPT !.answer = ans]
        /\ \A k \in Calls \ {h} : call'[k] = call[k]
    BY <1>1, <1>3 DEF BridgeReads
  <2>2. [call[h] EXCEPT !.answer = ans] \in CallStates
    BY <1>1, <1>2 DEF CallStates, Answers
  <2>3. call' \in [Calls -> CallStates]
    BY <1>1, <1>3, <2>2 DEF BridgeReads
  <2>4. ans # "ok" /\ (ans = "after" => note = "after")
    BY <1>2 DEF Contents
  <2>5. /\ call'[h].pc = call[h].pc /\ call'[h].att = call[h].att
        /\ call'[h].observed = call[h].observed /\ call'[h].epoch = call[h].epoch
        /\ call'[h].answer = ans
    BY <1>1, <2>1 DEF CallStates
  <2>. QED
    BY <1>3, <2>1, <2>3, <2>4, <2>5 DEF AnswerKind, BridgeReads
<1>4. CASE BridgeStatus(h)
  <2>. DEFINE ans == IF target = "sealed" /\ allow THEN "ok" ELSE "refused"
  <2>1. /\ call'[h] = [call[h] EXCEPT !.answer = ans, !.epoch = live]
        /\ \A k \in Calls \ {h} : call'[k] = call[k]
    BY <1>1, <1>4 DEF BridgeStatus
  <2>2. [call[h] EXCEPT !.answer = ans, !.epoch = live] \in CallStates
    BY <1>1, <1>2 DEF CallStates, Answers
  <2>3. call' \in [Calls -> CallStates]
    BY <1>1, <1>4, <2>2 DEF BridgeStatus
  <2>4. /\ call'[h].pc = call[h].pc /\ call'[h].att = call[h].att
        /\ call'[h].observed = call[h].observed /\ call'[h].epoch = live
        /\ call'[h].answer = ans
    BY <1>1, <2>1 DEF CallStates
  <2>5. call[h].pc = "status" /\ live # NoEpoch
    BY <1>4 DEF BridgeStatus
  <2>. QED
    BY <1>4, <2>1, <2>3, <2>4, <2>5 DEF AnswerKind, BridgeStatus
<1>5. CASE RequestFails(h)
  <2>1. /\ call'[h] = [call[h] EXCEPT !.answer = "failed"]
        /\ \A k \in Calls \ {h} : call'[k] = call[k]
    BY <1>1, <1>5 DEF RequestFails
  <2>2. [call[h] EXCEPT !.answer = "failed"] \in CallStates
    BY <1>1 DEF CallStates, Answers
  <2>3. call' \in [Calls -> CallStates]
    BY <1>1, <1>5, <2>2 DEF RequestFails
  <2>4. /\ call'[h].pc = call[h].pc /\ call'[h].att = call[h].att
        /\ call'[h].observed = call[h].observed /\ call'[h].epoch = call[h].epoch
        /\ call'[h].answer = "failed"
    BY <1>1, <2>1 DEF CallStates
  <2>. QED
    BY <1>5, <2>1, <2>3, <2>4 DEF AnswerKind, RequestFails
<1>. QED
  BY <1>3, <1>4, <1>5 DEF Answer

LEMMA ProcessFrame ==
  ASSUME TypeOK, NEW p \in Procs,
         Start(p) \/ Heartbeat(p) \/ Lapse(p) \/ Stop(p) \/ Crash(p)
  PROVE  ProcessKind
<1>1. JournalTypeOK /\ row \in Rows /\ call \in [Calls -> CallStates]
  BY DEF TypeOK, JournalTypeOK
<1>2. Evolves(row, row) /\ Undecided(row, row)
  BY <1>1 DEF Evolves, Undecided
<1>3. ASSUME UNCHANGED call
      PROVE  call' \in [Calls -> CallStates] /\ \A k \in Calls : call'[k] \in {call[k], Idle}
  BY <1>1, <1>3
<1>4. ASSUME CallsWithout(p)
      PROVE  call' \in [Calls -> CallStates] /\ \A k \in Calls : call'[k] \in {call[k], Idle}
  BY <1>1, <1>4, IdleIsCallState DEF CallsWithout
<1>5. CASE Start(p)
  <2>1. Swept(row) \in LoadsOf(row)
    BY DEF LoadsOf
  <2>2. Swept(row) \in Rows /\ Evolves(row, Swept(row)) /\ Undecided(row, Swept(row))
    BY <1>1, <2>1, LoadsEvolve DEF Evolves
  <2>3. /\ Evolves(Swept(row), Expired(Swept(row)))
        /\ Undecided(Swept(row), Expired(Swept(row)))
    BY <2>2, LoadsEvolve DEF LoadsOf
  <2>4. Evolves(row, row') /\ Undecided(row, row')
    BY <1>5, <2>2, <2>3, EvolvesIsTransitive DEF Start, StartRuntime, Undecided
  <2>5. JournalTypeOK'
    BY <1>1, <1>5, <2>4 DEF Start, StartRuntime, JournalTypeOK, Evolves
  <2>. QED
    BY <1>3, <1>5, <2>4, <2>5 DEF ProcessKind, Start
<1>6. CASE Heartbeat(p) \/ Lapse(p)
  <2>1. JournalTypeOK'
    BY <1>1, <1>6 DEF Heartbeat, Lapse, RenewLease, LeaseLapses, JournalTypeOK
  <2>. QED
    BY <1>2, <1>3, <1>6, <2>1
    DEF ProcessKind, Heartbeat, Lapse, RenewLease, LeaseLapses
<1>7. CASE Stop(p)
  <2>1. Evolves(row, row') /\ Undecided(row, row')
    <3>1. Released(row, "outcome_unknown") \in Rows
      BY <1>1, RowOperators DEF Statuses, Pending
    <3>. QED
      BY <1>1, <1>2, <1>7, <3>1
      DEF Stop, CloseRuntime, Released, Evolves, Undecided, Pending, Rows
  <2>2. JournalTypeOK'
    BY <1>1, <1>7, <2>1 DEF Stop, CloseRuntime, JournalTypeOK, Evolves
  <2>. QED
    BY <1>4, <1>7, <2>1, <2>2 DEF ProcessKind, Stop
<1>8. CASE Crash(p)
  <2>1. JournalTypeOK'
    BY <1>1, <1>8 DEF Crash, CrashRuntime, JournalTypeOK
  <2>. QED
    BY <1>2, <1>4, <1>8, <2>1 DEF ProcessKind, Crash, CrashRuntime
<1>. QED
  BY <1>5, <1>6, <1>7, <1>8

StepKinds ==
  \/ \E h \in Calls : CallKind(h)
  \/ \E h \in Calls : AnswerKind(h)
  \/ \E a \in Attempts : RequestStep(a)
  \/ ProcessKind
  \/ PluginKind
  \/ \E landed \in SUBSET InFlight : QuitObsidian(landed)
  \/ WorldKind

LEMMA EveryStepHasAKind ==
  ASSUME TypeInv, [Next]_vars
  PROVE  StepKinds
<1>. USE DEF TypeInv
<1>1. ASSUME NEW h \in Calls, NEW p \in Procs,
             Apply(h, p) \/ Status(h, p) \/ Recover(h, p) \/ Close(h, p)
      PROVE  StepKinds
  BY <1>1, EntryShape DEF StepKinds, CallKind, JournalOnly, bridgeVars
<1>2. ASSUME NEW h \in Calls, CallStep(h) \/ Answer(h)
      PROVE  StepKinds
  BY <1>2, CallStepFrame, AnswerFrame DEF StepKinds
<1>3. ASSUME Environment
      PROVE  StepKinds
  <2>1. ASSUME NEW p \in Procs,
               Start(p) \/ Heartbeat(p) \/ Lapse(p) \/ Stop(p) \/ Crash(p)
        PROVE  StepKinds
    BY <2>1, ProcessFrame DEF StepKinds
  <2>2. ASSUME UnloadBridge \/ \E e \in Epochs : LoadBridge(e)
        PROVE  StepKinds
    BY <2>2
    DEF StepKinds, PluginKind, UnloadBridge, LoadBridge, Retire, Issue, FenceNext
  <2>3. ASSUME NEW landed \in SUBSET InFlight, QuitObsidian(landed)
        PROVE  StepKinds
    BY <2>3 DEF StepKinds
  <2>4. ASSUME ToggleWrites \/ Retarget
        PROVE  StepKinds
    BY <2>4 DEF StepKinds, WorldKind, ToggleWrites, Retarget, TypeOK
  <2>5. ASSUME NEW content \in Contents, EditNote(content)
        PROVE  StepKinds
    BY <2>5 DEF StepKinds, WorldKind, EditNote, TypeOK
  <2>. QED
    BY <1>3, <2>1, <2>2, <2>3, <2>4, <2>5 DEF Environment
<1>4. CASE UNCHANGED vars
  <2>1. WorldKind
    BY <1>4 DEF WorldKind, vars, journalVars, fenceVars, TypeOK
  <2>. QED
    BY <2>1 DEF StepKinds
<1>. QED
  BY <1>1, <1>2, <1>3, <1>4 DEF Next, StepKinds

-----------------------------------------------------------------------------
(* Type correctness. *)

(* The steps of a request are steps of the fence's contract, or leave the  *)
(* fence alone.                                                            *)
LEMMA RequestFence ==
  ASSUME TypeInv, NEW a \in Attempts, RequestStep(a)
  PROVE  UNCHANGED fenceVars \/ FenceNext
<1>1. req[a] # "none" => TokenOf(a) \in Tokens
  BY DEF TypeInv, TypeOK, EpochKnown, TokenOf, Tokens
<1>. QED
  BY <1>1
  DEF RequestStep, AdmitRequest, HashConflict, PassFence, FenceRefuses,
      WriteLands, WriteFails, LoseRequest, FenceNext

LEMMA RequestTypes ==
  ASSUME TypeInv, NEW a \in Attempts, RequestStep(a)
  PROVE  TypeInv'
<1>1. FenceTypeOK'
  <2>1. CASE UNCHANGED fenceVars
    BY <2>1 DEF TypeInv, TypeOK, FenceTypeOK, fenceVars
  <2>. QED
    BY <2>1, RequestFence, FenceStepTypes DEF TypeInv, TypeOK
<1>2. /\ UNCHANGED <<journalVars, call, reqEpoch, allow, target>>
      /\ \E s \in RequestStates \ {"none"} : RequestMoves(a, s)
      /\ note' \in Contents /\ written' \subseteq Attempts
      /\ req[a] # "none"
  BY DEF RequestStep, AdmitRequest, HashConflict, PassFence, FenceRefuses,
         WriteLands, WriteFails, LoseRequest, RequestStates, Contents, TypeInv, TypeOK
<1>3. req' \in [Attempts -> RequestStates] /\ \A b \in Attempts : b # a => req'[b] = req[b]
  BY <1>2 DEF RequestMoves, TypeInv, TypeOK
<1>4. TypeOK'
  BY <1>1, <1>2, <1>3, BridgeOnlyTypes DEF TypeInv, TypeOK
<1>5. EpochKnown'
  BY <1>2, <1>3 DEF EpochKnown, TypeInv
<1>. QED
  BY <1>4, <1>5 DEF TypeInv

LEMMA CallTypes ==
  ASSUME TypeInv, NEW h \in Calls, CallKind(h)
  PROVE  TypeInv'
<1>1. row' \in Rows /\ call' \in [Calls -> CallStates]
  BY DEF CallKind, Shape, Evolves, CallMoves
<1>2. FenceTypeOK'
  <2>1. CASE UNCHANGED fenceVars
    BY <2>1 DEF TypeInv, TypeOK, FenceTypeOK, fenceVars
  <2>2. CASE CloseResolves(h)
    <3>1. call[h].observed.tokens \in SUBSET Tokens
      BY DEF TypeInv, TypeOK, CallStates, Rows
    <3>. QED
      BY <2>2, <3>1, FenceStepTypes DEF CloseResolves, FenceNext, TypeInv, TypeOK
  <2>. QED
    BY <2>1, <2>2 DEF CallKind
<1>3. /\ req' \in [Attempts -> RequestStates]
      /\ reqEpoch' \in [Attempts -> Epochs \cup {NoEpoch}]
      /\ \A a \in Attempts : req'[a] # "none" => reqEpoch'[a] # NoEpoch
  <2>1. CASE UNCHANGED <<req, reqEpoch>>
    BY <2>1 DEF TypeInv, TypeOK, EpochKnown
  <2>2. CASE Dispatch(h)
    <3>1. call[h].epoch \in Epochs
      BY <2>2 DEF Dispatch, Answered, TypeInv, TypeOK, EpochKnown, CallStates
    <3>2. /\ req' = [req EXCEPT ![call[h].att] = "sent"]
          /\ reqEpoch' = [reqEpoch EXCEPT ![call[h].att] = call[h].epoch]
          /\ req \in [Attempts -> RequestStates]
          /\ reqEpoch \in [Attempts -> Epochs \cup {NoEpoch}]
          /\ "sent" \in RequestStates
      BY <2>2 DEF Dispatch, RequestStates, TypeInv, TypeOK
    <3>3. call[h].epoch # NoEpoch
      BY <3>1, NoEpochAssumption
    <3>4. \A a \in Attempts : req'[a] # "none" => reqEpoch'[a] # NoEpoch
      BY <3>2, <3>3 DEF TypeInv, EpochKnown
    <3>. QED
      BY <3>1, <3>2, <3>4
  <2>. QED
    BY <2>1, <2>2 DEF CallKind
<1>4. TypeOK'
  BY <1>1, <1>2, <1>3 DEF CallKind, TypeInv, TypeOK, JournalTypeOK
<1>5. \A k \in Calls : \/ call'[k].pc = "preflight"
                       \/ call'[k].pc = "status" /\ call'[k].answer = "ok"
                       => call'[k].epoch # NoEpoch
  BY DEF CallKind, Shape, CallMoves, Proceeds, Begins, Records, TypeInv, EpochKnown
<1>. QED
  BY <1>3, <1>4, <1>5 DEF TypeInv, EpochKnown

LEMMA AnswerTypes ==
  ASSUME TypeInv, NEW h \in Calls, AnswerKind(h)
  PROVE  TypeInv'
<1>1. TypeOK'
  BY DEF AnswerKind, TypeInv, TypeOK, JournalTypeOK, FenceTypeOK, journalVars,
         fenceVars, bridgeVars
<1>2. EpochKnown'
  BY DEF AnswerKind, TypeInv, EpochKnown, bridgeVars
<1>. QED
  BY <1>1, <1>2 DEF TypeInv

LEMMA EnvironmentTypes ==
  ASSUME TypeInv,
         \/ ProcessKind \/ PluginKind \/ WorldKind
         \/ \E landed \in SUBSET InFlight : QuitObsidian(landed)
  PROVE  TypeInv'
<1>1. CASE ProcessKind
  <2>1. TypeOK'
    BY <1>1 DEF ProcessKind, TypeInv, TypeOK, FenceTypeOK, fenceVars, bridgeVars
  <2>2. EpochKnown'
    BY <1>1 DEF ProcessKind, TypeInv, EpochKnown, bridgeVars, Idle
  <2>. QED
    BY <2>1, <2>2 DEF TypeInv
<1>2. CASE PluginKind
  <2>1. FenceTypeOK'
    BY <1>2, FenceStepTypes DEF PluginKind, TypeInv, TypeOK
  <2>2. TypeOK'
    BY <1>2, <2>1 DEF PluginKind, TypeInv, TypeOK, JournalTypeOK, journalVars, bridgeVars
  <2>3. EpochKnown'
    BY <1>2 DEF PluginKind, TypeInv, EpochKnown, bridgeVars
  <2>. QED
    BY <2>2, <2>3 DEF TypeInv
<1>3. CASE WorldKind
  <2>1. TypeOK'
    BY <1>3
    DEF WorldKind, TypeInv, TypeOK, JournalTypeOK, FenceTypeOK, journalVars,
        fenceVars, Contents
  <2>2. EpochKnown'
    BY <1>3 DEF WorldKind, TypeInv, EpochKnown
  <2>. QED
    BY <2>1, <2>2 DEF TypeInv
<1>4. ASSUME NEW landed \in SUBSET InFlight, QuitObsidian(landed)
      PROVE  TypeInv'
  <2>1. FenceTypeOK'
    BY <1>4, FenceStepTypes DEF QuitObsidian, FenceNext, TypeInv, TypeOK
  <2>2. TypeOK'
    BY <1>4, <2>1, BridgeOnlyTypes
    DEF QuitObsidian, InFlight, RequestStates, Contents, TypeInv, TypeOK
  <2>3. EpochKnown'
    BY <1>4 DEF QuitObsidian, TypeInv, TypeOK, EpochKnown
  <2>. QED
    BY <2>2, <2>3 DEF TypeInv
<1>. QED
  BY <1>1, <1>2, <1>3, <1>4

LEMMA TypeStep == TypeInv /\ [Next]_vars => TypeInv'
  BY EveryStepHasAKind, CallTypes, AnswerTypes, RequestTypes, EnvironmentTypes
  DEF StepKinds

(* Every variable of the composed system keeps its type, and an executor   *)
(* that is about to record or send a token holds the epoch of a real one.  *)
THEOREM TypeCorrect == Spec => []TypeOK
<1>1. Init => TypeInv
  BY InitTypes DEF Init, Idle, TypeInv, EpochKnown
<1>2. TypeInv => TypeOK
  BY DEF TypeInv
<1>. QED
  BY <1>1, <1>2, TypeStep, PTL DEF Spec

-----------------------------------------------------------------------------
(* The inductive invariant behind the safety theorems.                     *)

(* An attempt belongs to one call, was drawn from the journal, and has no  *)
(* request before its call dispatches it.                                  *)
AttemptInv ==
  /\ \A h \in Calls : call[h].att # NoAttempt => call[h].att \in row.used
  /\ \A h, k \in Calls : h # k /\ call[h].att = call[k].att => call[h].att = NoAttempt
  /\ \A h \in Calls : call[h].pc \in {"status", "preflight"} =>
       call[h].att # NoAttempt /\ req[call[h].att] = "none"
  /\ \A a \in Attempts : req[a] # "none" => a \in row.used
  /\ row.status \in {"planned", "expired"} => row.used = {}

(* A running request holds a running token; no two run at once on one note; *)
(* an attempt that wrote the note is over.                                  *)
RequestInv ==
  /\ \A a \in Attempts : req[a] = "running" => TokenOf(a) \in running
  /\ \A a, b \in Attempts : req[a] = "running" /\ req[b] = "running" => a = b
  /\ \A a \in written : req[a] \in {"ok", "gone"}

(* Whatever a commit is decided on exists only after an effect.            *)
EvidenceInv ==
  /\ note = "after" => written # {}
  /\ \A h \in Calls : call[h].answer = "after" => written # {}
  /\ \A a \in Attempts : req[a] = "ok" => written # {}
  /\ row.status = "committed" => written # {}

(* The token is recorded before its request exists, and the tokens that a  *)
(* closure resolved stay dead until it commits.                            *)
ClosureInv ==
  /\ \A h \in Calls : call[h].pc = "preflight" =>
       <<call[h].epoch, call[h].att>> \in row.tokens
  /\ \A h \in Calls : call[h].pc = "closeCommit" =>
       \A t \in call[h].observed.tokens : Dead(t)
  /\ ClosedPlanIsDead

Inv == TypeInv /\ AttemptInv /\ RequestInv /\ EvidenceInv /\ ClosureInv

-----------------------------------------------------------------------------
(* Attempts. *)

(* What a dispatch does to the requests, in the terms of the invariants.   *)
LEMMA DispatchFacts ==
  ASSUME TypeInv, AttemptInv, NEW h \in Calls, Dispatch(h)
  PROVE  /\ call[h].att \in Attempts /\ req[call[h].att] = "none"
         /\ call[h].pc = "preflight" /\ call'[h].pc = "waiting"
         /\ \A a \in Attempts : a # call[h].att =>
              req'[a] = req[a] /\ reqEpoch'[a] = reqEpoch[a]
         /\ req'[call[h].att] = "sent" /\ reqEpoch'[call[h].att] = call[h].epoch
         /\ UNCHANGED <<row, fenceVars>>
<1>1. call[h].pc = "preflight"
  BY DEF Dispatch, Answered
<1>2. call[h].att \in Attempts /\ req[call[h].att] = "none"
  BY <1>1 DEF AttemptInv, TypeInv, TypeOK, CallStates
<1>3. call'[h].pc = "waiting"
  BY DEF Dispatch, Continues, TypeInv, TypeOK, CallStates
<1>. QED
  BY <1>1, <1>2, <1>3 DEF Dispatch, TypeInv, TypeOK, journalVars

(* A request that moves exists and keeps its token.                        *)
LEMMA RequestFacts ==
  ASSUME TypeInv, NEW a \in Attempts, RequestStep(a)
  PROVE  /\ UNCHANGED <<journalVars, call, reqEpoch, allow, target>>
         /\ req[a] # "none" /\ req'[a] # "none"
         /\ \A b \in Attempts \ {a} : req'[b] = req[b]
<1>1. /\ UNCHANGED <<journalVars, call, reqEpoch, allow, target>>
      /\ \E s \in RequestStates \ {"none"} : RequestMoves(a, s)
      /\ req[a] # "none"
  BY DEF RequestStep, AdmitRequest, HashConflict, PassFence, FenceRefuses,
         WriteLands, WriteFails, LoseRequest, RequestStates
<1>. QED
  BY <1>1 DEF RequestMoves, TypeInv, TypeOK

LEMMA QuitFacts ==
  ASSUME TypeInv, NEW landed \in SUBSET InFlight, QuitObsidian(landed)
  PROVE  /\ UNCHANGED <<journalVars, call, reqEpoch>>
         /\ \A a \in Attempts :
              /\ req'[a] \in {req[a], "gone"}
              /\ req'[a] = "none" <=> req[a] = "none"
              /\ req'[a] # "running"
              /\ req[a] = "running" => req'[a] = "gone"
         /\ running' = {}
  BY DEF QuitObsidian, QuitRealm, TypeInv, TypeOK, RequestStates

LEMMA AttemptStep ==
  ASSUME TypeInv, AttemptInv, StepKinds
  PROVE  AttemptInv'
<1>1. ASSUME NEW h \in Calls, CallKind(h)
      PROVE  AttemptInv'
  <2>1. /\ Evolves(row, row')
        /\ \A k \in Calls \ {h} : call'[k] = call[k]
        /\ Proceeds(h) \/ Begins(h) \/ Records(h) \/ call'[h] = call[h]
    BY <1>1 DEF CallKind, Shape, CallMoves
  <2>2. row.used \subseteq row'.used
    BY <2>1 DEF Evolves
  <2>3. row'.status \in {"planned", "expired"} => row'.used = {}
    BY <2>1 DEF Evolves, AttemptInv
  <2>4. call[h].att \in Attempts \cup {NoAttempt} /\ NoAttempt \notin Attempts
    BY JournalAssumption DEF TypeInv, TypeOK, CallStates
  <2>5. CASE Dispatch(h)
    <3>1. Proceeds(h)
      BY <2>1, <2>5, DispatchFacts DEF Begins, Records
    <3>2. /\ call[h].att \in Attempts /\ call[h].att \in row.used
          /\ call'[h].att \in {call[h].att, NoAttempt}
          /\ call'[h].pc \notin {"status", "preflight"}
          /\ \A a \in Attempts : a # call[h].att => req'[a] = req[a]
      BY <2>4, <2>5, <3>1, DispatchFacts DEF AttemptInv, Proceeds
    <3>3. \A k \in Calls : call'[k].pc \in {"status", "preflight"} =>
            call'[k].att # NoAttempt /\ req'[call'[k].att] = "none"
      <4>1. SUFFICES ASSUME NEW k \in Calls, call'[k].pc \in {"status", "preflight"}
                     PROVE  call'[k].att # NoAttempt /\ req'[call'[k].att] = "none"
        OBVIOUS
      <4>2. k # h /\ call'[k] = call[k] /\ call[k].att \in Attempts \cup {NoAttempt}
        BY <2>1, <3>2, <4>1 DEF TypeInv, TypeOK, CallStates
      <4>3. call[k].att # NoAttempt /\ req[call[k].att] = "none"
        BY <4>1, <4>2 DEF AttemptInv
      <4>4. call[k].att # call[h].att
        BY <4>2, <4>3 DEF AttemptInv
      <4>. QED
        BY <3>2, <4>2, <4>3, <4>4
    <3>4. \A k, l \in Calls : k # l /\ call'[k].att = call'[l].att => call'[k].att = NoAttempt
      BY <2>1, <3>2 DEF AttemptInv
    <3>. QED
      BY <2>1, <2>2, <2>3, <3>2, <3>3, <3>4 DEF AttemptInv
  <2>6. CASE UNCHANGED <<req, reqEpoch>> /\ Begins(h)
    <3>1. \A k \in Calls \ {h} : call[k].att # call'[h].att
      BY <2>4, <2>6 DEF AttemptInv, Begins
    <3>2. req'[call'[h].att] = "none"
      BY <2>6 DEF AttemptInv, Begins
    <3>. QED
      BY <2>1, <2>2, <2>3, <2>4, <2>6, <3>1, <3>2 DEF AttemptInv, Begins
  <2>7. CASE UNCHANGED <<req, reqEpoch>> /\ (Proceeds(h) \/ Records(h) \/ call'[h] = call[h])
    BY <2>1, <2>2, <2>3, <2>7 DEF AttemptInv, Proceeds, Records
  <2>. QED
    BY <1>1, <2>1, <2>5, <2>6, <2>7 DEF CallKind
<1>2. ASSUME NEW h \in Calls, AnswerKind(h)
      PROVE  AttemptInv'
  BY <1>2 DEF AnswerKind, AttemptInv, journalVars, bridgeVars
<1>3. ASSUME NEW a \in Attempts, RequestStep(a)
      PROVE  AttemptInv'
  BY <1>3, RequestFacts DEF AttemptInv, journalVars, TypeInv, TypeOK, CallStates
<1>4. CASE ProcessKind
  BY <1>4 DEF ProcessKind, Evolves, AttemptInv, Idle, bridgeVars
<1>5. CASE PluginKind \/ WorldKind
  BY <1>5 DEF PluginKind, WorldKind, AttemptInv, journalVars, bridgeVars
<1>6. ASSUME NEW landed \in SUBSET InFlight, QuitObsidian(landed)
      PROVE  AttemptInv'
  <2>1. \A k \in Calls : call[k].att \in Attempts \cup {NoAttempt}
    BY DEF TypeInv, TypeOK, CallStates
  <2>. QED
    BY <1>6, <2>1, QuitFacts DEF AttemptInv, journalVars
<1>. QED
  BY <1>1, <1>2, <1>3, <1>4, <1>5, <1>6 DEF StepKinds

-----------------------------------------------------------------------------
(* Closure. *)

LEMMA FenceKeepsDead ==
  ASSUME TypeInv, StepKinds, NEW t \in Tokens, Dead(t)
  PROVE  Dead(t)'
<1>. USE DEF TypeInv, TypeOK
<1>1. CASE UNCHANGED fenceVars
  BY <1>1 DEF fenceVars, Dead
<1>2. CASE FenceNext
  BY <1>2, DeadStaysDead
<1>3. UNCHANGED fenceVars \/ FenceNext
  <2>1. ASSUME NEW h \in Calls, CallKind(h)
        PROVE  UNCHANGED fenceVars \/ FenceNext
    <3>1. call[h].observed.tokens \in SUBSET Tokens
      BY DEF CallStates, Rows
    <3>. QED
      BY <2>1, <3>1 DEF CallKind, CloseResolves, FenceNext
  <2>2. ASSUME NEW landed \in SUBSET InFlight, QuitObsidian(landed)
        PROVE  FenceNext
    BY <2>2 DEF QuitObsidian, FenceNext
  <2>. QED
    BY <2>1, <2>2, RequestFence
    DEF StepKinds, AnswerKind, ProcessKind, PluginKind, WorldKind
<1>. QED
  BY <1>1, <1>2, <1>3

LEMMA ClosureStep ==
  ASSUME TypeInv, AttemptInv, ClosureInv, StepKinds
  PROVE  ClosureInv'
<1>. DEFINE Requested == \A a \in Attempts : req[a] # "none" => TokenOf(a) \in row.tokens
            Resolved(k) == \A t \in call[k].observed.tokens : Dead(t)
<1>1. /\ row.tokens \subseteq Tokens
      /\ \A k \in Calls : call[k].observed.tokens \subseteq Tokens
  BY DEF TypeInv, TypeOK, JournalTypeOK, Rows, CallStates
<1>2. \A t \in row.tokens : Dead(t) => Dead(t)'
  BY <1>1, FenceKeepsDead
<1>3. \A k \in Calls : Resolved(k) => \A t \in call[k].observed.tokens : Dead(t)'
  BY <1>1, FenceKeepsDead
<1>4. ASSUME NEW h \in Calls, CallKind(h)
      PROVE  ClosureInv'
  <2>1. /\ Evolves(row, row') /\ Decides(h)
        /\ \A k \in Calls \ {h} : call'[k] = call[k]
        /\ Proceeds(h) \/ Begins(h) \/ Records(h) \/ call'[h] = call[h]
    BY <1>4 DEF CallKind, Shape, CallMoves
  <2>2. row.tokens \subseteq row'.tokens
    BY <2>1 DEF Evolves
  <2>3. \A k \in Calls : call'[k].pc = "preflight" =>
          <<call'[k].epoch, call'[k].att>> \in row'.tokens
    BY <2>1, <2>2 DEF ClosureInv, Proceeds, Begins, Records
  <2>4. ASSUME NEW k \in Calls, call'[k].pc = "closeCommit"
        PROVE  \A t \in call'[k].observed.tokens : Dead(t)'
    <3>1. CASE call'[k] = call[k]
      BY <1>3, <2>4, <3>1 DEF ClosureInv
    <3>2. CASE k = h /\ Proceeds(h)
      <4>1. /\ CloseResolves(h)
            /\ call'[h].observed = call[h].observed
            /\ call[h].observed.tokens \cap running = {}
        BY <2>4, <3>2 DEF Proceeds
      <4>. QED
        BY <3>2, <4>1, RevocationKills DEF CloseResolves
    <3>. QED
      BY <2>1, <2>4, <3>1, <3>2 DEF Begins, Records
  <2>5. ASSUME NEW a \in Attempts, req'[a] # "none"
        PROVE  TokenOf(a)' \in row'.tokens
    <3>1. CASE UNCHANGED <<req, reqEpoch>>
      BY <2>2, <2>5, <3>1 DEF ClosureInv, ClosedPlanIsDead, TokenOf
    <3>2. CASE Dispatch(h)
      BY <2>5, <3>2, DispatchFacts DEF ClosureInv, ClosedPlanIsDead, TokenOf
    <3>. QED
      BY <1>4, <3>1, <3>2 DEF CallKind
  <2>6. ASSUME row'.status = "reviewed_unverified"
        PROVE  \A t \in row'.tokens : Dead(t)'
    <3>1. CASE row.status = "reviewed_unverified"
      <4>1. row' = row
        BY <2>1, <3>1 DEF Evolves, Pending
      <4>. QED
        BY <1>2, <3>1, <4>1 DEF ClosureInv, ClosedPlanIsDead
    <3>2. CASE /\ call[h].pc = "closeCommit"
               /\ row = call[h].observed
               /\ row'.tokens = row.tokens
      BY <1>2, <3>2 DEF ClosureInv
    <3>. QED
      BY <2>1, <2>6, <3>1, <3>2 DEF Decides
  <2>. QED
    BY <2>3, <2>4, <2>5, <2>6 DEF ClosureInv, ClosedPlanIsDead
<1>5. ASSUME UNCHANGED row, Requested',
             \A k \in Calls : /\ call'[k].pc = "preflight" =>
                                   /\ call[k].pc = "preflight"
                                   /\ call'[k].epoch = call[k].epoch
                                   /\ call'[k].att = call[k].att
                              /\ call'[k].pc = "closeCommit" =>
                                   /\ call[k].pc = "closeCommit"
                                   /\ call'[k].observed = call[k].observed
      PROVE  ClosureInv'
  BY <1>2, <1>3, <1>5 DEF ClosureInv, ClosedPlanIsDead
<1>6. ASSUME NEW h \in Calls, AnswerKind(h)
      PROVE  ClosureInv'
  <2>1. Requested'
    BY <1>6 DEF AnswerKind, ClosureInv, ClosedPlanIsDead, TokenOf, journalVars, bridgeVars
  <2>. QED
    BY <1>5, <1>6, <2>1 DEF AnswerKind, journalVars
<1>7. ASSUME NEW a \in Attempts, RequestStep(a)
      PROVE  ClosureInv'
  <2>1. Requested'
    BY <1>7, RequestFacts DEF ClosureInv, ClosedPlanIsDead, TokenOf, journalVars
  <2>. QED
    BY <1>5, <1>7, <2>1, RequestFacts DEF journalVars
<1>8. CASE ProcessKind
  <2>1. Evolves(row, row') /\ Undecided(row, row')
    BY <1>8 DEF ProcessKind
  <2>2. row.tokens \subseteq row'.tokens
    BY <2>1 DEF Evolves
  <2>3. \A k \in Calls : /\ call'[k].pc = "preflight" => call'[k] = call[k]
                         /\ call'[k].pc = "closeCommit" => call'[k] = call[k]
    BY <1>8 DEF ProcessKind, Idle
  <2>4. \A a \in Attempts : req'[a] # "none" => TokenOf(a)' \in row'.tokens
    BY <1>8, <2>2 DEF ProcessKind, ClosureInv, ClosedPlanIsDead, TokenOf, bridgeVars
  <2>5. row'.status = "reviewed_unverified" => row' = row
    BY <2>1 DEF Undecided
  <2>. QED
    BY <1>2, <1>3, <2>2, <2>3, <2>4, <2>5 DEF ClosureInv, ClosedPlanIsDead
<1>9. CASE PluginKind \/ WorldKind
  <2>1. Requested'
    BY <1>9 DEF PluginKind, WorldKind, ClosureInv, ClosedPlanIsDead, TokenOf,
                journalVars, bridgeVars
  <2>. QED
    BY <1>5, <1>9, <2>1 DEF PluginKind, WorldKind, journalVars
<1>10. ASSUME NEW landed \in SUBSET InFlight, QuitObsidian(landed)
       PROVE  ClosureInv'
  <2>1. Requested'
    BY <1>10, QuitFacts DEF ClosureInv, ClosedPlanIsDead, TokenOf, journalVars
  <2>. QED
    BY <1>5, <1>10, <2>1, QuitFacts DEF journalVars
<1>. QED
  BY <1>4, <1>6, <1>7, <1>8, <1>9, <1>10 DEF StepKinds

-----------------------------------------------------------------------------
(* Requests and the evidence of an effect. *)

LEMMA RequestInvStep ==
  ASSUME TypeInv, AttemptInv, RequestInv, StepKinds
  PROVE  RequestInv'
<1>1. ASSUME UNCHANGED running, written' = written,
             \A a \in Attempts : req'[a] # req[a] => req[a] = "none" /\ req'[a] = "sent",
             \A a \in Attempts : req[a] # "none" => reqEpoch'[a] = reqEpoch[a]
      PROVE  RequestInv'
  BY <1>1 DEF RequestInv, TokenOf, TypeInv, TypeOK
<1>2. ASSUME NEW h \in Calls, CallKind(h)
      PROVE  RequestInv'
  <2>1. UNCHANGED running
    BY <1>2 DEF CallKind, CloseResolves, Revoke, fenceVars
  <2>2. CASE UNCHANGED <<req, reqEpoch>>
    BY <1>1, <1>2, <2>1, <2>2 DEF CallKind
  <2>3. CASE Dispatch(h)
    BY <1>1, <1>2, <2>1, <2>3, DispatchFacts DEF CallKind
  <2>. QED
    BY <1>2, <2>2, <2>3 DEF CallKind
<1>3. CASE \/ \E h \in Calls : AnswerKind(h)
           \/ ProcessKind \/ PluginKind \/ WorldKind
  BY <1>1, <1>3
  DEF AnswerKind, ProcessKind, PluginKind, WorldKind, fenceVars, bridgeVars
<1>4. ASSUME NEW a \in Attempts, RequestStep(a)
      PROVE  RequestInv'
  <2>1. /\ UNCHANGED reqEpoch
        /\ \A b \in Attempts \ {a} : req'[b] = req[b]
        /\ \A s : RequestMoves(a, s) => req'[a] = s
        /\ written \subseteq Attempts
    BY <1>4, RequestFacts DEF RequestMoves, TypeInv, TypeOK
  <2>2. CASE AdmitRequest(a) \/ HashConflict(a) \/ FenceRefuses(a) \/ LoseRequest(a)
    <3>1. UNCHANGED <<running, written>>
      BY <2>2 DEF AdmitRequest, HashConflict, FenceRefuses, LoseRequest, fenceVars
    <3>2. req[a] \in {"sent", "admitted"} /\ req'[a] # "running"
      BY <2>1, <2>2 DEF AdmitRequest, HashConflict, FenceRefuses, LoseRequest
    <3>. QED
      BY <2>1, <3>1, <3>2 DEF RequestInv, TokenOf
  <2>3. CASE PassFence(a)
    <3>1. running = {} /\ running' = {TokenOf(a)} /\ written' = written
          /\ req[a] = "admitted"
      BY <2>3 DEF PassFence, Enter, EnterAndRotate
    <3>. QED
      BY <2>1, <3>1 DEF RequestInv, TokenOf
  <2>4. CASE WriteLands(a) \/ WriteFails(a)
    <3>1. /\ req[a] = "running" /\ req'[a] \in {"ok", "error"}
          /\ running' = running \ {TokenOf(a)}
          /\ written' = written \/ (written' = written \cup {a} /\ req'[a] = "ok")
      BY <2>1, <2>4 DEF WriteLands, WriteFails, Settle
    <3>. QED
      BY <2>1, <3>1 DEF RequestInv, TokenOf, TypeInv, TypeOK
  <2>. QED
    BY <1>4, <2>2, <2>3, <2>4 DEF RequestStep
<1>5. ASSUME NEW landed \in SUBSET InFlight, QuitObsidian(landed)
      PROVE  RequestInv'
  <2>1. written' = written \cup landed /\ \A a \in landed : a \in Attempts /\ req[a] = "running"
    BY <1>5 DEF QuitObsidian, InFlight
  <2>2. written \subseteq Attempts
    BY DEF TypeInv, TypeOK
  <2>. QED
    BY <1>5, <2>1, <2>2, QuitFacts DEF RequestInv
<1>. QED
  BY <1>2, <1>3, <1>4, <1>5 DEF StepKinds

LEMMA EvidenceStep ==
  ASSUME TypeInv, AttemptInv, EvidenceInv, StepKinds
  PROVE  EvidenceInv'
<1>1. ASSUME NEW h \in Calls, CallKind(h)
      PROVE  EvidenceInv'
  <2>1. /\ Decides(h)
        /\ \A k \in Calls : call'[k].answer = "after" => call[k].answer = "after"
        /\ UNCHANGED <<note, written>>
    BY <1>1 DEF CallKind, Shape, CallMoves, Proceeds, Begins, Records
  <2>2. \A a \in Attempts : req'[a] = "ok" => req[a] = "ok"
    BY <1>1, DispatchFacts DEF CallKind
  <2>. QED
    BY <2>1, <2>2 DEF EvidenceInv, Decides
<1>2. ASSUME NEW h \in Calls, AnswerKind(h)
      PROVE  EvidenceInv'
  BY <1>2 DEF AnswerKind, EvidenceInv, journalVars, bridgeVars
<1>3. ASSUME NEW a \in Attempts, RequestStep(a)
      PROVE  EvidenceInv'
  <2>1. CASE WriteLands(a)
    BY <1>3, <2>1, RequestFacts DEF WriteLands, EvidenceInv, journalVars
  <2>2. CASE ~WriteLands(a)
    <3>1. UNCHANGED <<note, written>> /\ req'[a] # "ok"
      BY <1>3, <2>2
      DEF RequestStep, AdmitRequest, HashConflict, PassFence, FenceRefuses,
          WriteFails, LoseRequest, RequestMoves, TypeInv, TypeOK
    <3>. QED
      BY <1>3, <3>1, RequestFacts DEF EvidenceInv, journalVars
  <2>. QED
    BY <2>1, <2>2
<1>4. CASE ProcessKind
  BY <1>4 DEF ProcessKind, Undecided, EvidenceInv, Idle, bridgeVars
<1>5. CASE PluginKind \/ WorldKind
  BY <1>5 DEF PluginKind, WorldKind, EvidenceInv, journalVars, bridgeVars
<1>6. ASSUME NEW landed \in SUBSET InFlight, QuitObsidian(landed)
      PROVE  EvidenceInv'
  <2>1. /\ written' = written \cup landed
        /\ note' = IF landed = {} THEN note ELSE "after"
    BY <1>6 DEF QuitObsidian
  <2>. QED
    BY <1>6, <2>1, QuitFacts DEF EvidenceInv, journalVars
<1>. QED
  BY <1>1, <1>2, <1>3, <1>4, <1>5, <1>6 DEF StepKinds

LEMMA InitInv == Init => Inv
<1>. SUFFICES ASSUME Init PROVE Inv
  OBVIOUS
<1>1. TypeInv
  BY InitTypes DEF Init, Idle, TypeInv, EpochKnown
<1>2. AttemptInv
  BY DEF Init, JournalInit, PlannedRow, Idle, AttemptInv
<1>3. RequestInv /\ EvidenceInv
  BY DEF Init, JournalInit, PlannedRow, Idle, RequestInv, EvidenceInv
<1>4. ClosureInv
  BY DEF Init, JournalInit, PlannedRow, Idle, ClosureInv, ClosedPlanIsDead
<1>. QED
  BY <1>1, <1>2, <1>3, <1>4 DEF Inv

LEMMA InvStep == Inv /\ [Next]_vars => Inv'
  BY EveryStepHasAKind, TypeStep, AttemptStep, RequestInvStep, EvidenceStep, ClosureStep
  DEF Inv

THEOREM Invariance == Spec => []Inv
  BY InitInv, InvStep, PTL DEF Spec

(* Every request that exists carries a token of the row, and every token   *)
(* of a closed row is dead: the closure's guarantee "no_further_effect".   *)
THEOREM ClosedPlansAreDead == Spec => []ClosedPlanIsDead
<1>1. Inv => ClosedPlanIsDead
  BY DEF Inv, ClosureInv
<1>. QED
  BY <1>1, Invariance, PTL

-----------------------------------------------------------------------------
(* The governed write implements the one-shot outcome contract.            *)

(* The receipt of a row, as the refinement maps it.                        *)
Receipt(r) == IF r.status \in Pending THEN "pending" ELSE r.status

LEMMA ReceiptSteps ==
  ASSUME Inv, Evolves(row, row'), UNCHANGED written,
         row'.status = "committed" => written # {}
  PROVE  [Outcome!OutcomeNext]_(Outcome!outcomeVars)
<1>. USE DEF Inv, TypeInv, TypeOK, JournalTypeOK
<1>1. row.status \in Statuses /\ row'.status \in Statuses
  BY DEF Evolves, Rows
<1>2. CASE Receipt(row') = Receipt(row)
  BY <1>2 DEF Receipt, Outcome!outcomeVars
<1>3. CASE Receipt(row') # Receipt(row)
  <2>1. row.status \in Pending
    BY <1>3 DEF Evolves
  <2>2. row'.status \in {"committed", "conflict", "rejected", "expired", "reviewed_unverified"}
    BY <1>1, <1>3, <2>1 DEF Receipt, Statuses, StableTerminal
  <2>3. row'.status = "expired" => written = {}
    <3>1. SUFFICES ASSUME row'.status = "expired" PROVE written = {}
      OBVIOUS
    <3>2. row.used = {}
      BY <3>1 DEF Evolves, AttemptInv
    <3>3. \A a \in written : req[a] # "none" /\ a \in Attempts
      BY DEF RequestInv
    <3>. QED
      BY <3>2, <3>3 DEF AttemptInv
  <2>. QED
    BY <2>1, <2>2, <2>3
    DEF Pending, Outcome!OutcomeNext, Outcome!Commit, Outcome!Refuse,
        Outcome!Expire, Outcome!Review, Outcome!Ends
<1>. QED
  BY <1>2, <1>3

LEMMA EffectSteps ==
  ASSUME Inv, NEW a \in Attempts, req[a] = "running", UNCHANGED row,
         written' = written \cup {a}
  PROVE  Outcome!OutcomeNext
<1>. USE DEF Inv, TypeInv, TypeOK, JournalTypeOK
<1>1. a \notin written
  BY DEF RequestInv
<1>2. row.status # "expired"
  BY DEF AttemptInv
<1>3. row.status # "reviewed_unverified"
  <2>1. TokenOf(a) \in running /\ TokenOf(a) \in row.tokens
    BY DEF RequestInv, ClosureInv, ClosedPlanIsDead
  <2>. QED
    BY <2>1 DEF ClosureInv, ClosedPlanIsDead, Dead
<1>. QED
  BY <1>1, <1>2, <1>3 DEF Pending, Outcome!OutcomeNext, Outcome!TakeEffect

LEMMA OutcomeStep ==
  ASSUME Inv, Inv', StepKinds
  PROVE  [Outcome!OutcomeNext]_(Outcome!outcomeVars)
<1>1. row \in Rows
  BY DEF Inv, TypeInv, TypeOK, JournalTypeOK
<1>2. row'.status = "committed" => written' # {}
  BY DEF Inv, EvidenceInv
<1>3. ASSUME UNCHANGED <<row, written>>
      PROVE  [Outcome!OutcomeNext]_(Outcome!outcomeVars)
  BY <1>3 DEF Outcome!outcomeVars
<1>4. ASSUME Evolves(row, row'), UNCHANGED written
      PROVE  [Outcome!OutcomeNext]_(Outcome!outcomeVars)
  BY <1>2, <1>4, ReceiptSteps
<1>5. ASSUME NEW h \in Calls, CallKind(h) \/ AnswerKind(h)
      PROVE  [Outcome!OutcomeNext]_(Outcome!outcomeVars)
  BY <1>3, <1>4, <1>5 DEF CallKind, Shape, AnswerKind, journalVars, bridgeVars
<1>6. CASE ProcessKind \/ PluginKind \/ WorldKind
  BY <1>3, <1>4, <1>6
  DEF ProcessKind, PluginKind, WorldKind, journalVars, bridgeVars
<1>7. ASSUME NEW a \in Attempts, RequestStep(a)
      PROVE  [Outcome!OutcomeNext]_(Outcome!outcomeVars)
  <2>1. UNCHANGED row
    BY <1>7, RequestFacts DEF Inv, journalVars
  <2>2. CASE WriteLands(a)
    BY <2>1, <2>2, EffectSteps DEF WriteLands
  <2>3. CASE ~WriteLands(a)
    BY <1>3, <1>7, <2>1, <2>3
    DEF RequestStep, AdmitRequest, HashConflict, PassFence, FenceRefuses,
        WriteFails, LoseRequest
  <2>. QED
    BY <2>2, <2>3
<1>8. ASSUME NEW landed \in SUBSET InFlight, QuitObsidian(landed)
      PROVE  [Outcome!OutcomeNext]_(Outcome!outcomeVars)
  <2>1. UNCHANGED row /\ written' = written \cup landed
    BY <1>8 DEF QuitObsidian, journalVars
  <2>2. CASE landed = {}
    BY <1>3, <2>1, <2>2
  <2>3. CASE landed # {}
    <3>1. PICK a \in landed : landed = {a} /\ a \in Attempts /\ req[a] = "running"
      BY <2>3 DEF InFlight, Inv, RequestInv
    <3>. QED
      BY <2>1, <3>1, EffectSteps
  <2>. QED
    BY <2>2, <2>3
<1>. QED
  BY <1>5, <1>6, <1>7, <1>8 DEF StepKinds

(* Terminal receipts never change; a commit follows an effect; each        *)
(* attempt takes effect at most once; an expired or reviewed plan has no   *)
(* further effect -- whatever the interleaving of calls, processes, plugin *)
(* loads, restarts and lost messages.                                      *)
THEOREM GovernedWriteImplementsOutcome == Spec => ImplementsOutcome
<1>1. Init => Outcome!OutcomeInit
  BY DEF Init, JournalInit, PlannedRow, Pending, Outcome!OutcomeInit
<1>2. Inv /\ Inv' /\ [Next]_vars => [Outcome!OutcomeNext]_(Outcome!outcomeVars)
  BY EveryStepHasAKind, OutcomeStep DEF Inv
<1>. QED
  BY <1>1, <1>2, Invariance, PTL DEF Spec, ImplementsOutcome, Outcome!OutcomeSpec

-----------------------------------------------------------------------------
(* Ownership.                                                              *)

Watchers == {"observe", "recover", "recheck", "closeObserve", "closeResolve",
             "closeCommit"}

(* An applying plan has a process, and who only watches has no attempt.    *)
OwnerInv ==
  /\ OwnedRow(row)
  /\ \A h \in Calls : call[h].pc # "idle" => call[h].proc \in Procs
  /\ \A h \in Calls : call[h].pc \in Watchers => call[h].att = NoAttempt

(* A call is started or moved on by its own process. *)
OwnedCall(h) ==
  /\ \A k \in Calls \ {h} : call'[k] = call[k]
  /\ call'[h].pc # "idle" => call'[h].proc \in Procs
  /\ call'[h].pc \in Watchers => call'[h].att = NoAttempt

LEMMA ReturnsOwned ==
  ASSUME TypeOK, NEW h \in Calls, Returns(h)
  PROVE  OwnedCall(h) /\ call'[h] = Idle
  BY DEF TypeOK, Returns, Idle, OwnedCall

LEMMA ContinuesOwned ==
  ASSUME TypeOK, OwnerInv, NEW h \in Calls, call[h].pc # "idle",
         NEW ph \in Phases, Continues(h, ph),
         ph \in Watchers => call[h].att = NoAttempt
  PROVE  OwnedCall(h)
<1>1. /\ call'[h] = [call[h] EXCEPT !.pc = ph, !.answer = "pending"]
      /\ \A k \in Calls \ {h} : call'[k] = call[k]
      /\ call[h] \in CallStates
  BY DEF TypeOK, Continues
<1>2. call'[h].pc = ph /\ call'[h].proc = call[h].proc /\ call'[h].att = call[h].att
  BY <1>1 DEF CallStates
<1>. QED
  BY <1>1, <1>2 DEF OwnedCall, OwnerInv

LEMMA WatchesOwned ==
  ASSUME TypeOK, NEW h \in Calls, NEW p \in Procs, NEW ph, NEW s,
         call' = [call EXCEPT ![h] = Watching(p, ph, s)]
  PROVE  OwnedCall(h)
<1>1. Watching(p, ph, s).proc = p /\ Watching(p, ph, s).att = NoAttempt
  BY DEF Watching, Idle
<1>2. call'[h] = Watching(p, ph, s) /\ \A k \in Calls \ {h} : call'[k] = call[k]
  BY DEF TypeOK
<1>. QED
  BY <1>1, <1>2 DEF OwnedCall

LEMMA ExecutesOwned ==
  ASSUME TypeOK, NEW h \in Calls, NEW p \in Procs, NEW a, NEW b,
         call' = [call EXCEPT ![h] = Executing(p, a, b)]
  PROVE  OwnedCall(h)
<1>1. Executing(p, a, b).proc = p /\ Executing(p, a, b).pc = "status"
  BY DEF Executing, Idle
<1>2. call'[h] = Executing(p, a, b) /\ \A k \in Calls \ {h} : call'[k] = call[k]
  BY DEF TypeOK
<1>. QED
  BY <1>1, <1>2 DEF OwnedCall, Watchers

(* The rows that calls leave. *)
LEMMA LeavingOwned ==
  ASSUME TypeOK, OwnerInv, NEW h \in Calls,
         NEW next \in {"committed", "conflict", "rejected", "outcome_unknown"},
         LeaveApplying(h, next)
  PROVE  /\ OwnedRow(row') /\ OwnedCall(h)
         /\ call'[h] = Idle
         /\ \/ row'.status \notin {"conflict", "rejected"}
            \/ row' = row
            \/ row.status = "applying" /\ row.owner = call[h].att
            \/ row.status # "applying"
<1>1. row \in Rows
  BY DEF TypeOK, JournalTypeOK
<1>2. PICK cur \in Loads : row' = Transitioned(cur, {"applying"}, next, call[h].att)
  BY DEF LeaveApplying
<1>3. cur \in Rows /\ (cur.status = "applying" => cur = row)
  BY <1>1, LoadsAreRows, LoadsKeepOwners DEF Loads
<1>4. \/ row' = cur
      \/ row'.status = next /\ cur = row /\ row.owner = call[h].att
  BY <1>2, <1>3, TransitionedOwner
<1>5. cur = row \/ cur.status \notin {"conflict", "rejected"}
  BY <1>1 DEF Loads, LoadsOf, Swept, Expired, Released, Rows
<1>6. OwnedCall(h) /\ call'[h] = Idle
  BY ReturnsOwned DEF LeaveApplying
<1>. QED
  BY <1>3, <1>4, <1>5, <1>6 DEF OwnedRow, OwnerInv

LEMMA LoadedOwned ==
  ASSUME TypeOK, OwnerInv, NEW cur \in Loads
  PROVE  /\ cur \in Rows /\ OwnedRow(cur)
         /\ cur.status \in Statuses
         /\ cur.status \in {"conflict", "rejected"} => cur = row
         /\ row.status = "applying" => cur = row \/ ~lease[row.proc]
<1>1. row \in Rows
  BY DEF TypeOK, JournalTypeOK
<1>2. cur \in Rows /\ (cur.status = "applying" => cur = row)
  BY <1>1, LoadsAreRows, LoadsKeepOwners DEF Loads
<1>3. cur = row \/ cur.status \notin {"conflict", "rejected"}
  BY <1>1 DEF Loads, LoadsOf, Swept, Expired, Released, Rows
<1>4. row.status = "applying" => cur = row \/ ~lease[row.proc]
  BY FreshLoads DEF OwnerInv, OwnedRow
<1>. QED
  BY <1>2, <1>3, <1>4 DEF OwnedRow, OwnerInv, Rows

LEMMA ObservedOwned ==
  ASSUME TypeOK, OwnerInv, NEW seen, NEW answer, NEW r \in ObserverRows(seen, answer)
  PROVE  /\ r \in Rows /\ OwnedRow(r)
         /\ r.status \in {"conflict", "rejected"} /\ row.status = "applying" =>
              ~lease[row.proc] /\ seen = "outcome_unknown" /\ answer = "elsewhere"
         /\ row.status = "applying" /\ lease[row.proc] =>
              r = row \/ r.status = "committed"
<1>1. row \in Rows
  BY DEF TypeOK, JournalTypeOK
<1>2. r \in Rows
  BY <1>1, ObserverRowsAreRows
<1>3. CASE r = row
  BY <1>1, <1>3 DEF OwnerInv
<1>4. ASSUME NEW cur \in Loads, r = CommittedOnProof(cur)
      PROVE  /\ OwnedRow(r)
             /\ r.status \notin {"conflict", "rejected"} \/ r = row
             /\ row.status = "applying" /\ lease[row.proc] =>
                  r = row \/ r.status = "committed"
  BY <1>4, LoadedOwned DEF CommittedOnProof, Released, Rows, OwnedRow, OwnerInv
<1>5. ASSUME NEW cur \in Loads, NEW next \in {"committed", "conflict"},
             r = Transitioned(cur, {"outcome_unknown"}, next, NoAttempt)
      PROVE  /\ OwnedRow(r)
             /\ r.status \in {"conflict", "rejected"} /\ row.status = "applying" =>
                  ~lease[row.proc]
             /\ row.status = "applying" /\ lease[row.proc] => r = row
  <2>1. /\ cur \in Rows /\ OwnedRow(cur)
        /\ cur.status \in {"conflict", "rejected"} => cur = row
        /\ row.status = "applying" => cur = row \/ ~lease[row.proc]
    BY LoadedOwned
  <2>2. r = cur \/ (r.status = next /\ cur.status = "outcome_unknown")
    BY <1>5, <2>1, TransitionedOwner
  <2>. QED
    BY <2>1, <2>2 DEF OwnedRow
<1>6. \/ r = row
      \/ \E cur \in Loads : r = CommittedOnProof(cur)
      \/ /\ answer # "elsewhere" \/ seen # "outcome_unknown"
         /\ \E cur \in Loads :
              r = Transitioned(cur, {"outcome_unknown"}, "committed", NoAttempt)
      \/ /\ answer = "elsewhere" /\ seen = "outcome_unknown"
         /\ \E cur \in Loads :
              r = Transitioned(cur, {"outcome_unknown"}, "conflict", NoAttempt)
  BY DEF ObserverRows
<1>7. \A cur \in Loads :
        r = Transitioned(cur, {"outcome_unknown"}, "committed", NoAttempt)
        => r.status \notin {"conflict", "rejected"} \/ r = row
  BY LoadedOwned, TransitionedOwner
<1>. QED
  BY <1>2, <1>3, <1>4, <1>5, <1>6, <1>7

(* What OnlyOwnerRefuses and LiveOwnerKeepsPlan ask of a step.             *)
RefusesAsOwner ==
  row.status = "applying" /\ row'.status \in {"conflict", "rejected"} =>
    \E h \in Calls :
      /\ call[h].pc # "idle" /\ call'[h] = Idle
      /\ \/ call[h].att = row.owner
         \/ call[h].att = NoAttempt /\ ~lease[row.proc]

KeepsLiveOwner ==
  /\ row.status = "applying"
  /\ lease[row.proc]
  /\ row'.owner # row.owner
  /\ row'.status # "committed"
  => \/ \E h \in Calls : call[h].att = row.owner /\ call'[h] = Idle
     \/ up'[row.proc] = "down"

CallOwnership(h) ==
  OwnedRow(row') /\ OwnedCall(h) /\ RefusesAsOwner /\ KeepsLiveOwner

(* The owner's own call leaves applying. *)
LEMMA LeavingOwnership ==
  ASSUME TypeOK, OwnerInv, NEW h \in Calls, call[h].pc # "idle",
         NEW next \in {"committed", "conflict", "rejected", "outcome_unknown"},
         LeaveApplying(h, next)
  PROVE  CallOwnership(h)
<1>1. row \in Rows
  BY DEF TypeOK, JournalTypeOK
<1>2. /\ OwnedRow(row') /\ OwnedCall(h) /\ call'[h] = Idle
      /\ \/ row'.status \notin {"conflict", "rejected"}
         \/ row' = row
         \/ row.status = "applying" /\ row.owner = call[h].att
         \/ row.status # "applying"
  BY LeavingOwned
<1>3. PICK cur \in Loads : row' = Transitioned(cur, {"applying"}, next, call[h].att)
  BY DEF LeaveApplying
<1>4. RefusesAsOwner
  BY <1>2 DEF RefusesAsOwner
<1>5. KeepsLiveOwner
  <2>1. SUFFICES ASSUME row.status = "applying", lease[row.proc], row'.owner # row.owner
                 PROVE  call[h].att = row.owner
    BY <1>2 DEF KeepsLiveOwner
  <2>2. cur = row
    BY <2>1, LoadedOwned
  <2>. QED
    BY <1>1, <1>3, <2>1, <2>2, TransitionedOwner
<1>. QED
  BY <1>2, <1>4, <1>5 DEF CallOwnership

(* A call leaves the row as it was loaded. *)
LEMMA LoadingOwnership ==
  ASSUME TypeOK, OwnerInv, NEW h \in Calls, row' \in Loads, OwnedCall(h)
  PROVE  CallOwnership(h)
  BY LoadedOwned DEF CallOwnership, RefusesAsOwner, KeepsLiveOwner

LEMMA RowItselfLoads == row \in Loads
  BY DEF Loads, LoadsOf

(* A call starts an attempt of a row that nobody executes. *)
LEMMA StartingOwnership ==
  ASSUME TypeOK, OwnerInv, NEW h \in Calls, NEW p \in Procs,
         NEW cur \in Loads, cur.status \in {"planned", "outcome_unknown"},
         NEW a, NEW b, row' = Started(cur, p, a),
         call' = [call EXCEPT ![h] = Executing(p, a, b)]
  PROVE  CallOwnership(h)
<1>1. cur \in Rows /\ (row.status = "applying" => ~lease[row.proc])
  BY LoadedOwned
<1>2. row'.status = "applying" /\ row'.proc = p
  BY <1>1 DEF Started, Rows
<1>3. OwnedCall(h)
  BY ExecutesOwned
<1>. QED
  BY <1>1, <1>2, <1>3 DEF CallOwnership, OwnedRow, RefusesAsOwner, KeepsLiveOwner

LEMMA EntryOwnership ==
  ASSUME TypeOK, OwnerInv, NEW h \in Calls, NEW p \in Procs,
         \/ Apply(h, p) \/ Status(h, p) \/ Recover(h, p) \/ Close(h, p)
  PROVE  CallOwnership(h)
<1>1. ASSUME call' = call PROVE OwnedCall(h)
  BY <1>1 DEF OwnedCall, OwnerInv
<1>2. ASSUME NEW ph, Inquire(h, p, ph)
      PROVE  CallOwnership(h)
  <2>1. PICK cur \in Loads :
          /\ row' = cur
          /\ call' = call \/ call' = [call EXCEPT ![h] = Watching(p, ph, cur.status)]
    BY <1>2 DEF Inquire
  <2>2. OwnedCall(h)
    BY <1>1, <2>1, WatchesOwned
  <2>. QED
    BY <2>1, <2>2, LoadingOwnership
<1>3. ASSUME Apply(h, p)
      PROVE  CallOwnership(h)
  <2>1. PICK cur \in Loads :
          \/ /\ cur.status = "planned"
             /\ \E a \in FreshAttempts(cur) :
                  /\ row' = Started(cur, p, a)
                  /\ call' = [call EXCEPT ![h] = Executing(p, a, FALSE)]
          \/ /\ row' = cur
             /\ \/ call' = call
                \/ call' = [call EXCEPT ![h] = Watching(p, "observe", cur.status)]
    BY <1>3 DEF Apply
  <2>2. ASSUME cur.status = "planned", NEW a \in FreshAttempts(cur),
               row' = Started(cur, p, a),
               call' = [call EXCEPT ![h] = Executing(p, a, FALSE)]
        PROVE  CallOwnership(h)
    BY <2>2, StartingOwnership
  <2>3. ASSUME row' = cur,
               \/ call' = call
               \/ call' = [call EXCEPT ![h] = Watching(p, "observe", cur.status)]
        PROVE  CallOwnership(h)
    BY <1>1, <2>3, WatchesOwned, LoadingOwnership
  <2>. QED
    BY <2>1, <2>2, <2>3
<1>. QED
  BY <1>2, <1>3 DEF Status, Recover, Close

(* The executor's steps. *)
LEMMA ExecutorOwnership ==
  ASSUME TypeOK, OwnerInv, NEW h \in Calls,
         \/ StatusFailed(h) \/ StatusRefuses(h) \/ RecordAttempt(h)
         \/ AttemptLimitReached(h) \/ PreflightFailed(h) \/ PreflightConflicts(h)
         \/ Dispatch(h) \/ CasCommits(h) \/ CasForbidden(h) \/ CasConflicts(h)
         \/ CasErrs(h) \/ ReconcileConflict(h) \/ ReconcileError(h)
  PROVE  CallOwnership(h)
<1>1. CASE \/ StatusFailed(h) \/ StatusRefuses(h) \/ AttemptLimitReached(h)
           \/ PreflightFailed(h) \/ PreflightConflicts(h)
           \/ CasCommits(h) \/ CasForbidden(h)
  BY <1>1, LeavingOwnership
  DEF StatusFailed, StatusRefuses, AttemptLimitReached, PreflightFailed,
      PreflightConflicts, CasCommits, CasForbidden, Answered
<1>2. CASE ReconcileConflict(h) \/ ReconcileError(h)
  <2>1. /\ ConflictOutcome(h) \in {"committed", "conflict", "rejected", "outcome_unknown"}
        /\ ErrorOutcome(h) \in {"committed", "conflict", "rejected", "outcome_unknown"}
    BY DEF ConflictOutcome, ErrorOutcome
  <2>. QED
    BY <1>2, <2>1, LeavingOwnership DEF ReconcileConflict, ReconcileError, Answered
<1>3. CASE Dispatch(h) \/ CasConflicts(h) \/ CasErrs(h)
  <2>1. PICK ph \in {"waiting", "conflict", "error"} : Continues(h, ph)
    BY <1>3 DEF Dispatch, CasConflicts, CasErrs
  <2>2. row' = row /\ call[h].pc # "idle"
    BY <1>3 DEF Dispatch, CasConflicts, CasErrs, Answered, journalVars
  <2>3. OwnedCall(h)
    BY <2>1, <2>2, ContinuesOwned DEF Phases, ReadPhases, Watchers
  <2>. QED
    BY <2>2, <2>3, RowItselfLoads, LoadingOwnership
<1>4. CASE RecordAttempt(h)
  <2>1. PICK cur \in Loads :
          \/ /\ MayRecord(cur, call[h].att)
             /\ row' = Recorded(cur, call[h].epoch, call[h].att)
             /\ Continues(h, "preflight")
          \/ row' = cur /\ Returns(h)
    BY <1>4 DEF RecordAttempt
  <2>2. CASE row' = cur /\ Returns(h)
    BY <2>2, ReturnsOwned, LoadingOwnership
  <2>3. CASE /\ MayRecord(cur, call[h].att)
             /\ row' = Recorded(cur, call[h].epoch, call[h].att)
             /\ Continues(h, "preflight")
    <3>1. cur \in Rows /\ cur.status = "applying" /\ cur = row
      BY <2>3, LoadedOwned, LoadsKeepOwners DEF MayRecord, TypeOK, JournalTypeOK, Loads
    <3>2. row'.status = "applying" /\ row'.owner = row.owner /\ row'.proc = row.proc
      BY <2>3, <3>1 DEF Recorded, Rows
    <3>3. OwnedCall(h)
      BY <1>4, <2>3, ContinuesOwned DEF RecordAttempt, Answered, Phases, ReadPhases, Watchers
    <3>. QED
      BY <3>2, <3>3, <3>1 DEF CallOwnership, OwnedRow, OwnerInv, RefusesAsOwner, KeepsLiveOwner
  <2>. QED
    BY <2>1, <2>2, <2>3
<1>. QED
  BY <1>1, <1>2, <1>3, <1>4

(* The steps of a call that only watches. *)
LEMMA ObservingOwnership ==
  ASSUME TypeOK, OwnerInv, NEW h \in Calls, call[h].pc \in Watchers,
         NEW seen, NEW answer, row' \in ObserverRows(seen, answer), OwnedCall(h),
         call'[h] = Idle \/ answer # "elsewhere"
  PROVE  CallOwnership(h)
<1>1. call[h].pc # "idle" /\ call[h].att = NoAttempt
  BY DEF OwnerInv, Watchers
<1>. QED
  BY <1>1, ObservedOwned DEF CallOwnership, RefusesAsOwner, KeepsLiveOwner

LEMMA WatcherOwnership ==
  ASSUME TypeOK, OwnerInv, NEW h \in Calls,
         \/ Observe(h) \/ RecoverReconciles(h) \/ RecoverSettles(h)
         \/ RecoverStarts(h) \/ CloseReconciles(h) \/ CloseResolves(h)
         \/ CloseRefused(h) \/ CloseCommits(h)
  PROVE  CallOwnership(h)
<1>1. CASE Observe(h) \/ RecoverSettles(h)
  <2>1. /\ call[h].pc \in Watchers /\ Returns(h)
        /\ \E seen \in {call[h].seen, "outcome_unknown"} :
             row' \in ObserverRows(seen, call[h].answer)
    BY <1>1 DEF Observe, RecoverSettles, Answered, Watchers
  <2>. QED
    BY <2>1, ReturnsOwned, ObservingOwnership
<1>2. CASE RecoverReconciles(h)
  <2>1. /\ call[h].pc \in Watchers /\ call[h].pc # "idle"
        /\ row' \in ObserverRows(call[h].seen, call[h].answer)
        /\ \/ Returns(h)
           \/ Continues(h, "recheck") /\ call[h].answer # "elsewhere"
    BY <1>2 DEF RecoverReconciles, Answered, Watchers
  <2>2. call[h].att = NoAttempt
    BY <2>1 DEF OwnerInv
  <2>3. CASE Returns(h)
    BY <2>1, <2>3, ReturnsOwned, ObservingOwnership
  <2>4. CASE Continues(h, "recheck") /\ call[h].answer # "elsewhere"
    <3>1. OwnedCall(h)
      BY <2>1, <2>2, <2>4, ContinuesOwned DEF Phases, ReadPhases
    <3>. QED
      BY <2>1, <2>4, <3>1, ObservingOwnership
  <2>. QED
    BY <2>1, <2>3, <2>4
<1>3. CASE RecoverStarts(h)
  <2>1. call[h].proc \in Procs
    BY <1>3 DEF RecoverStarts, Answered, OwnerInv
  <2>2. PICK cur \in Loads :
          \/ /\ cur.status = "outcome_unknown"
             /\ \E a \in FreshAttempts(cur) :
                  /\ row' = Started(cur, call[h].proc, a)
                  /\ call' = [call EXCEPT ![h] = Executing(call[h].proc, a, TRUE)]
          \/ row' = cur /\ Returns(h)
    BY <1>3 DEF RecoverStarts
  <2>3. CASE row' = cur /\ Returns(h)
    BY <2>3, ReturnsOwned, LoadingOwnership
  <2>4. ASSUME cur.status = "outcome_unknown", NEW a \in FreshAttempts(cur),
               row' = Started(cur, call[h].proc, a),
               call' = [call EXCEPT ![h] = Executing(call[h].proc, a, TRUE)]
        PROVE  CallOwnership(h)
    <3>1. PICK p \in Procs : p = call[h].proc
      BY <2>1
    <3>. QED
      BY <2>4, <3>1, StartingOwnership
  <2>. QED
    BY <2>2, <2>3, <2>4
<1>4. CASE CloseReconciles(h)
  <2>1. call[h].pc = "closeObserve"
    BY <1>4 DEF CloseReconciles, Answered
  <2>2. call[h].att = NoAttempt /\ call[h].proc \in Procs /\ call[h] \in CallStates
    BY <2>1 DEF OwnerInv, Watchers, TypeOK
  <2>0. PICK r \in ObserverRows(call[h].seen, call[h].answer) :
          \E cur \in LoadsOf(r) :
            /\ row' = cur
            /\ call' =
                 IF cur.status = "outcome_unknown"
                 THEN [call EXCEPT ![h].pc = "closeResolve",
                                   ![h].answer = "pending",
                                   ![h].observed = cur]
                 ELSE [call EXCEPT ![h] = Idle]
    BY <1>4 DEF CloseReconciles
  <2>3. PICK cur \in LoadsOf(r) :
          /\ row' = cur
          /\ call' =
               IF cur.status = "outcome_unknown"
               THEN [call EXCEPT ![h].pc = "closeResolve",
                                 ![h].answer = "pending",
                                 ![h].observed = cur]
               ELSE [call EXCEPT ![h] = Idle]
    BY <2>0
  <2>4. /\ r \in Rows /\ OwnedRow(r)
        /\ r.status \in {"conflict", "rejected"} /\ row.status = "applying" =>
             ~lease[row.proc]
        /\ row.status = "applying" /\ lease[row.proc] =>
             r = row \/ r.status = "committed"
    BY ObservedOwned
  <2>5. /\ cur.status = "applying" => cur = r
        /\ cur = r \/ cur.status \notin {"conflict", "rejected"}
        /\ r.status = "committed" => cur = r
    BY <2>4 DEF LoadsOf, Swept, Expired, Released, Rows
  <2>6. row.status = "applying" /\ lease[row.proc] =>
          cur = row \/ cur.status = "committed"
    BY <2>4, <2>5, FreshLoads DEF Loads, OwnerInv, OwnedRow
  <2>7. OwnedCall(h) /\ (cur.status # "outcome_unknown" => call'[h] = Idle)
    <3>1. CASE cur.status = "outcome_unknown"
      <4>1. /\ call'[h] = [call[h] EXCEPT !.pc = "closeResolve",
                                          !.answer = "pending", !.observed = cur]
            /\ \A k \in Calls \ {h} : call'[k] = call[k]
        BY <2>3, <3>1 DEF TypeOK
      <4>2. call'[h].proc = call[h].proc /\ call'[h].att = call[h].att
        BY <2>2, <4>1 DEF CallStates
      <4>. QED
        BY <2>2, <3>1, <4>1, <4>2 DEF OwnedCall
    <3>2. CASE cur.status # "outcome_unknown"
      <4>1. Returns(h)
        BY <2>3, <3>2 DEF Returns
      <4>. QED
        BY <3>2, <4>1, ReturnsOwned
    <3>. QED
      BY <3>1, <3>2
  <2>8. OwnedRow(row')
    BY <2>3, <2>4, <2>5 DEF OwnedRow
  <2>9. RefusesAsOwner
    BY <2>1, <2>2, <2>3, <2>4, <2>5, <2>7 DEF RefusesAsOwner
  <2>10. KeepsLiveOwner
    BY <2>3, <2>6 DEF KeepsLiveOwner
  <2>. QED
    BY <2>7, <2>8, <2>9, <2>10 DEF CallOwnership
<1>5. CASE CloseResolves(h) \/ CloseRefused(h)
  <2>1. /\ row' = row /\ call[h].pc = "closeResolve"
        /\ Returns(h) \/ Continues(h, "closeCommit")
    BY <1>5 DEF CloseResolves, CloseRefused, journalVars
  <2>2. call[h].att = NoAttempt
    BY <2>1 DEF OwnerInv, Watchers
  <2>3. OwnedCall(h)
    BY <2>1, <2>2, ReturnsOwned, ContinuesOwned DEF Phases, ReadPhases
  <2>. QED
    BY <2>1, <2>3, RowItselfLoads, LoadingOwnership
<1>6. CASE CloseCommits(h)
  <2>1. OwnedCall(h)
    BY <1>6, ReturnsOwned DEF CloseCommits
  <2>2. CASE row' \in Loads
    BY <2>1, <2>2, LoadingOwnership
  <2>3. CASE MayClose(call[h].observed) /\ row' = Released(row, "reviewed_unverified")
    <3>1. row.status = "outcome_unknown"
      BY <2>3 DEF MayClose
    <3>2. row'.status = "reviewed_unverified"
      BY <2>3 DEF Released, TypeOK, JournalTypeOK, Rows
    <3>. QED
      BY <2>1, <3>1, <3>2 DEF CallOwnership, OwnedRow, RefusesAsOwner, KeepsLiveOwner
  <2>. QED
    BY <1>6, <2>2, <2>3 DEF CloseCommits
<1>. QED
  BY <1>1, <1>2, <1>3, <1>4, <1>5, <1>6

(* A step of the environment, of an answer or of a request. *)
LEMMA OtherOwnership ==
  ASSUME TypeInv, OwnerInv,
         \/ \E h \in Calls : Answer(h)
         \/ \E a \in Attempts : RequestStep(a)
         \/ Environment
         \/ UNCHANGED vars
  PROVE  OwnerInv' /\ RefusesAsOwner /\ KeepsLiveOwner
<1>. USE DEF TypeInv
<1>1. row \in Rows /\ call \in [Calls -> CallStates]
  BY DEF TypeOK, JournalTypeOK
<1>2. Idle.pc = "idle" /\ Idle.pc \notin Watchers
  BY DEF Idle, Watchers
<1>3. ASSUME row' = row, \A h \in Calls : call'[h].pc = call[h].pc
                             /\ call'[h].proc = call[h].proc /\ call'[h].att = call[h].att
      PROVE  OwnerInv' /\ RefusesAsOwner /\ KeepsLiveOwner
  BY <1>3 DEF OwnerInv, OwnedRow, RefusesAsOwner, KeepsLiveOwner
<1>4. ASSUME NEW h \in Calls, Answer(h)
      PROVE  OwnerInv' /\ RefusesAsOwner /\ KeepsLiveOwner
  <2>1. row' = row
    BY <1>4 DEF Answer, BridgeReads, BridgeStatus, RequestFails, journalVars
  <2>2. \/ \E x : call' = [call EXCEPT ![h].answer = x]
        \/ \E x, y : call' = [call EXCEPT ![h].answer = x, ![h].epoch = y]
    BY <1>4 DEF Answer, BridgeReads, BridgeStatus, RequestFails
  <2>3. \A k \in Calls : call'[k].pc = call[k].pc
                         /\ call'[k].proc = call[k].proc /\ call'[k].att = call[k].att
    <3>1. ASSUME NEW x, call' = [call EXCEPT ![h].answer = x], NEW k \in Calls
          PROVE  call'[k].pc = call[k].pc
                 /\ call'[k].proc = call[k].proc /\ call'[k].att = call[k].att
      <4>1. call'[k] = IF k = h THEN [call[h] EXCEPT !.answer = x] ELSE call[k]
        BY <1>1, <3>1
      <4>. QED
        BY <1>1, <4>1 DEF CallStates
    <3>2. ASSUME NEW x, NEW y, call' = [call EXCEPT ![h].answer = x, ![h].epoch = y],
                 NEW k \in Calls
          PROVE  call'[k].pc = call[k].pc
                 /\ call'[k].proc = call[k].proc /\ call'[k].att = call[k].att
      <4>1. call'[k] = IF k = h THEN [call[h] EXCEPT !.answer = x, !.epoch = y]
                       ELSE call[k]
        BY <1>1, <3>2
      <4>. QED
        BY <1>1, <4>1 DEF CallStates
    <3>. QED
      BY <2>2, <3>1, <3>2
  <2>. QED
    BY <1>3, <2>1, <2>3
<1>5. ASSUME NEW a \in Attempts, RequestStep(a)
      PROVE  OwnerInv' /\ RefusesAsOwner /\ KeepsLiveOwner
  <2>1. row' = row /\ call' = call
    BY <1>5 DEF RequestStep, AdmitRequest, HashConflict, PassFence, FenceRefuses,
         WriteLands, WriteFails, LoseRequest, journalVars
  <2>. QED
    BY <1>3, <2>1
<1>6. CASE UNCHANGED vars
  BY <1>3, <1>6 DEF vars
<1>7. CASE \/ UnloadBridge \/ \E e \in Epochs : LoadBridge(e)
           \/ \E landed \in SUBSET InFlight : QuitObsidian(landed)
           \/ ToggleWrites \/ Retarget
           \/ \E content \in Contents : EditNote(content)
  <2>1. row' = row /\ call' = call
    BY <1>7 DEF UnloadBridge, LoadBridge, QuitObsidian, ToggleWrites, Retarget,
         EditNote, journalVars
  <2>. QED
    BY <1>3, <2>1
<1>8. ASSUME NEW p \in Procs, Heartbeat(p) \/ Lapse(p)
      PROVE  OwnerInv' /\ RefusesAsOwner /\ KeepsLiveOwner
  <2>1. row' = row /\ call' = call
    BY <1>8 DEF Heartbeat, Lapse, RenewLease, LeaseLapses
  <2>. QED
    BY <1>3, <2>1
<1>9. ASSUME NEW p \in Procs, Start(p)
      PROVE  OwnerInv' /\ RefusesAsOwner /\ KeepsLiveOwner
  <2>. DEFINE s == Swept(row)
  <2>1. call' = call /\ row' \in {s, Expired(s)}
    BY <1>9 DEF Start, StartRuntime
  <2>2. s = row \/ (s.status = "outcome_unknown" /\ row.status = "applying")
    BY <1>1 DEF Swept, Released, Rows
  <2>3. row.status = "applying" /\ lease[row.proc] => s = row
    BY FreshLoads DEF OwnerInv, OwnedRow
  <2>4. row' = s \/ (row'.status = "expired" /\ s.status = "planned")
    BY <1>1, <2>1, <2>2 DEF Expired, Released, Rows
  <2>5. OwnerInv'
    BY <2>1, <2>2, <2>4 DEF OwnerInv, OwnedRow
  <2>6. RefusesAsOwner
    BY <2>2, <2>4 DEF RefusesAsOwner
  <2>7. KeepsLiveOwner
    BY <2>2, <2>3, <2>4 DEF KeepsLiveOwner
  <2>. QED
    BY <2>5, <2>6, <2>7
<1>10. ASSUME NEW p \in Procs, Stop(p) \/ Crash(p)
       PROVE  OwnerInv' /\ RefusesAsOwner /\ KeepsLiveOwner
  <2>1. /\ \A h \in Calls : call'[h] \in {call[h], Idle}
        /\ up' = [up EXCEPT ![p] = "down"]
        /\ \/ row' = row
           \/ row.status = "applying" /\ row.proc = p /\ row' = Released(row, "outcome_unknown")
    BY <1>10 DEF Stop, Crash, CloseRuntime, CrashRuntime, CallsWithout
  <2>2. row' = row \/ (row'.status = "outcome_unknown" /\ row.proc = p)
    BY <1>1, <2>1 DEF Released, Rows
  <2>3. up'[p] = "down"
    BY <2>1 DEF TypeOK, JournalTypeOK
  <2>4. OwnerInv'
    BY <1>2, <2>1, <2>2 DEF OwnerInv, OwnedRow
  <2>. QED
    BY <2>2, <2>3, <2>4 DEF RefusesAsOwner, KeepsLiveOwner
<1>. QED
  BY <1>4, <1>5, <1>6, <1>7, <1>8, <1>9, <1>10 DEF Environment

LEMMA OwnershipStep ==
  ASSUME Inv, OwnerInv, [Next]_vars
  PROVE  OwnerInv' /\ RefusesAsOwner /\ KeepsLiveOwner
<1>1. TypeOK /\ TypeInv
  BY DEF Inv, TypeInv
<1>2. ASSUME NEW h \in Calls, CallOwnership(h)
      PROVE  OwnerInv' /\ RefusesAsOwner /\ KeepsLiveOwner
  BY <1>2 DEF CallOwnership, OwnedCall, OwnerInv
<1>3. ASSUME NEW h \in Calls, NEW p \in Procs,
             \/ Apply(h, p) \/ Status(h, p) \/ Recover(h, p) \/ Close(h, p)
      PROVE  CallOwnership(h)
  BY <1>1, <1>3, EntryOwnership
<1>4. ASSUME NEW h \in Calls, CallStep(h)
      PROVE  CallOwnership(h)
  BY <1>1, <1>4, ExecutorOwnership, WatcherOwnership DEF CallStep
<1>. QED
  BY <1>1, <1>2, <1>3, <1>4, OtherOwnership DEF Next

LEMMA OwnershipHolds == Spec => [](Inv /\ OwnerInv)
<1>1. Init => OwnerInv
  BY DEF Init, JournalInit, PlannedRow, Idle, OwnerInv, OwnedRow, Watchers
<1>2. Inv /\ OwnerInv /\ [Next]_vars => OwnerInv'
  BY OwnershipStep
<1>. QED
  BY <1>1, <1>2, Invariance, PTL DEF Spec

(* A plan being applied is refused only by the executor that owns it, or   *)
(* by a call without an attempt after the owner's lease expired; a stale   *)
(* executor, swept or taken over, refuses nothing.                         *)
THEOREM OnlyOwnersRefuse == Spec => OnlyOwnerRefuses
<1>1. Inv /\ OwnerInv /\ [Next]_vars =>
        [row.status = "applying" /\ row'.status \in {"conflict", "rejected"}
         => \E h \in Calls :
              /\ call[h].pc # "idle" /\ call'[h] = Idle
              /\ \/ call[h].att = row.owner
                 \/ call[h].att = NoAttempt /\ ~lease[row.proc]]_vars
  BY OwnershipStep DEF RefusesAsOwner
<1>. QED
  BY <1>1, OwnershipHolds, PTL DEF Spec, OnlyOwnerRefuses

(* While its owner's lease is fresh, an applying plan is interrupted only  *)
(* by the owner's own call or the end of its process: no sweep, recovery,  *)
(* status call or closure of another process takes it.                     *)
THEOREM LiveOwnersKeepPlans == Spec => LiveOwnerKeepsPlan
<1>1. Inv /\ OwnerInv /\ [Next]_vars =>
        [/\ row.status = "applying"
         /\ lease[row.proc]
         /\ row'.owner # row.owner
         /\ row'.status # "committed"
         => \/ \E h \in Calls : call[h].att = row.owner /\ call'[h] = Idle
            \/ up'[row.proc] = "down"]_vars
  BY OwnershipStep DEF KeepsLiveOwner
<1>. QED
  BY <1>1, OwnershipHolds, PTL DEF Spec, LiveOwnerKeepsPlan

-----------------------------------------------------------------------------
(* The number of effects.                                                  *)

(* Unless the sealed content is restored, the note shows it only as long   *)
(* as nothing was written, and an effect under way found it so.            *)
OneEffectInv ==
  "revert" \notin Faults =>
    /\ note = "before" => written = {}
    /\ \A a \in Attempts : req[a] = "running" => note = "before"
    /\ \A a, b \in written : a = b

LEMMA OneEffectStep ==
  ASSUME Inv, OneEffectInv, [Next]_vars
  PROVE  OneEffectInv'
<1>. SUFFICES ASSUME "revert" \notin Faults
              PROVE  OneEffectInv'
  BY DEF OneEffectInv
<1>1. /\ req \in [Attempts -> RequestStates] /\ written \subseteq Attempts
      /\ note = "before" => written = {}
      /\ \A a \in Attempts : req[a] = "running" => note = "before"
      /\ \A a, b \in written : a = b
      /\ \A a, b \in Attempts : req[a] = "running" /\ req[b] = "running" => a = b
      /\ \A a \in Attempts : req[a] = "running" => TokenOf(a) \in running
  BY DEF Inv, TypeInv, TypeOK, OneEffectInv, RequestInv
<1>2. ASSUME note' = note, written' = written,
             \A a \in Attempts : req'[a] = "running" => req[a] = "running"
      PROVE  OneEffectInv'
  BY <1>1, <1>2 DEF OneEffectInv
<1>3. ASSUME UNCHANGED bridgeVars
      PROVE  OneEffectInv'
  BY <1>2, <1>3 DEF bridgeVars
<1>4. ASSUME NEW h \in Calls, Dispatch(h)
      PROVE  OneEffectInv'
  <2>1. /\ req' = [req EXCEPT ![call[h].att] = "sent"]
        /\ note' = note /\ written' = written
    BY <1>4 DEF Dispatch
  <2>2. \A a \in Attempts : req'[a] = "running" => req[a] = "running"
    BY <1>1, <2>1
  <2>. QED
    BY <1>2, <2>1, <2>2
<1>5. ASSUME NEW h \in Calls, CallStep(h) \/ Answer(h), ~Dispatch(h)
      PROVE  UNCHANGED bridgeVars
  BY <1>5 DEF CallStep, Answer, StatusFailed, StatusRefuses, RecordAttempt,
       AttemptLimitReached, PreflightFailed, PreflightConflicts, CasCommits,
       CasForbidden, CasConflicts, CasErrs, ReconcileConflict, ReconcileError,
       Observe, RecoverReconciles, RecoverSettles, RecoverStarts, CloseReconciles,
       CloseResolves, CloseRefused, CloseCommits, LeaveApplying, JournalOnly,
       BridgeReads, BridgeStatus, RequestFails
<1>6. ASSUME NEW h \in Calls, NEW p \in Procs,
             \/ Apply(h, p) \/ Status(h, p) \/ Recover(h, p) \/ Close(h, p)
      PROVE  UNCHANGED bridgeVars
  BY <1>6 DEF Apply, Status, Recover, Close, Inquire, JournalOnly
<1>7. ASSUME NEW a \in Attempts, RequestStep(a)
      PROVE  OneEffectInv'
  <2>1. CASE PassFence(a)
    BY <1>1, <2>1 DEF PassFence, RequestMoves, OneEffectInv
  <2>2. CASE WriteLands(a)
    <3>1. written = {} /\ written' = {a} /\ note' = "after"
      BY <1>1, <2>2 DEF WriteLands
    <3>2. \A b \in Attempts : req'[b] # "running"
      BY <1>1, <2>2 DEF WriteLands, RequestMoves
    <3>. QED
      BY <3>1, <3>2 DEF OneEffectInv
  <2>3. CASE \/ AdmitRequest(a) \/ HashConflict(a) \/ FenceRefuses(a)
             \/ WriteFails(a) \/ LoseRequest(a)
    <3>1. note' = note /\ written' = written
      BY <2>3 DEF AdmitRequest, HashConflict, FenceRefuses, WriteFails, LoseRequest
    <3>2. \E s : RequestMoves(a, s) /\ s # "running"
      BY <2>3 DEF AdmitRequest, HashConflict, FenceRefuses, WriteFails, LoseRequest
    <3>3. \A b \in Attempts : req'[b] = "running" => req[b] = "running"
      BY <1>1, <3>2 DEF RequestMoves
    <3>. QED
      BY <1>2, <3>1, <3>3
  <2>. QED
    BY <1>7, <2>1, <2>2, <2>3 DEF RequestStep
<1>8. ASSUME NEW landed \in SUBSET InFlight, QuitObsidian(landed)
      PROVE  OneEffectInv'
  <2>1. /\ \A a \in Attempts : req'[a] # "running"
        /\ written' = written \cup landed
        /\ note' = IF landed = {} THEN note ELSE "after"
    BY <1>1, <1>8 DEF QuitObsidian
  <2>2. CASE landed = {}
    BY <1>1, <2>1, <2>2 DEF OneEffectInv
  <2>3. CASE landed # {}
    <3>1. written = {} /\ (\A a, b \in landed : a = b)
      BY <1>1, <2>3 DEF InFlight
    <3>. QED
      BY <2>1, <2>3, <3>1 DEF OneEffectInv
  <2>. QED
    BY <2>2, <2>3
<1>9. ASSUME NEW content \in Contents, EditNote(content)
      PROVE  OneEffectInv'
  <2>1. /\ note' = "other" /\ req' = req /\ written' = written /\ running = {}
    BY <1>9 DEF EditNote
  <2>. QED
    BY <1>1, <2>1 DEF OneEffectInv
<1>10. ASSUME \/ \E p \in Procs : Start(p) \/ Heartbeat(p) \/ Lapse(p) \/ Stop(p) \/ Crash(p)
              \/ UnloadBridge \/ \E e \in Epochs : LoadBridge(e)
              \/ ToggleWrites \/ Retarget \/ UNCHANGED vars
       PROVE  OneEffectInv'
  BY <1>2, <1>10 DEF Start, Heartbeat, Lapse, Stop, Crash, UnloadBridge, LoadBridge,
       ToggleWrites, Retarget, vars, bridgeVars
<1>. QED
  BY <1>3, <1>4, <1>5, <1>6, <1>7, <1>8, <1>9, <1>10 DEF Next, Environment

(* However often a plan is retried and recovered, its content is written   *)
(* at most once, unless someone restored the sealed content in between.    *)
THEOREM EffectsAreUnique == Spec => []AtMostOneEffect
<1>1. Init => OneEffectInv
  BY DEF Init, OneEffectInv
<1>2. Inv /\ OneEffectInv /\ [Next]_vars => OneEffectInv'
  BY OneEffectStep
<1>3. OneEffectInv => AtMostOneEffect
  <2>. SUFFICES ASSUME OneEffectInv, "revert" \notin Faults
                PROVE  Cardinality(written) <= 1
    BY DEF AtMostOneEffect
  <2>1. CASE written = {}
    BY <2>1, FS_EmptySet
  <2>2. CASE written # {}
    <3>1. PICK a \in written : written = {a}
      BY <2>2 DEF OneEffectInv
    <3>. QED
      BY <3>1, FS_Singleton
  <2>. QED
    BY <2>1, <2>2
<1>. QED
  BY <1>1, <1>2, <1>3, Invariance, PTL DEF Spec

-----------------------------------------------------------------------------
(* The first refusal.                                                      *)

Refusals == {"conflict", "rejected"}

Live == {"sent", "admitted", "running"}

Solo == \A a, b \in row.used : a = b

(* Without a switch of vaults no answer names another vault, an executor   *)
(* that reconciles a conflict had its request refused, and the refusal of  *)
(* a plan executed once leaves nothing behind: no effect, no request under *)
(* way and no executor that could send one.                                *)
FirstInv ==
  "retarget" \notin Faults =>
    /\ target = "sealed"
    /\ \A h \in Calls : call[h].answer # "elsewhere"
    /\ \A h \in Calls : call[h].pc = "conflict" /\ call[h].att # NoAttempt =>
         req[call[h].att] = "conflict"
    /\ row.status \in Refusals /\ Solo =>
         /\ written = {}
         /\ \A a \in Attempts : req[a] \notin Live
         /\ \A h \in Calls : call[h].att = NoAttempt

(* The owner's executor refuses, knowing that its request never started or *)
(* was refused itself.                                                     *)
RefusesKnowingly(h) ==
  /\ call[h].att # NoAttempt
  /\ \/ call[h].pc \in {"status", "preflight"}
     \/ call[h].pc = "waiting" /\ req[call[h].att] = "forbidden"
     \/ call[h].pc = "conflict"
  /\ call'[h] = Idle
  /\ \A k \in Calls \ {h} : call'[k] = call[k]
  /\ row'.used = row.used
  /\ UNCHANGED bridgeVars

LEMMA LoadsRefuseNothing ==
  ASSUME NEW r \in Rows, r.status \notin Refusals, NEW s \in LoadsOf(r)
  PROVE  s.status \notin Refusals
  BY DEF LoadsOf, Swept, Expired, Released, Rows, Refusals

LEMMA LeavingRefuses ==
  ASSUME TypeOK, NEW h \in Calls,
         NEW next \in {"committed", "conflict", "rejected", "outcome_unknown"},
         LeaveApplying(h, next), row'.status \in Refusals, row.status \notin Refusals
  PROVE  /\ next \in Refusals
         /\ call[h].att # NoAttempt
         /\ call'[h] = Idle /\ \A k \in Calls \ {h} : call'[k] = call[k]
         /\ row'.used = row.used
         /\ UNCHANGED bridgeVars
<1>1. row \in Rows
  BY DEF TypeOK, JournalTypeOK
<1>2. PICK cur \in Loads : row' = Transitioned(cur, {"applying"}, next, call[h].att)
  BY DEF LeaveApplying
<1>3. /\ cur \in Rows /\ cur.used = row.used
      /\ cur.status \notin Refusals
  BY <1>1, LoadsAreRows, LoadsEvolve, LoadsRefuseNothing DEF Loads
<1>4. row' # cur
  BY <1>3
<1>5. /\ row' = Released(cur, next)
      /\ cur.status = "applying" /\ call[h].att # NoAttempt
  BY <1>2, <1>4 DEF Transitioned, MayTransition
<1>6. row'.status = next /\ row'.used = cur.used
  BY <1>3, <1>5 DEF Released, Rows
<1>7. call'[h] = Idle /\ \A k \in Calls \ {h} : call'[k] = call[k]
  BY DEF LeaveApplying, Returns, TypeOK
<1>. QED
  BY <1>3, <1>5, <1>6, <1>7 DEF LeaveApplying, JournalOnly

LEMMA ObserversRefuseNothing ==
  ASSUME row \in Rows, row.status \notin Refusals,
         NEW seen, NEW answer, answer # "elsewhere",
         NEW r \in ObserverRows(seen, answer)
  PROVE  r \in Rows /\ r.status \notin Refusals
<1>1. r \in Rows
  BY ObserverRowsAreRows
<1>2. \A cur \in Loads : cur \in Rows /\ cur.status \notin Refusals
  BY LoadsAreRows, LoadsRefuseNothing DEF Loads
<1>3. \A cur \in Loads : CommittedOnProof(cur).status \notin Refusals
  BY <1>2 DEF CommittedOnProof, Released, Rows, Refusals
<1>4. \A cur \in Loads :
        Transitioned(cur, {"outcome_unknown"}, "committed", NoAttempt).status
          \notin Refusals
  BY <1>2 DEF Transitioned, Released, Rows, Refusals
<1>. QED
  BY <1>1, <1>3, <1>4 DEF ObserverRows

LEMMA CallRefuses ==
  ASSUME TypeOK, NEW h \in Calls, CallStep(h), call[h].answer # "elsewhere",
         row'.status \in Refusals, row.status \notin Refusals
  PROVE  RefusesKnowingly(h)
<1>1. row \in Rows
  BY DEF TypeOK, JournalTypeOK
<1>2. \A cur \in Loads : cur \in Rows /\ cur.status \notin Refusals
  BY <1>1, LoadsAreRows, LoadsRefuseNothing DEF Loads
<1>3. /\ "committed" \notin Refusals /\ "outcome_unknown" \notin Refusals
      /\ "applying" \notin Refusals /\ "reviewed_unverified" \notin Refusals
  BY DEF Refusals
<1>4. CASE StatusFailed(h) \/ PreflightFailed(h) \/ CasCommits(h)
  BY <1>3, <1>4, LeavingRefuses DEF StatusFailed, PreflightFailed, CasCommits
<1>5. CASE \/ StatusRefuses(h) \/ AttemptLimitReached(h) \/ PreflightConflicts(h)
           \/ CasForbidden(h)
  BY <1>5, LeavingRefuses DEF StatusRefuses, AttemptLimitReached, PreflightConflicts,
       CasForbidden, Answered, RefusesKnowingly
<1>6. CASE ReconcileConflict(h)
  <2>1. ConflictOutcome(h) \in {"committed", "conflict", "rejected", "outcome_unknown"}
    BY DEF ConflictOutcome
  <2>. QED
    BY <1>6, <2>1, LeavingRefuses DEF ReconcileConflict, Answered, RefusesKnowingly
<1>7. CASE ReconcileError(h)
  <2>1. ErrorOutcome(h) \in {"committed", "outcome_unknown"}
    BY DEF ErrorOutcome
  <2>. QED
    BY <1>3, <1>7, <2>1, LeavingRefuses DEF ReconcileError
<1>8. CASE \/ Dispatch(h) \/ CasConflicts(h) \/ CasErrs(h) \/ CloseResolves(h)
           \/ CloseRefused(h)
  BY <1>8 DEF Dispatch, CasConflicts, CasErrs, CloseResolves, CloseRefused, journalVars
<1>9. CASE RecordAttempt(h)
  BY <1>2, <1>9 DEF RecordAttempt, Recorded, Rows
<1>10. CASE Observe(h) \/ RecoverReconciles(h) \/ RecoverSettles(h)
  BY <1>1, <1>10, ObserversRefuseNothing DEF Observe, RecoverReconciles, RecoverSettles
<1>11. CASE RecoverStarts(h)
  BY <1>2, <1>3, <1>11 DEF RecoverStarts, Started, Rows
<1>12. CASE CloseReconciles(h)
  BY <1>1, <1>12, ObserversRefuseNothing, LoadsRefuseNothing DEF CloseReconciles
<1>13. CASE CloseCommits(h)
  BY <1>1, <1>2, <1>3, <1>13 DEF CloseCommits, Released, Rows
<1>. QED
  BY <1>4, <1>5, <1>6, <1>7, <1>8, <1>9, <1>10, <1>11, <1>12, <1>13 DEF CallStep

LEMMA RefusalOrigins ==
  ASSUME Inv, FirstInv, "retarget" \notin Faults, [Next]_vars,
         row'.status \in Refusals, row.status \notin Refusals
  PROVE  \E h \in Calls : RefusesKnowingly(h)
<1>1. /\ TypeOK /\ row \in Rows
      /\ \A h \in Calls : call[h].answer # "elsewhere"
  BY DEF Inv, TypeInv, TypeOK, JournalTypeOK, FirstInv
<1>2. \A cur \in Loads : cur \in Rows /\ cur.status \notin Refusals
  BY <1>1, LoadsAreRows, LoadsRefuseNothing DEF Loads
<1>3. ASSUME NEW h \in Calls, CallStep(h)
      PROVE  RefusesKnowingly(h)
  BY <1>1, <1>3, CallRefuses
<1>4. ASSUME NEW h \in Calls, NEW p \in Procs,
             \/ Apply(h, p) \/ Status(h, p) \/ Recover(h, p) \/ Close(h, p)
      PROVE  FALSE
  BY <1>2, <1>4 DEF Apply, Status, Recover, Close, Inquire, Started, Rows, Refusals
<1>5. row' # row
  OBVIOUS
<1>6. ASSUME \/ \E h \in Calls : Answer(h)
             \/ \E a \in Attempts : RequestStep(a)
             \/ \E p \in Procs : Heartbeat(p) \/ Lapse(p) \/ Crash(p)
             \/ UnloadBridge \/ \E e \in Epochs : LoadBridge(e)
             \/ \E landed \in SUBSET InFlight : QuitObsidian(landed)
             \/ ToggleWrites \/ Retarget \/ \E content \in Contents : EditNote(content)
             \/ UNCHANGED vars
      PROVE  FALSE
  BY <1>5, <1>6
  DEF Answer, BridgeReads, BridgeStatus, RequestFails, RequestStep, AdmitRequest,
      HashConflict, PassFence, FenceRefuses, WriteLands, WriteFails, LoseRequest,
      Heartbeat, Lapse, Crash, RenewLease, LeaseLapses, CrashRuntime, UnloadBridge,
      LoadBridge, QuitObsidian, ToggleWrites, Retarget, EditNote, vars, journalVars
<1>7. ASSUME NEW p \in Procs, Start(p)
      PROVE  FALSE
  <2>1. row' \in {Swept(row), Expired(Swept(row))}
    BY <1>7 DEF Start, StartRuntime
  <2>2. Swept(row) \in Rows /\ Swept(row).status \notin Refusals
    BY <1>2 DEF Loads, LoadsOf
  <2>3. Expired(Swept(row)).status \notin Refusals
    BY <2>2 DEF Expired, Released, Rows, Refusals
  <2>. QED
    BY <2>1, <2>2, <2>3
<1>8. ASSUME NEW p \in Procs, Stop(p)
      PROVE  FALSE
  <2>1. row' = Released(row, "outcome_unknown")
    BY <1>5, <1>8 DEF Stop, CloseRuntime
  <2>. QED
    BY <1>1, <2>1 DEF Released, Rows, Refusals
<1>. QED
  BY <1>3, <1>4, <1>6, <1>7, <1>8 DEF Next, Environment

(* Only the answer of its request brings an executor to the reconciliation *)
(* of a conflict.                                                          *)
LEMMA ConflictOrigins ==
  ASSUME Inv, NEW h \in Calls, CallStep(h), call'[h].pc = "conflict"
  PROVE  CasConflicts(h) /\ call'[h].att = call[h].att /\ req' = req
<1>1. call \in [Calls -> CallStates] /\ Idle.pc = "idle"
  BY DEF Inv, TypeInv, TypeOK, Idle
<1>2. ~Returns(h)
  BY <1>1 DEF Returns
<1>3. \A ph : Continues(h, ph) => call'[h].pc = ph /\ call'[h].att = call[h].att
  BY <1>1 DEF Continues, CallStates
<1>4. \A p, a : Executing(p, a, TRUE).pc = "status"
  BY DEF Executing, Idle
<1>5. ~RecoverStarts(h)
  <2>1. ASSUME NEW p, NEW a, call' = [call EXCEPT ![h] = Executing(p, a, TRUE)]
        PROVE  FALSE
    BY <1>1, <1>4, <2>1
  <2>. QED
    BY <1>2, <2>1 DEF RecoverStarts
<1>6. ~CloseReconciles(h)
  <2>1. ASSUME NEW cur, call' = [call EXCEPT ![h].pc = "closeResolve",
                                             ![h].answer = "pending",
                                             ![h].observed = cur]
        PROVE  FALSE
    <3>1. call'[h] = [call[h] EXCEPT !.pc = "closeResolve", !.answer = "pending",
                                     !.observed = cur]
      BY <1>1, <2>1
    <3>. QED
      BY <1>1, <3>1 DEF CallStates
  <2>. QED
    BY <1>1, <2>1 DEF CloseReconciles
<1>7. CasConflicts(h)
  BY <1>2, <1>3, <1>5, <1>6
  DEF CallStep, StatusFailed, StatusRefuses, RecordAttempt, AttemptLimitReached,
      PreflightFailed, PreflightConflicts, Dispatch, CasCommits, CasForbidden,
      CasErrs, ReconcileConflict, ReconcileError, Observe, RecoverReconciles,
      RecoverSettles, CloseResolves, CloseRefused, CloseCommits, LeaveApplying
<1>. QED
  BY <1>3, <1>7 DEF CasConflicts, JournalOnly, bridgeVars

(* What a refusal of a plan executed once leaves behind. *)
LeftNothing ==
  /\ written = {}
  /\ \A a \in Attempts : req[a] \notin Live
  /\ \A h \in Calls : call[h].att = NoAttempt

LEMMA RefusalLeavesNothing ==
  ASSUME Inv, FirstInv, "retarget" \notin Faults, NEW h \in Calls,
         RefusesKnowingly(h), Solo'
  PROVE  LeftNothing'
<1>. DEFINE a == call[h].att
<1>1. /\ a \in Attempts /\ a \in row.used /\ row'.used = row.used
      /\ req' = req /\ written' = written
  BY DEF RefusesKnowingly, bridgeVars, Inv, AttemptInv, TypeInv, TypeOK, CallStates
<1>2. \A b \in row.used : b = a
  BY <1>1 DEF Solo
<1>3. req[a] \in {"none", "forbidden", "conflict"}
  BY DEF RefusesKnowingly, Inv, AttemptInv, FirstInv
<1>4. \A b \in Attempts : b # a => req[b] = "none"
  BY <1>2 DEF Inv, AttemptInv
<1>5. written = {}
  BY <1>3, <1>4 DEF Inv, RequestInv, TypeInv, TypeOK
<1>6. \A b \in Attempts : req[b] \notin Live
  BY <1>3, <1>4 DEF Live
<1>7. \A k \in Calls \ {h} : call'[k] = call[k] /\ call[k].att = NoAttempt
  <2>1. SUFFICES ASSUME NEW k \in Calls \ {h} PROVE call[k].att = NoAttempt
    BY DEF RefusesKnowingly
  <2>2. call[k].att # NoAttempt => call[k].att = a
    BY <1>2 DEF Inv, AttemptInv
  <2>. QED
    BY <2>2 DEF Inv, AttemptInv
<1>8. call'[h].att = NoAttempt
  BY DEF RefusesKnowingly, Idle
<1>. QED
  BY <1>1, <1>5, <1>6, <1>7, <1>8 DEF LeftNothing

LEMMA NothingComesBack ==
  ASSUME Inv, LeftNothing, row.status \in Refusals, StepKinds
  PROVE  LeftNothing'
<1>. USE DEF Inv, TypeInv
<1>1. /\ row.status \notin Pending /\ written \subseteq Attempts
      /\ call \in [Calls -> CallStates]
  BY DEF Refusals, Pending, TypeOK
<1>2. \A h \in Calls : call[h].pc \notin {"status", "preflight"}
  BY DEF LeftNothing, AttemptInv
<1>3. ASSUME NEW h \in Calls, CallKind(h)
      PROVE  LeftNothing'
  <2>1. /\ row' = row /\ written' = written
        /\ \A k \in Calls \ {h} : call'[k] = call[k]
    BY <1>1, <1>3 DEF CallKind, Shape, Evolves, CallMoves
  <2>2. ~Dispatch(h)
    BY <1>2 DEF Dispatch, Answered
  <2>3. ~Begins(h) /\ ~Records(h)
    BY <1>2, <2>1 DEF Begins, Records
  <2>4. call'[h].att \in {call[h].att, NoAttempt}
    BY <1>3, <2>3 DEF CallKind, Shape, CallMoves, Proceeds
  <2>. QED
    BY <1>3, <2>1, <2>2, <2>4 DEF CallKind, LeftNothing
<1>4. ASSUME NEW h \in Calls, AnswerKind(h)
      PROVE  LeftNothing'
  BY <1>4 DEF AnswerKind, bridgeVars, LeftNothing
<1>5. ASSUME NEW a \in Attempts, RequestStep(a)
      PROVE  FALSE
  BY <1>5 DEF LeftNothing, Live, RequestStep, AdmitRequest, HashConflict, PassFence,
       FenceRefuses, WriteLands, WriteFails, LoseRequest
<1>6. CASE ProcessKind
  BY <1>6 DEF ProcessKind, bridgeVars, LeftNothing, Idle
<1>7. CASE PluginKind
  BY <1>7 DEF PluginKind, bridgeVars, LeftNothing
<1>8. ASSUME NEW landed \in SUBSET InFlight, QuitObsidian(landed)
      PROVE  LeftNothing'
  <2>1. landed = {}
    BY DEF InFlight, LeftNothing, Live
  <2>2. written' = written
    BY <1>8, <2>1 DEF QuitObsidian
  <2>3. call' = call /\ \A a \in Attempts : req'[a] \in {req[a], "gone"}
    BY <1>8, QuitFacts
  <2>. QED
    BY <2>2, <2>3 DEF LeftNothing, Live
<1>9. CASE WorldKind
  BY <1>9 DEF WorldKind, LeftNothing
<1>. QED
  BY <1>3, <1>4, <1>5, <1>6, <1>7, <1>8, <1>9 DEF StepKinds

LEMMA RefusalStep ==
  ASSUME Inv, FirstInv, "retarget" \notin Faults, [Next]_vars,
         row'.status \in Refusals, Solo'
  PROVE  LeftNothing'
<1>1. StepKinds
  BY EveryStepHasAKind DEF Inv
<1>2. CASE row.status \notin Refusals
  BY <1>2, RefusalOrigins, RefusalLeavesNothing
<1>3. CASE row.status \in Refusals
  <2>1. row' = row
    <3>1. row.status \notin Pending
      BY <1>3 DEF Refusals, Pending
    <3>2. row' = row \/ Evolves(row, row')
      BY <1>1, RequestFacts DEF Inv, StepKinds, CallKind, Shape, AnswerKind, ProcessKind,
           PluginKind, QuitObsidian, WorldKind, journalVars
    <3>. QED
      BY <3>1, <3>2 DEF Evolves
  <2>2. Solo
    BY <2>1 DEF Solo
  <2>3. LeftNothing
    BY <1>3, <2>2 DEF FirstInv, LeftNothing
  <2>. QED
    BY <1>1, <1>3, <2>3, NothingComesBack
<1>. QED
  BY <1>2, <1>3

LEMMA AnswersNameTheVault ==
  ASSUME TypeOK, target = "sealed", NEW h \in Calls, Answer(h),
         \A k \in Calls : call[k].answer # "elsewhere"
  PROVE  \A k \in Calls : call'[k].answer # "elsewhere"
<1>1. PICK x \in Contents \cup {"ok", "refused", "failed"} :
        \/ call' = [call EXCEPT ![h].answer = x]
        \/ call' = [call EXCEPT ![h].answer = x, ![h].epoch = live]
  <2>1. note \in Contents
    BY DEF TypeOK
  <2>2. CASE BridgeReads(h)
    BY <2>1, <2>2 DEF BridgeReads
  <2>3. CASE BridgeStatus(h)
    BY <2>3 DEF BridgeStatus
  <2>4. CASE RequestFails(h)
    BY <2>4 DEF RequestFails
  <2>. QED
    BY <2>2, <2>3, <2>4 DEF Answer
<1>2. x # "elsewhere"
  BY DEF Contents
<1>3. call \in [Calls -> CallStates]
  BY DEF TypeOK
<1>4. /\ \A k \in Calls \ {h} : call'[k] = call[k]
      /\ \/ call'[h] = [call[h] EXCEPT !.answer = x]
         \/ call'[h] = [call[h] EXCEPT !.answer = x, !.epoch = live]
  BY <1>1, <1>3
<1>5. call'[h].answer = x
  BY <1>3, <1>4 DEF CallStates
<1>. QED
  BY <1>2, <1>4, <1>5

LEMMA FirstStep ==
  ASSUME Inv, FirstInv, [Next]_vars
  PROVE  FirstInv'
<1>. SUFFICES ASSUME "retarget" \notin Faults
              PROVE  FirstInv'
  BY DEF FirstInv
<1>. USE DEF Inv, TypeInv
<1>. DEFINE NamesVault == target' = "sealed" /\ \A k \in Calls : call'[k].answer # "elsewhere"
            ConflictsKnown ==
              \A k \in Calls : call'[k].pc = "conflict" /\ call'[k].att # NoAttempt =>
                req'[call'[k].att] = "conflict"
<1>1. /\ target = "sealed" /\ TypeOK
      /\ call \in [Calls -> CallStates]
      /\ \A k \in Calls : call[k].answer # "elsewhere"
      /\ \A k \in Calls : call[k].pc = "conflict" /\ call[k].att # NoAttempt =>
           call[k].att \in Attempts /\ req[call[k].att] = "conflict"
      /\ Idle.pc = "idle" /\ Idle.answer = "pending"
  BY DEF FirstInv, TypeOK, CallStates, Idle
<1>2. SUFFICES NamesVault /\ ConflictsKnown
  <2>1. row'.status \in Refusals /\ Solo' => LeftNothing'
    BY RefusalStep
  <2>. QED
    BY <2>1 DEF FirstInv, LeftNothing
<1>3. ASSUME NEW h \in Calls, CallKind(h), call'[h].pc = "conflict" => CasConflicts(h)
             /\ call'[h].att = call[h].att /\ req' = req
      PROVE  NamesVault /\ ConflictsKnown
  <2>1. /\ target' = target /\ \A k \in Calls \ {h} : call'[k] = call[k]
        /\ call'[h].answer \in {call[h].answer, "pending"}
    BY <1>3 DEF CallKind, Shape, CallMoves, Proceeds, Begins, Records
  <2>2. ASSUME NEW k \in Calls, k # h, call[k].pc = "conflict", call[k].att # NoAttempt
        PROVE  req'[call[k].att] = "conflict"
    <3>1. CASE req' = req
      BY <1>1, <2>2, <3>1
    <3>2. CASE Dispatch(h)
      <4>1. call[k].att # call[h].att
        BY <2>2 DEF AttemptInv
      <4>. QED
        BY <1>1, <2>2, <3>2, <4>1, DispatchFacts
    <3>. QED
      BY <1>3, <3>1, <3>2 DEF CallKind
  <2>3. call'[h].pc = "conflict" => req'[call'[h].att] = "conflict"
    BY <1>3 DEF CasConflicts
  <2>. QED
    BY <1>1, <2>1, <2>2, <2>3
<1>4. ASSUME NEW h \in Calls, NEW p \in Procs,
             \/ Apply(h, p) \/ Status(h, p) \/ Recover(h, p) \/ Close(h, p)
      PROVE  NamesVault /\ ConflictsKnown
  <2>1. /\ UNCHANGED <<req, target>>
        /\ \/ call' = call
           \/ \E a : call' = [call EXCEPT ![h] = Executing(p, a, FALSE)]
           \/ \E s, ph : /\ ph \in {"observe", "recover", "closeObserve"}
                         /\ call' = [call EXCEPT ![h] = Watching(p, ph, s)]
    BY <1>4 DEF Apply, Status, Recover, Close, Inquire, JournalOnly, bridgeVars
  <2>2. ASSUME NEW c, c.pc # "conflict", c.answer = "pending",
               call' = [call EXCEPT ![h] = c]
        PROVE  NamesVault /\ ConflictsKnown
    <3>1. call'[h] = c /\ \A k \in Calls \ {h} : call'[k] = call[k]
      BY <1>1, <2>2
    <3>. QED
      BY <1>1, <2>1, <2>2, <3>1
  <2>3. ASSUME NEW a, call' = [call EXCEPT ![h] = Executing(p, a, FALSE)]
        PROVE  NamesVault /\ ConflictsKnown
    <3>1. /\ Executing(p, a, FALSE).pc = "status"
          /\ Executing(p, a, FALSE).answer = "pending"
      BY DEF Executing, Idle
    <3>. QED
      BY <2>2, <2>3, <3>1
  <2>4. ASSUME NEW s, NEW ph \in {"observe", "recover", "closeObserve"},
               call' = [call EXCEPT ![h] = Watching(p, ph, s)]
        PROVE  NamesVault /\ ConflictsKnown
    <3>1. Watching(p, ph, s).pc = ph /\ Watching(p, ph, s).answer = "pending"
      BY DEF Watching, Idle
    <3>. QED
      BY <2>2, <2>4, <3>1
  <2>. QED
    BY <1>1, <2>1, <2>3, <2>4
<1>5. ASSUME NEW h \in Calls, CallStep(h)
      PROVE  NamesVault /\ ConflictsKnown
  BY <1>3, <1>5, CallStepFrame, ConflictOrigins
<1>6. ASSUME NEW h \in Calls, Answer(h)
      PROVE  NamesVault /\ ConflictsKnown
  <2>1. AnswerKind(h)
    BY <1>6, AnswerFrame
  <2>2. /\ target' = "sealed" /\ req' = req
        /\ \A k \in Calls : call'[k].pc = call[k].pc /\ call'[k].att = call[k].att
    BY <1>1, <2>1 DEF AnswerKind, bridgeVars
  <2>3. \A k \in Calls : call'[k].answer # "elsewhere"
    BY <1>1, <1>6, AnswersNameTheVault
  <2>. QED
    BY <1>1, <2>2, <2>3
<1>7. ASSUME NEW a \in Attempts, RequestStep(a)
      PROVE  NamesVault /\ ConflictsKnown
  <2>1. /\ target' = target /\ call' = call
        /\ \A b \in Attempts \ {a} : req'[b] = req[b]
    BY <1>7, RequestFacts
  <2>2. req[a] # "conflict"
    BY <1>7 DEF RequestStep, AdmitRequest, HashConflict, PassFence, FenceRefuses,
         WriteLands, WriteFails, LoseRequest
  <2>. QED
    BY <1>1, <2>1, <2>2
<1>8. ASSUME NEW p \in Procs, Start(p) \/ Heartbeat(p) \/ Lapse(p) \/ Stop(p) \/ Crash(p)
      PROVE  NamesVault /\ ConflictsKnown
  <2>1. ProcessKind
    BY <1>8, ProcessFrame
  <2>. QED
    BY <1>1, <2>1 DEF ProcessKind, bridgeVars
<1>9. ASSUME NEW landed \in SUBSET InFlight, QuitObsidian(landed)
      PROVE  NamesVault /\ ConflictsKnown
  <2>1. /\ call' = call /\ target' = target
        /\ req' = [a \in Attempts |->
                     IF req[a] \in {"admitted", "running"} THEN "gone" ELSE req[a]]
    BY <1>9 DEF QuitObsidian
  <2>. QED
    BY <1>1, <2>1
<1>10. ASSUME \/ UnloadBridge \/ \E e \in Epochs : LoadBridge(e)
              \/ ToggleWrites \/ \E content \in Contents : EditNote(content)
              \/ UNCHANGED vars
       PROVE  NamesVault /\ ConflictsKnown
  <2>1. UNCHANGED <<call, req, target>>
    BY <1>10 DEF UnloadBridge, LoadBridge, ToggleWrites, EditNote, vars, bridgeVars
  <2>. QED
    BY <1>1, <2>1
<1>11. ~Retarget
  BY DEF Retarget
<1>. QED
  BY <1>4, <1>5, <1>6, <1>7, <1>8, <1>9, <1>10, <1>11 DEF Next, Environment

(* The refusal of a plan that was executed once is true for good: nothing  *)
(* was written and no request of it can still write.                       *)
THEOREM FirstRefusalsAreTrue == Spec => []FirstRefusalIsTrue
<1>1. Init => FirstInv
  BY DEF Init, JournalInit, PlannedRow, Idle, FirstInv, Refusals
<1>2. Inv /\ FirstInv /\ [Next]_vars => FirstInv'
  BY FirstStep
<1>3. Inv /\ FirstInv => FirstRefusalIsTrue
  <2>. SUFFICES ASSUME Inv, FirstInv, row.status \in Refusals,
                       Cardinality(row.used) = 1, "retarget" \notin Faults
                PROVE  LeftNothing
    BY DEF FirstRefusalIsTrue, Refusals, LeftNothing, Live
  <2>1. row.used \subseteq Attempts
    BY DEF Inv, TypeInv, TypeOK, JournalTypeOK, Rows
  <2>2. IsFiniteSet(row.used)
    BY <2>1, JournalAssumption, FS_Subset
  <2>3. \E x : row.used = {x}
    BY <2>2, FS_Singleton
  <2>4. Solo
    BY <2>3 DEF Solo
  <2>. QED
    BY <2>4 DEF FirstInv, LeftNothing
<1>. QED
  BY <1>1, <1>2, <1>3, Invariance, PTL DEF Spec

=============================================================================

---------------------------- MODULE ContractProofs ----------------------------
(***************************************************************************)
(* What follows from the fence's contract alone, for every set of epochs   *)
(* and attempts, and what the operators of the journal do to a row, for    *)
(* any number of processes.  The proofs about every write that relies on   *)
(* the two rest on these lemmas.                                           *)
(***************************************************************************)
EXTENDS FenceContract, PlanJournal, TLAPS

-----------------------------------------------------------------------------
(* The fence's contract. *)

(* Every step of the contract keeps its variables in their types.          *)
LEMMA FenceStepTypes ==
  ASSUME FenceTypeOK, FenceNext
  PROVE  FenceTypeOK'
<1>1. ASSUME NEW t \in Tokens, Enter(t)
      PROVE  FenceTypeOK'
  BY <1>1 DEF FenceTypeOK, Enter
<1>2. ASSUME NEW t \in Tokens, Settle(t)
      PROVE  FenceTypeOK'
  BY <1>2 DEF FenceTypeOK, Settle
<1>3. ASSUME NEW t \in Tokens, NEW e \in Epochs, EnterAndRotate(t, e)
      PROVE  FenceTypeOK'
  BY <1>3 DEF FenceTypeOK, EnterAndRotate, Unspent
<1>4. ASSUME NEW T \in SUBSET Tokens, Revoke(T)
      PROVE  FenceTypeOK'
  BY <1>4 DEF FenceTypeOK, Revoke
<1>5. ASSUME NEW e \in Epochs, Issue(e)
      PROVE  FenceTypeOK'
  BY <1>5 DEF FenceTypeOK, Issue
<1>6. ASSUME Retire \/ QuitRealm
      PROVE  FenceTypeOK'
  BY <1>6 DEF FenceTypeOK, Retire, QuitRealm, Unspent
<1>. QED
  BY <1>1, <1>2, <1>3, <1>4, <1>5, <1>6 DEF FenceNext

(* A dead token stays dead: no admission, rotation, load or restart of the *)
(* Bridge brings back an effect that was revoked, spent or outlived by its *)
(* epoch.                                                                  *)
LEMMA DeadStaysDead ==
  ASSUME FenceTypeOK, FenceNext, NEW d \in Tokens, Dead(d)
  PROVE  Dead(d)'
<1>1. d[1] # NoEpoch
  BY NoEpochAssumption DEF Tokens
<1>2. ~Admits(d)
  BY DEF Dead, Admits
<1>3. ASSUME NEW t \in Tokens, Enter(t)
      PROVE  Dead(d)'
  BY <1>2, <1>3 DEF Enter, Dead
<1>4. ASSUME NEW t \in Tokens, Settle(t)
      PROVE  Dead(d)'
  BY <1>4 DEF Settle, Dead
<1>5. ASSUME NEW t \in Tokens, NEW e \in Epochs, EnterAndRotate(t, e)
      PROVE  Dead(d)'
  BY <1>2, <1>5 DEF EnterAndRotate, Dead
<1>6. ASSUME NEW T \in SUBSET Tokens, Revoke(T)
      PROVE  Dead(d)'
  BY <1>6 DEF Revoke, Dead
<1>7. ASSUME NEW e \in Epochs, Issue(e)
      PROVE  Dead(d)'
  BY <1>7 DEF Issue, Dead
<1>8. ASSUME Retire \/ QuitRealm
      PROVE  Dead(d)'
  BY <1>1, <1>8 DEF Retire, QuitRealm, Dead
<1>. QED
  BY <1>3, <1>4, <1>5, <1>6, <1>7, <1>8 DEF FenceNext

(* The revocation of tokens of which none is running kills all of them.    *)
LEMMA RevocationKills ==
  ASSUME NEW T, Revoke(T), T \cap running = {}
  PROVE  \A t \in T : Dead(t)'
  BY DEF Revoke, Dead

-----------------------------------------------------------------------------
(* Rows. *)

(* Every operator of the journal maps rows to rows.                        *)
LEMMA RowOperators ==
  ASSUME NEW r \in Rows
  PROVE  /\ \A s \in Statuses : Released(r, s) \in Rows
         /\ \A p \in Procs \cup {NoProc}, a \in Attempts : Started(r, p, a) \in Rows
         /\ \A e \in Epochs, a \in Attempts : Recorded(r, e, a) \in Rows
<1>1. \A s \in Statuses : Released(r, s) \in Rows
  BY DEF Rows, Released
<1>2. \A p \in Procs \cup {NoProc}, a \in Attempts : Started(r, p, a) \in Rows
  BY DEF Rows, Started, Statuses, Pending
<1>3. \A e \in Epochs, a \in Attempts : Recorded(r, e, a) \in Rows
  <2>1. \A e \in Epochs, a \in Attempts : <<e, a>> \in Tokens
    BY DEF Tokens
  <2>. QED
    BY <2>1 DEF Rows, Recorded
<1>. QED
  BY <1>1, <1>2, <1>3

LEMMA LoadsAreRows ==
  ASSUME NEW r \in Rows
  PROVE  LoadsOf(r) \subseteq Rows
  BY RowOperators DEF LoadsOf, Swept, Expired, Statuses, Pending, StableTerminal

LEMMA TransitionsAreRows ==
  ASSUME NEW r \in Rows, NEW E, NEW s \in Statuses, NEW a
  PROVE  Transitioned(r, E, s, a) \in Rows /\ CommittedOnProof(r) \in Rows
  BY RowOperators DEF Transitioned, CommittedOnProof, Statuses, StableTerminal

-----------------------------------------------------------------------------
(* What any step of the journal may do to a row.                           *)

(* The journal forgets neither a token nor an attempt, rewrites no settled *)
(* row, never returns to planned and expires only a row never executed.    *)
Evolves(r, s) ==
  /\ s \in Rows
  /\ r.tokens \subseteq s.tokens
  /\ r.used \subseteq s.used
  /\ r.status \notin Pending => s = r
  /\ s.status = "planned" => s = r
  /\ s.status = "expired" => r.status \in {"planned", "expired"} /\ s.used = r.used

(* The step decides neither a commit nor a closure.                        *)
Undecided(r, s) == s.status \in {"committed", "reviewed_unverified"} => s = r

LEMMA EvolvesIsTransitive ==
  ASSUME NEW q, NEW r, NEW s, Evolves(q, r), Evolves(r, s)
  PROVE  Evolves(q, s)
  BY DEF Evolves, Pending

LEMMA LoadsEvolve ==
  ASSUME NEW r \in Rows, NEW s \in LoadsOf(r)
  PROVE  /\ Evolves(r, s) /\ Undecided(r, s)
         /\ s.used = r.used /\ s.tokens = r.tokens
<1>1. s \in Rows
  BY LoadsAreRows
<1>2. CASE s = r
  BY <1>2 DEF Evolves, Undecided
<1>3. CASE s = Swept(r)
  BY <1>1, <1>3 DEF Swept, Released, Evolves, Undecided, Pending, Rows
<1>4. CASE s = Expired(r)
  BY <1>1, <1>4 DEF Expired, Released, Evolves, Undecided, Pending, Rows
<1>. QED
  BY <1>2, <1>3, <1>4 DEF LoadsOf

LEMMA TransitionsEvolve ==
  ASSUME NEW r \in Rows, NEW E \in SUBSET {"applying", "outcome_unknown"}, NEW a,
         NEW next \in {"committed", "conflict", "rejected", "outcome_unknown"}
  PROVE  LET s == Transitioned(r, E, next, a)
         IN  Evolves(r, s) /\ (next # "committed" => Undecided(r, s))
<1>1. next \in Statuses
  BY DEF Statuses, Pending, StableTerminal
<1>2. Transitioned(r, E, next, a) \in Rows
  BY <1>1, TransitionsAreRows
<1>. QED
  BY <1>2 DEF Transitioned, MayTransition, Released, Evolves, Undecided, Pending, Rows

LEMMA CommitsEvolve ==
  ASSUME NEW r \in Rows
  PROVE  Evolves(r, CommittedOnProof(r))
<1>1. CommittedOnProof(r) \in Rows
  BY TransitionsAreRows DEF Statuses, Pending
<1>. QED
  BY <1>1 DEF CommittedOnProof, Released, Evolves, Pending, Rows

LEMMA StartsEvolve ==
  ASSUME NEW r \in Rows, r.status \in {"planned", "outcome_unknown"},
         NEW p \in Procs \cup {NoProc}, NEW a \in FreshAttempts(r)
  PROVE  /\ Evolves(r, Started(r, p, a)) /\ Undecided(r, Started(r, p, a))
         /\ Started(r, p, a).used = r.used \cup {a}
<1>1. Started(r, p, a) \in Rows
  BY RowOperators DEF FreshAttempts
<1>. QED
  BY <1>1 DEF Started, Evolves, Undecided, Pending, Rows

LEMMA RecordsEvolve ==
  ASSUME NEW r \in Rows, r.status = "applying", NEW e \in Epochs, NEW a \in Attempts
  PROVE  /\ Evolves(r, Recorded(r, e, a)) /\ Undecided(r, Recorded(r, e, a))
         /\ Recorded(r, e, a).tokens = r.tokens \cup {<<e, a>>}
<1>1. Recorded(r, e, a) \in Rows
  BY RowOperators
<1>. QED
  BY <1>1 DEF Recorded, Evolves, Undecided, Pending, Rows

-----------------------------------------------------------------------------
(* Owners.                                                                 *)

(* An applying row names the process that executes it. *)
OwnedRow(r) == r.status = "applying" => r.proc \in Procs

LEMMA LoadsKeepOwners ==
  ASSUME NEW r \in Rows, NEW s \in LoadsOf(r)
  PROVE  s.status = "applying" => s = r
  BY DEF LoadsOf, Swept, Expired, Released, Rows

(* Nobody finds the plan of a process with a fresh lease interrupted.      *)
LEMMA FreshLoads ==
  ASSUME row.status = "applying", row.proc \in Procs, lease[row.proc]
  PROVE  /\ Swept(row) = row /\ Expired(row) = row
         /\ \A cur \in Loads : cur = row
  BY DEF Loads, LoadsOf, Swept, Expired

(* Only the owner's attempt takes an applying row out of its status. *)
LEMMA TransitionedOwner ==
  ASSUME NEW r \in Rows, NEW E, NEW next, NEW a
  PROVE  \/ Transitioned(r, E, next, a) = r
         \/ /\ Transitioned(r, E, next, a).status = next
            /\ r.status \in E
            /\ r.status = "applying" => r.owner = a
  BY DEF Transitioned, MayTransition, Released, Rows

=============================================================================

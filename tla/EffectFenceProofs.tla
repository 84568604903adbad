-------------------------- MODULE EffectFenceProofs --------------------------
(***************************************************************************)
(* Proofs about EffectFence, for any number of epochs, attempts and        *)
(* handlers and any bounds: the verdict "revoked before effect" is final,  *)
(* the fence implements the contract the MCP side relies on, no epoch with *)
(* a running effect is forgotten, and the proof of quiescence is one.      *)
(* Then about DatePreparation, which extends the fence, for any number of  *)
(* plans and preparations: a preparation that may have touched the note    *)
(* keeps its lock until it is verified or reviewed, what is recorded as    *)
(* never started never started, and a write that the date plugin still     *)
(* owes keeps the lock too.                                                *)
(***************************************************************************)
EXTENDS DatePreparation, FiniteSetTheorems, TLAPS

-----------------------------------------------------------------------------
(* The invariant of tokens and epochs.  The counters of running effects    *)
(* have one of their own below.                                            *)

FenceTypes ==
  /\ last \in Epochs
  /\ current = last
  /\ disposed \in BOOLEAN
  /\ \A e \in closed : e \in Epochs /\ e <= last
  /\ attempts \in [Epochs -> [Attempts -> AttemptStates]]
  /\ run \subseteq Tokens
  /\ told \subseteq Tokens

(* Only the newest epoch can be open, and only while its instance lives.   *)
OldEpochsAreShut == disposed \/ current \notin closed

(* Nothing happened in an epoch that does not exist yet. *)
FutureIsEmpty ==
  \A e \in Epochs, a \in Attempts : e > last => attempts[e][a] = "absent"

(* A running token was consumed and is not settled. *)
RunningIsConsumed == \A t \in run : attempts[t[1]][t[2]] = "consumed"

(* The token can never again be consumed. *)
Lost(t) ==
  \/ attempts[t[1]][t[2]] = "revoked"
  \/ /\ attempts[t[1]][t[2]] = "absent"
     /\ t[1] < last \/ (t[1] = last /\ disposed)

ToldIsLost == \A t \in told : Lost(t)

FenceInv ==
  FenceTypes /\ OldEpochsAreShut /\ FutureIsEmpty /\ RunningIsConsumed /\ ToldIsLost

-----------------------------------------------------------------------------
LEMMA TokenParts ==
  ASSUME NEW t \in Tokens
  PROVE  t[1] \in Epochs /\ t[2] \in Attempts /\ t = <<t[1], t[2]>>
  BY DEF Tokens

(* The state of one token is set and every other one is kept. *)
LEMMA AttemptUpdate ==
  ASSUME FenceTypes, NEW t \in Tokens, NEW s \in AttemptStates,
         attempts' = [attempts EXCEPT ![t[1]][t[2]] = s]
  PROVE  /\ attempts' \in [Epochs -> [Attempts -> AttemptStates]]
         /\ attempts'[t[1]][t[2]] = s
         /\ \A u \in Tokens : u # t => attempts'[u[1]][u[2]] = attempts[u[1]][u[2]]
         /\ \A e \in Epochs, a \in Attempts :
              e # t[1] => attempts'[e][a] = attempts[e][a]
  BY TokenParts DEF FenceTypes

LEMMA InitEstablishes == Init => FenceInv
<1>. SUFFICES ASSUME Init PROVE FenceInv
  OBVIOUS
<1>1. 1 \in Epochs
  BY BoundsAssumption DEF Epochs
<1>2. FenceTypes
  BY <1>1 DEF Init, FenceTypes, AttemptStates
<1>3. OldEpochsAreShut /\ FutureIsEmpty /\ RunningIsConsumed /\ ToldIsLost
  BY <1>1 DEF Init, OldEpochsAreShut, FutureIsEmpty, RunningIsConsumed, ToldIsLost
<1>. QED
  BY <1>2, <1>3 DEF FenceInv

(* A step that consumes t; the epoch may rotate in the same step. *)
LEMMA ConsumePreserves ==
  ASSUME FenceInv, NEW t \in Tokens, EnterFenced(t) \/ EnterFencedAndRotate(t)
  PROVE  FenceInv'
<1>. USE DEF FenceInv
<1>1. /\ ~disposed /\ t[1] = last /\ attempts[t[1]][t[2]] = "absent"
      /\ attempts' = [attempts EXCEPT ![t[1]][t[2]] = "consumed"]
      /\ run' = run \cup {t} /\ UNCHANGED <<disposed, told>>
  BY DEF EnterFenced, EnterFencedAndRotate, Admissible, Consumed, FenceTypes
<1>2. /\ attempts' \in [Epochs -> [Attempts -> AttemptStates]]
      /\ attempts'[t[1]][t[2]] = "consumed"
      /\ \A u \in Tokens : u # t => attempts'[u[1]][u[2]] = attempts[u[1]][u[2]]
      /\ \A e \in Epochs, a \in Attempts : e # t[1] => attempts'[e][a] = attempts[e][a]
  BY <1>1, AttemptUpdate DEF AttemptStates
<1>3. /\ last' \in Epochs /\ last' \in {last, last + 1} /\ current' = last'
      /\ \A e \in closed' : e \in Epochs /\ e <= last'
      /\ current' \notin closed'
  <2>1. CASE EnterFenced(t)
    BY <2>1 DEF EnterFenced, Admissible, FenceTypes
  <2>2. CASE EnterFencedAndRotate(t)
    <3>1. last + 1 \in Epochs /\ last \in Nat
      BY <2>2, BoundsAssumption DEF EnterFencedAndRotate, FenceTypes, Epochs
    <3>2. \A e \in closed : e \in Nat /\ e <= last
      BY DEF FenceTypes, Epochs
    <3>3. closed' = closed \cup {last} /\ last' = last + 1 /\ current' = last + 1
      BY <2>2 DEF EnterFencedAndRotate, FenceTypes
    <3>4. \A e \in closed' : e <= last' /\ e # current'
      BY <3>1, <3>2, <3>3
    <3>. QED
      BY <3>1, <3>3, <3>4 DEF FenceTypes
  <2>. QED
    BY <2>1, <2>2
<1>4. FenceTypes'
  BY <1>1, <1>2, <1>3 DEF FenceTypes
<1>5. FutureIsEmpty'
  BY <1>1, <1>2, <1>3 DEF FutureIsEmpty, FenceTypes, Epochs
<1>6. RunningIsConsumed'
  BY <1>1, <1>2 DEF RunningIsConsumed, FenceTypes
<1>7. ToldIsLost'
  <2>1. \A u \in told : u # t
    BY <1>1, BoundsAssumption DEF ToldIsLost, Lost, FenceTypes, Epochs
  <2>2. SUFFICES ASSUME NEW u \in told PROVE Lost(u)'
    BY <1>1 DEF ToldIsLost
  <2>3. u \in Tokens /\ Lost(u) /\ attempts'[u[1]][u[2]] = attempts[u[1]][u[2]]
    BY <1>2, <2>1 DEF ToldIsLost, FenceTypes
  <2>4. u[1] \in Nat /\ last \in Nat
    BY <2>3, TokenParts DEF FenceTypes, Epochs
  <2>. QED
    BY <1>1, <1>3, <2>3, <2>4 DEF Lost
<1>. QED
  BY <1>3, <1>4, <1>5, <1>6, <1>7 DEF OldEpochsAreShut

LEMMA SettlePreserves ==
  ASSUME FenceInv, NEW t \in Tokens, SettleFenced(t)
  PROVE  FenceInv'
<1>. USE DEF FenceInv
<1>1. /\ t \in run /\ attempts[t[1]][t[2]] = "consumed"
      /\ attempts' = [attempts EXCEPT ![t[1]][t[2]] = "settled"]
      /\ run' = run \ {t}
      /\ UNCHANGED <<last, current, disposed, closed, told>>
  BY DEF SettleFenced, RunningIsConsumed
<1>2. /\ attempts' \in [Epochs -> [Attempts -> AttemptStates]]
      /\ \A u \in Tokens : u # t => attempts'[u[1]][u[2]] = attempts[u[1]][u[2]]
      /\ \A e \in Epochs, a \in Attempts : e # t[1] => attempts'[e][a] = attempts[e][a]
  BY <1>1, AttemptUpdate DEF AttemptStates
<1>4. FenceTypes' /\ OldEpochsAreShut'
  BY <1>1, <1>2 DEF FenceTypes, OldEpochsAreShut
<1>5. FutureIsEmpty'
  <2>1. t[1] \in Epochs /\ t[2] \in Attempts /\ ~(t[1] > last)
    BY <1>1, TokenParts DEF FutureIsEmpty
  <2>. QED
    BY <1>1, <1>2, <2>1 DEF FutureIsEmpty
<1>6. RunningIsConsumed'
  BY <1>1, <1>2 DEF RunningIsConsumed, FenceTypes
<1>7. ToldIsLost'
  BY <1>1, <1>2 DEF ToldIsLost, Lost, FenceTypes
<1>. QED
  BY <1>4, <1>5, <1>6, <1>7

LEMMA ResolvePreserves ==
  ASSUME FenceInv, NEW t \in Tokens, NEW mode, Resolve(t, mode)
  PROVE  FenceInv'
<1>. USE DEF FenceInv
<1>1. UNCHANGED <<last, current, disposed, closed, run>> /\ t[1] \in 1 .. last
  BY DEF Resolve
<1>2. t[1] \in Nat /\ last \in Nat /\ t[1] <= last
  BY <1>1, TokenParts DEF FenceTypes, Epochs
<1>3. /\ told' \in {told, told \cup {t}}
      /\ told' # told => Verdict(t, mode) = "revoked_before_effect"
  BY DEF Resolve
<1>4. told' \subseteq Tokens /\ \A u \in told' : u \in told \/ u = t
  BY <1>3 DEF FenceTypes
<1>5. CASE mode = "revoke" /\ t[1] \in registered /\ attempts[t[1]][t[2]] = "absent"
  <2>1. attempts' = [attempts EXCEPT ![t[1]][t[2]] = "revoked"]
    BY <1>5 DEF Resolve
  <2>2. /\ attempts' \in [Epochs -> [Attempts -> AttemptStates]]
        /\ attempts'[t[1]][t[2]] = "revoked"
        /\ \A u \in Tokens : u # t => attempts'[u[1]][u[2]] = attempts[u[1]][u[2]]
        /\ \A e \in Epochs, a \in Attempts : e # t[1] => attempts'[e][a] = attempts[e][a]
    BY <2>1, AttemptUpdate DEF AttemptStates
  <2>3. FenceTypes' /\ OldEpochsAreShut'
    BY <1>1, <1>4, <2>2 DEF FenceTypes, OldEpochsAreShut
  <2>4. FutureIsEmpty'
    BY <1>1, <1>2, <2>2 DEF FutureIsEmpty
  <2>5. RunningIsConsumed'
    BY <1>1, <1>5, <2>2 DEF RunningIsConsumed, FenceTypes
  <2>6. ToldIsLost'
    BY <1>1, <1>4, <2>2 DEF ToldIsLost, Lost, FenceTypes
  <2>. QED
    BY <2>3, <2>4, <2>5, <2>6
<1>6. CASE ~(mode = "revoke" /\ t[1] \in registered /\ attempts[t[1]][t[2]] = "absent")
  <2>1. UNCHANGED attempts
    BY <1>6 DEF Resolve
  <2>2. Verdict(t, mode) = "revoked_before_effect" => Lost(t)
    <3>1. CASE t[1] \notin registered
      BY <3>1 DEF Verdict
    <3>2. CASE t[1] \in registered /\ attempts[t[1]][t[2]] = "absent"
      BY <1>2, <1>6, <3>2 DEF Verdict, Lost, OldEpochsAreShut, FenceTypes
    <3>3. CASE attempts[t[1]][t[2]] = "revoked"
      BY <3>3 DEF Lost
    <3>4. CASE attempts[t[1]][t[2]] \in {"consumed", "settled"}
      BY <3>4 DEF Verdict
    <3>. QED
      BY <3>1, <3>2, <3>3, <3>4, TokenParts DEF FenceTypes, AttemptStates
  <2>3. ToldIsLost'
    BY <1>1, <1>3, <1>4, <2>1, <2>2 DEF ToldIsLost, Lost
  <2>. QED
    BY <1>1, <1>4, <2>1, <2>3
    DEF FenceTypes, OldEpochsAreShut, FutureIsEmpty, RunningIsConsumed
<1>. QED
  BY <1>5, <1>6

(* Steps that leave every attempt as it is. *)
LEMMA LifecyclePreserves ==
  ASSUME FenceInv, Dispose \/ Load \/ Quit
  PROVE  FenceInv'
<1>. USE DEF FenceInv
<1>1. last \in Nat /\ last \in Epochs
  BY DEF FenceTypes, Epochs
<1>2. \A t \in told : t \in Tokens /\ t[1] \in Nat
  BY TokenParts DEF FenceTypes, Epochs
<1>3. CASE Dispose \/ Quit
  <2>1. /\ disposed' = TRUE /\ closed' \in {closed, closed \cup {last}}
        /\ run' \subseteq run /\ UNCHANGED <<last, current, attempts, told>>
    BY <1>3 DEF Dispose, Quit, FenceTypes
  <2>2. FenceTypes' /\ OldEpochsAreShut'
    BY <1>1, <2>1 DEF FenceTypes, OldEpochsAreShut
  <2>3. FutureIsEmpty' /\ RunningIsConsumed'
    BY <2>1 DEF FutureIsEmpty, RunningIsConsumed
  <2>4. ToldIsLost'
    BY <2>1 DEF ToldIsLost, Lost
  <2>. QED
    BY <2>2, <2>3, <2>4
<1>4. CASE Load
  <2>1. last' = last + 1 /\ current' = last + 1 /\ last + 1 \in Epochs
        /\ UNCHANGED <<closed, attempts, run, told>> /\ disposed' = FALSE
    BY <1>1, <1>4, BoundsAssumption DEF Load, Epochs
  <2>2. FenceTypes' /\ OldEpochsAreShut'
    <3>1. \A e \in closed : e \in Nat /\ e <= last
      BY DEF FenceTypes, Epochs
    <3>2. \A e \in closed : e <= last + 1 /\ e # last + 1
      BY <1>1, <3>1
    <3>. QED
      BY <2>1, <3>2 DEF FenceTypes, OldEpochsAreShut
  <2>3. FutureIsEmpty' /\ RunningIsConsumed'
    BY <1>1, <2>1 DEF FutureIsEmpty, RunningIsConsumed, Epochs
  <2>4. ToldIsLost'
    BY <1>1, <1>2, <2>1 DEF ToldIsLost, Lost
  <2>. QED
    BY <2>2, <2>3, <2>4
<1>. QED
  BY <1>3, <1>4

LEMMA OthersPreserve ==
  ASSUME FenceInv,
         \/ \E h \in Handlers : EnterUnfenced(h) \/ SettleUnfenced(h)
         \/ ToggleRequireFence \/ QuiescenceDelayElapses \/ OldBuildHandlerEnds
         \/ UNCHANGED vars
  PROVE  FenceInv'
<1>1. UNCHANGED <<last, current, disposed, closed, attempts, run, told>>
  BY DEF EnterUnfenced, SettleUnfenced, ToggleRequireFence,
         QuiescenceDelayElapses, OldBuildHandlerEnds, vars
<1>. QED
  BY <1>1
  DEF FenceInv, FenceTypes, OldEpochsAreShut, FutureIsEmpty, RunningIsConsumed,
      ToldIsLost, Lost

LEMMA FenceInvStep == FenceInv /\ [Next]_vars => FenceInv'
  BY ConsumePreserves, SettlePreserves, ResolvePreserves, LifecyclePreserves,
     OthersPreserve
  DEF Next

(* The fate of every token agrees with what callers were told of it, for   *)
(* any bounds and any number of attempts.                                  *)
THEOREM FenceInvariance == Spec => []FenceInv
  BY InitEstablishes, FenceInvStep, PTL DEF Spec

(* An attempt of which some caller was told "revoked before its effect"    *)
(* never takes effect.                                                     *)
THEOREM RevokedVerdictsAreFinal == Spec => []RevokedVerdictIsFinal
<1>1. FenceInv => RevokedVerdictIsFinal
  BY DEF FenceInv, ToldIsLost, Lost, RevokedVerdictIsFinal, Entered
<1>. QED
  BY <1>1, FenceInvariance, PTL

-----------------------------------------------------------------------------
(* Refinement of the contract. *)

LEMMA ContractTokens == Contract!Tokens = Tokens
  BY DEF Contract!Tokens, Tokens

(* The fence's own view of a token, in the terms of the contract.          *)
LEMMA EnterMaps ==
  ASSUME FenceInv, FenceInv', NEW t \in Tokens, EnterFenced(t) \/ EnterFencedAndRotate(t)
  PROVE  Contract!FenceNext
<1>. USE DEF FenceInv
<1>1. /\ ~disposed /\ ~disposed' /\ t[1] = last /\ attempts[t[1]][t[2]] = "absent"
      /\ attempts' = [attempts EXCEPT ![t[1]][t[2]] = "consumed"]
      /\ run' = run \cup {t} /\ current = last /\ current' = last'
  BY DEF EnterFenced, EnterFencedAndRotate, Admissible, Consumed, FenceTypes
<1>2. /\ attempts'[t[1]][t[2]] = "consumed"
      /\ \A u \in Tokens : u # t => attempts'[u[1]][u[2]] = attempts[u[1]][u[2]]
  BY <1>1, AttemptUpdate DEF AttemptStates
<1>3. Live = last /\ Live' = last'
  BY <1>1 DEF Live
<1>4. last \in Nat /\ \A u \in Tokens : u[1] \in Nat
  BY TokenParts DEF FenceTypes, Epochs
<1>5. t \notin Entered /\ t \notin Barred
  BY <1>1, <1>3 DEF Entered, Barred
<1>6. Entered' = Entered \cup {t}
  BY <1>2 DEF Entered
<1>7. CASE EnterFenced(t)
  <2>1. last' = last
    BY <1>7 DEF EnterFenced
  <2>2. Barred' = Barred
    BY <1>2, <1>3, <1>5, <1>6, <2>1 DEF Barred
  <2>3. Contract!Enter(t)
    BY <1>1, <1>3, <1>5, <1>6, <2>1, <2>2 DEF Contract!Enter, Contract!Admits
  <2>. QED
    BY <2>3, ContractTokens DEF Contract!FenceNext
<1>8. CASE EnterFencedAndRotate(t)
  <2>1. last' = last + 1 /\ last + 1 \in Epochs
    BY <1>4, <1>8, BoundsAssumption DEF EnterFencedAndRotate, Epochs
  <2>2. Barred' = Barred \cup (Contract!Unspent(Live) \ {t})
    <3>1. \A u \in Tokens : u[1] <= last + 1 /\ u[1] # last + 1 <=> u[1] <= last
      BY <1>4
    <3>. QED
      BY <1>2, <1>3, <1>4, <1>5, <1>6, <2>1, <3>1, ContractTokens
      DEF Barred, Contract!Unspent
  <2>3. (1 .. last)' = (1 .. last) \cup {last + 1} /\ last + 1 \notin 1 .. last
    BY <1>4, <2>1
  <2>4. Contract!EnterAndRotate(t, last + 1)
    BY <1>1, <1>3, <1>5, <1>6, <2>1, <2>2, <2>3
    DEF Contract!EnterAndRotate, Contract!Admits
  <2>. QED
    BY <2>1, <2>4, ContractTokens DEF Contract!FenceNext
<1>. QED
  BY <1>7, <1>8

LEMMA SettleMaps ==
  ASSUME FenceInv, NEW t \in Tokens, SettleFenced(t)
  PROVE  Contract!FenceNext
<1>. USE DEF FenceInv
<1>1. /\ t \in run /\ attempts[t[1]][t[2]] = "consumed" /\ run' = run \ {t}
      /\ attempts' = [attempts EXCEPT ![t[1]][t[2]] = "settled"]
      /\ UNCHANGED <<last, current, disposed>>
  BY DEF SettleFenced, RunningIsConsumed
<1>2. /\ attempts'[t[1]][t[2]] = "settled"
      /\ \A u \in Tokens : u # t => attempts'[u[1]][u[2]] = attempts[u[1]][u[2]]
  BY <1>1, AttemptUpdate DEF AttemptStates
<1>3. Entered' = Entered /\ Live' = Live
  BY <1>1, <1>2 DEF Entered, Live
<1>4. Barred' = Barred
  BY <1>1, <1>2, <1>3 DEF Barred
<1>5. Contract!Settle(t)
  BY <1>1, <1>3, <1>4 DEF Contract!Settle
<1>. QED
  BY <1>5, ContractTokens DEF Contract!FenceNext

LEMMA ResolveMaps ==
  ASSUME FenceInv, NEW t \in Tokens, NEW mode, Resolve(t, mode)
  PROVE  Contract!FenceNext \/ UNCHANGED Contract!fenceVars
<1>. USE DEF FenceInv
<1>1. UNCHANGED <<last, current, disposed, run>>
  BY DEF Resolve
<1>2. CASE UNCHANGED attempts
  BY <1>1, <1>2 DEF Contract!fenceVars, Live, Entered, Barred
<1>3. CASE /\ attempts[t[1]][t[2]] = "absent"
           /\ attempts' = [attempts EXCEPT ![t[1]][t[2]] = "revoked"]
  <2>1. /\ attempts'[t[1]][t[2]] = "revoked"
        /\ \A u \in Tokens : u # t => attempts'[u[1]][u[2]] = attempts[u[1]][u[2]]
    BY <1>3, AttemptUpdate DEF AttemptStates
  <2>2. Entered' = Entered /\ Live' = Live /\ t \notin Entered
    BY <1>1, <1>3, <2>1 DEF Entered, Live
  <2>3. Barred' = Barred \cup ({t} \ Entered)
    BY <1>1, <2>1, <2>2 DEF Barred
  <2>4. Contract!Revoke({t})
    BY <1>1, <2>2, <2>3 DEF Contract!Revoke
  <2>. QED
    BY <2>4, ContractTokens DEF Contract!FenceNext
<1>. QED
  BY <1>2, <1>3 DEF Resolve

LEMMA LifecycleMaps ==
  ASSUME FenceInv, Dispose \/ Load \/ Quit
  PROVE  Contract!FenceNext
<1>. USE DEF FenceInv
<1>1. last \in Nat /\ last # NoEpoch /\ current = last
      /\ \A u \in Tokens : u[1] \in Nat /\ u[1] # NoEpoch
  BY TokenParts DEF FenceTypes, Epochs, NoEpoch
<1>2. UNCHANGED attempts /\ Entered' = Entered
  BY DEF Dispose, Load, Quit, Entered
<1>3. CASE Dispose \/ Quit
  <2>1. Live' = NoEpoch /\ last' = last
    BY <1>3 DEF Dispose, Quit, Live
  <2>2. Barred' = Barred \cup Contract!Unspent(Live)
    <3>1. CASE disposed
      BY <1>1, <1>2, <2>1, <3>1, ContractTokens DEF Barred, Live, Contract!Unspent
    <3>2. CASE ~disposed
      BY <1>1, <1>2, <2>1, <3>2, ContractTokens DEF Barred, Live, Contract!Unspent
    <3>. QED
      BY <3>1, <3>2
  <2>3. CASE Dispose
    <3>1. Live # NoEpoch
      BY <1>1, <2>3 DEF Dispose, Live
    <3>2. Contract!Retire
      BY <1>2, <2>1, <2>2, <2>3, <3>1 DEF Contract!Retire, Dispose
    <3>. QED
      BY <3>2 DEF Contract!FenceNext
  <2>4. CASE Quit
    <3>1. Contract!QuitRealm
      BY <1>2, <2>1, <2>2, <2>4 DEF Contract!QuitRealm, Quit
    <3>. QED
      BY <3>1 DEF Contract!FenceNext
  <2>. QED
    BY <1>3, <2>3, <2>4
<1>4. CASE Load
  <2>1. /\ last' = last + 1 /\ last + 1 \in Epochs /\ Live' = last + 1
        /\ Live = NoEpoch /\ disposed /\ run' = run
    BY <1>1, <1>4, BoundsAssumption DEF Load, Live, Epochs
  <2>2. \A u \in Tokens : u[1] <= last + 1 /\ u[1] # last + 1 <=> u[1] <= last
    BY <1>1
  <2>3. Barred' = Barred
    BY <1>1, <1>2, <2>1, <2>2 DEF Barred
  <2>4. (1 .. last)' = (1 .. last) \cup {last + 1} /\ last + 1 \notin 1 .. last
    BY <1>1, <2>1
  <2>5. Contract!Issue(last + 1)
    BY <1>2, <2>1, <2>3, <2>4 DEF Contract!Issue
  <2>. QED
    BY <2>1, <2>5 DEF Contract!FenceNext
<1>. QED
  BY <1>3, <1>4

LEMMA OthersMap ==
  ASSUME \/ \E h \in Handlers : EnterUnfenced(h) \/ SettleUnfenced(h)
         \/ ToggleRequireFence \/ QuiescenceDelayElapses \/ OldBuildHandlerEnds
         \/ UNCHANGED vars
  PROVE  UNCHANGED Contract!fenceVars
<1>1. UNCHANGED <<last, current, disposed, attempts, run>>
  BY DEF EnterUnfenced, SettleUnfenced, ToggleRequireFence,
         QuiescenceDelayElapses, OldBuildHandlerEnds, vars
<1>. QED
  BY <1>1 DEF Contract!fenceVars, Live, Entered, Barred

(* The fence keeps its contract: a token enters at most once, only in its  *)
(* own live epoch, and never after it was revoked or its epoch retired --  *)
(* through rotations, pruning, plugin reloads and restarts.                *)
THEOREM FenceImplementsContract == Spec => ImplementsContract
<1>1. Init => Contract!FenceInit
  <2>1. SUFFICES ASSUME Init PROVE Contract!FenceInit
    OBVIOUS
  <2>2. FenceInv
    BY <2>1, InitEstablishes
  <2>3. last = 1 /\ Live = 1 /\ NoEpoch = 0 /\ 1 \in Epochs
    BY <2>1, <2>2 DEF Init, Live, NoEpoch, FenceInv, FenceTypes
  <2>4. Entered = {}
    BY <2>1, TokenParts DEF Init, Entered
  <2>5. Barred = {}
    <3>1. \A t \in Tokens : attempts[t[1]][t[2]] = "absent" /\ t[1] \in Nat /\ t[1] >= 1
      BY <2>1, TokenParts DEF Init, Epochs
    <3>. QED
      BY <2>3, <3>1 DEF Barred
  <2>6. 1 .. last = {Live} \ {NoEpoch}
    BY <2>3
  <2>. QED
    BY <2>1, <2>3, <2>4, <2>5, <2>6 DEF Contract!FenceInit, Init
<1>2. FenceInv /\ FenceInv' /\ [Next]_vars => [Contract!FenceNext]_(Contract!fenceVars)
  BY EnterMaps, SettleMaps, ResolveMaps, LifecycleMaps, OthersMap DEF Next
<1>. QED
  BY <1>1, <1>2, FenceInvariance, PTL DEF Spec, ImplementsContract, Contract!FenceSpec

-----------------------------------------------------------------------------
(* The registry and its counters. *)

RunningIn(e) == {t \in run : t[1] = e}
UnfencedIn(e) == {h \in Handlers : runUnfenced[h] = e}

RegistryTypes ==
  /\ registered \subseteq Epochs
  /\ \A e \in registered : e <= last
  /\ fenced \in [Epochs -> Nat]
  /\ unfenced \in [Epochs -> Nat]
  /\ runUnfenced \in [Handlers -> 0 .. MaxEpochs]
  /\ requireFence \in BOOLEAN
  /\ strict \in {"off", "waiting", "elapsed"}
  /\ oldBuild \in BOOLEAN

(* The counters of a registered epoch count what runs in it.               *)
CountersCount ==
  \A e \in registered : /\ fenced[e] = Cardinality(RunningIn(e))
                        /\ unfenced[e] = Cardinality(UnfencedIn(e))

(* Whatever runs, runs in a registered epoch; so does the live instance.   *)
RunningIsRegistered ==
  /\ \A t \in run : t[1] \in registered
  /\ \A h \in Handlers : runUnfenced[h] # 0 => runUnfenced[h] \in registered
  /\ disposed \/ current \in registered

FutureIsUncounted ==
  \A e \in Epochs : e > last => fenced[e] = 0 /\ unfenced[e] = 0

ElapsedIsNew == strict = "elapsed" => ~oldBuild

RegistryInv ==
  RegistryTypes /\ CountersCount /\ RunningIsRegistered /\ FutureIsUncounted /\ ElapsedIsNew

(* Pruning only drops closed epochs in which nothing runs. *)
LEMMA PrunedKeeps ==
  ASSUME NEW R, NEW C, NEW f, NEW u
  PROVE  /\ Pruned(R, C, f, u) \subseteq R
         /\ \A e \in R : e \notin C \/ f[e] # 0 \/ u[e] # 0 => e \in Pruned(R, C, f, u)
  BY DEF Pruned, Prunable

LEMMA TokensFinite == IsFiniteSet(Tokens)
<1>1. IsFiniteSet(Epochs)
  BY BoundsAssumption, FS_Interval DEF Epochs
<1>. QED
  BY <1>1, FiniteAssumption, FS_Product DEF Tokens

(* A counter that counts is not zero while something runs. *)
LEMMA CountIsPositive ==
  ASSUME NEW S, NEW x \in S, S \subseteq Tokens \/ S \subseteq Handlers
  PROVE  IsFiniteSet(S) /\ Cardinality(S) # 0
<1>1. IsFiniteSet(S)
  BY TokensFinite, FiniteAssumption, FS_Subset
<1>. QED
  BY <1>1, FS_EmptySet

LEMMA RunningFinite ==
  ASSUME FenceTypes, NEW e
  PROVE  IsFiniteSet(RunningIn(e)) /\ IsFiniteSet(UnfencedIn(e))
<1>1. RunningIn(e) \subseteq Tokens /\ UnfencedIn(e) \subseteq Handlers
  BY DEF RunningIn, UnfencedIn, FenceTypes
<1>. QED
  BY <1>1, TokensFinite, FiniteAssumption, FS_Subset

LEMMA InitRegistry == Init => RegistryInv
<1>. SUFFICES ASSUME Init PROVE RegistryInv
  OBVIOUS
<1>1. 1 \in Epochs /\ \A e \in Epochs : e \in Nat
  BY BoundsAssumption DEF Epochs
<1>2. RegistryTypes
  <2>1. 0 \in 0 .. MaxEpochs
    BY BoundsAssumption
  <2>. QED
    BY <1>1, <2>1 DEF Init, RegistryTypes, StrictOnActivation
<1>3. CountersCount
  <2>1. RunningIn(1) = {} /\ UnfencedIn(1) = {}
    BY DEF Init, RunningIn, UnfencedIn
  <2>. QED
    BY <1>1, <2>1, FS_EmptySet DEF Init, CountersCount
<1>4. RunningIsRegistered /\ FutureIsUncounted /\ ElapsedIsNew
  BY <1>1 DEF Init, RunningIsRegistered, FutureIsUncounted, ElapsedIsNew, StrictOnActivation
<1>. QED
  BY <1>2, <1>3, <1>4 DEF RegistryInv

(* One more effect of token t. *)
LEMMA OneMoreRunning ==
  ASSUME FenceInv, RegistryInv, NEW t \in Tokens, t \notin run, t[1] \in registered,
         run' = run \cup {t}, fenced' = [fenced EXCEPT ![t[1]] = @ + 1]
  PROVE  /\ fenced' \in [Epochs -> Nat] /\ fenced'[t[1]] # 0
         /\ \A e \in Epochs : e # t[1] => fenced'[e] = fenced[e]
         /\ \A e \in registered : fenced'[e] = Cardinality(RunningIn(e)')
<1>1. t[1] \in Epochs /\ fenced[t[1]] \in Nat
  BY DEF RegistryInv, RegistryTypes
<1>2. fenced' \in [Epochs -> Nat] /\ fenced'[t[1]] = fenced[t[1]] + 1
      /\ \A e \in Epochs : e # t[1] => fenced'[e] = fenced[e]
  BY <1>1 DEF RegistryInv, RegistryTypes
<1>3. Cardinality(RunningIn(t[1])') = Cardinality(RunningIn(t[1])) + 1
  <2>1. RunningIn(t[1])' = RunningIn(t[1]) \cup {t} /\ t \notin RunningIn(t[1])
    BY DEF RunningIn
  <2>. QED
    BY <2>1, RunningFinite, FS_AddElement DEF FenceInv
<1>4. \A e \in registered : e # t[1] => RunningIn(e)' = RunningIn(e)
  BY DEF RunningIn
<1>5. \A e \in registered : e \in Epochs /\ fenced[e] = Cardinality(RunningIn(e))
  BY DEF RegistryInv, CountersCount, RegistryTypes
<1>. QED
  BY <1>1, <1>2, <1>3, <1>4, <1>5

LEMMA EnterKeepsRegistry ==
  ASSUME FenceInv, RegistryInv, NEW t \in Tokens, EnterFenced(t) \/ EnterFencedAndRotate(t)
  PROVE  RegistryInv'
<1>. USE DEF RegistryInv
<1>1. /\ ~disposed /\ t[1] = current /\ current = last /\ t \notin run
      /\ run' = run \cup {t} /\ fenced' = [fenced EXCEPT ![t[1]] = @ + 1]
      /\ UNCHANGED <<disposed, unfenced, requireFence, strict, runUnfenced, oldBuild>>
  BY DEF EnterFenced, EnterFencedAndRotate, Admissible, FenceInv, FenceTypes, RunningIsConsumed
<1>2. t[1] \in registered /\ t[1] \in Epochs /\ last \in Nat
  BY <1>1 DEF RunningIsRegistered, RegistryTypes, FenceInv, FenceTypes, Epochs
<1>3. /\ fenced' \in [Epochs -> Nat] /\ fenced'[t[1]] # 0
      /\ \A e \in Epochs : e # t[1] => fenced'[e] = fenced[e]
      /\ \A e \in registered : fenced'[e] = Cardinality(RunningIn(e)')
  BY <1>1, <1>2, OneMoreRunning
<1>4. \A e \in Epochs : UnfencedIn(e)' = UnfencedIn(e)
  BY <1>1 DEF UnfencedIn
<1>5. ElapsedIsNew'
  BY <1>1 DEF ElapsedIsNew
<1>6. CASE EnterFenced(t)
  <2>1. UNCHANGED <<last, current, registered>>
    BY <1>6 DEF EnterFenced
  <2>2. RegistryTypes' /\ RunningIsRegistered'
    BY <1>1, <1>2, <1>3, <2>1 DEF RegistryTypes, RunningIsRegistered
  <2>3. CountersCount'
    BY <1>1, <1>3, <1>4, <2>1 DEF CountersCount, RegistryTypes
  <2>4. FutureIsUncounted'
    BY <1>1, <1>2, <1>3, <2>1 DEF FutureIsUncounted
  <2>. QED
    BY <1>5, <2>2, <2>3, <2>4
<1>7. CASE EnterFencedAndRotate(t)
  <2>0. PICK next : next = last + 1
    OBVIOUS
  <2>1. /\ last' = next /\ current' = next /\ next \in Epochs /\ closed' = closed \cup {last}
        /\ registered' = Pruned(registered \cup {next}, closed', fenced', unfenced)
    BY <1>1, <1>2, <1>7, <2>0, BoundsAssumption DEF EnterFencedAndRotate, Epochs
  <2>2. /\ registered' \subseteq registered \cup {next}
        /\ \A e \in registered \cup {next} :
             e \notin closed' \/ fenced'[e] # 0 \/ unfenced[e] # 0 => e \in registered'
    BY <2>1, PrunedKeeps
  <2>3. /\ next \notin closed' /\ next \notin registered
        /\ \A e \in registered : e < next /\ e \in Epochs
    BY <1>2, <2>0, <2>1 DEF FenceInv, FenceTypes, RegistryTypes, Epochs
  <2>4. fenced'[next] = 0 /\ unfenced[next] = 0
    BY <1>1, <1>2, <1>3, <2>0, <2>1 DEF FutureIsUncounted
  <2>5. RunningIn(next)' = {} /\ UnfencedIn(next)' = {}
    <3>1. \A u \in run' : u[1] \in registered
      BY <1>1, <1>2 DEF RunningIsRegistered
    <3>2. \A h \in Handlers : runUnfenced[h] # next
      BY <1>2, <2>1, <2>3 DEF RunningIsRegistered, Epochs
    <3>. QED
      BY <1>1, <2>3, <3>1, <3>2 DEF RunningIn, UnfencedIn
  <2>6. RegistryTypes'
    <3>1. \A e \in registered' : e \in Epochs /\ e <= next
      BY <1>2, <2>1, <2>2, <2>3 DEF Epochs
    <3>. QED
      BY <1>1, <1>3, <2>1, <3>1 DEF RegistryTypes
  <2>7. CountersCount'
    <3>. SUFFICES ASSUME NEW e \in registered'
                  PROVE  /\ fenced'[e] = Cardinality(RunningIn(e)')
                         /\ unfenced'[e] = Cardinality(UnfencedIn(e)')
      BY DEF CountersCount
    <3>1. CASE e = next
      BY <1>1, <2>4, <2>5, <3>1, FS_EmptySet
    <3>2. CASE e \in registered
      <4>1. UnfencedIn(e)' = UnfencedIn(e) /\ unfenced[e] = Cardinality(UnfencedIn(e))
        BY <1>4, <2>3, <3>2 DEF CountersCount
      <4>. QED
        BY <1>1, <1>3, <3>2, <4>1
    <3>. QED
      BY <2>2, <3>1, <3>2
  <2>8. RunningIsRegistered'
    <3>1. \A e \in registered : fenced'[e] # 0 \/ unfenced[e] # 0 => e \in registered'
      BY <2>2
    <3>2. ASSUME NEW u \in run' PROVE u[1] \in registered'
      <4>1. u[1] \in registered /\ u \in RunningIn(u[1])'
        BY <1>1, <1>2 DEF RunningIsRegistered, RunningIn
      <4>2. fenced'[u[1]] # 0
        <5>1. RunningIn(u[1])' \subseteq Tokens
          BY <1>1 DEF RunningIn, FenceInv, FenceTypes
        <5>2. Cardinality(RunningIn(u[1])') # 0
          BY <4>1, <5>1, CountIsPositive
        <5>. QED
          BY <1>3, <4>1, <5>2
      <4>. QED
        BY <3>1, <4>1, <4>2
    <3>3. ASSUME NEW h \in Handlers, runUnfenced'[h] # 0 PROVE runUnfenced'[h] \in registered'
      <4>1. runUnfenced[h] \in registered /\ h \in UnfencedIn(runUnfenced[h])
        BY <1>1, <3>3 DEF RunningIsRegistered, UnfencedIn
      <4>2. unfenced[runUnfenced[h]] # 0
        BY <4>1, CountIsPositive DEF CountersCount, UnfencedIn
      <4>. QED
        BY <1>1, <3>1, <4>1, <4>2
    <3>4. current' \in registered'
      BY <2>1, <2>2, <2>3
    <3>. QED
      BY <3>2, <3>3, <3>4 DEF RunningIsRegistered
  <2>9. FutureIsUncounted'
    BY <1>1, <1>2, <1>3, <2>0, <2>1 DEF FutureIsUncounted, Epochs
  <2>. QED
    BY <1>5, <2>6, <2>7, <2>8, <2>9
<1>. QED
  BY <1>6, <1>7

LEMMA SettleKeepsRegistry ==
  ASSUME FenceInv, RegistryInv, NEW t \in Tokens, SettleFenced(t)
  PROVE  RegistryInv'
<1>. USE DEF RegistryInv
<1>1. /\ t \in run /\ run' = run \ {t} /\ fenced' = [fenced EXCEPT ![t[1]] = @ - 1]
      /\ registered' = Pruned(registered, closed, fenced', unfenced)
      /\ UNCHANGED <<last, current, disposed, closed, unfenced, requireFence, strict,
                     runUnfenced, oldBuild>>
  BY DEF SettleFenced
<1>2. /\ t[1] \in registered /\ t[1] \in Epochs /\ last \in Nat /\ t[1] <= last
      /\ t \in RunningIn(t[1])
  <2>1. t[1] \in registered /\ t \in RunningIn(t[1])
    BY <1>1 DEF RunningIsRegistered, RunningIn
  <2>2. t[1] \in Epochs /\ t[1] <= last
    BY <2>1 DEF RegistryTypes
  <2>3. last \in Nat
    BY BoundsAssumption DEF FenceInv, FenceTypes, Epochs
  <2>. QED
    BY <2>1, <2>2, <2>3
<1>3. Cardinality(RunningIn(t[1])) \in Nat \ {0} /\ IsFiniteSet(RunningIn(t[1]))
  BY <1>2, RunningFinite, CountIsPositive, FS_CardinalityType DEF FenceInv, FenceTypes, RunningIn
<1>4. fenced[t[1]] \in Nat \ {0}
  BY <1>2, <1>3 DEF CountersCount
<1>5. /\ fenced' \in [Epochs -> Nat] /\ fenced'[t[1]] = fenced[t[1]] - 1
      /\ \A e \in Epochs : e # t[1] => fenced'[e] = fenced[e]
  BY <1>1, <1>2, <1>4 DEF RegistryTypes
<1>6. Cardinality(RunningIn(t[1])') = Cardinality(RunningIn(t[1])) - 1
  <2>1. RunningIn(t[1])' = RunningIn(t[1]) \ {t}
    BY <1>1 DEF RunningIn
  <2>2. Cardinality(RunningIn(t[1]) \ {t}) = Cardinality(RunningIn(t[1])) - 1
    BY <1>2, <1>3, FS_RemoveElement
  <2>. QED
    BY <2>1, <2>2
<1>7. ASSUME NEW e \in registered
      PROVE  /\ fenced'[e] = Cardinality(RunningIn(e)')
             /\ unfenced'[e] = Cardinality(UnfencedIn(e)')
  <2>1. UnfencedIn(e)' = UnfencedIn(e) /\ e \in Epochs
    BY <1>1 DEF UnfencedIn, RegistryTypes
  <2>2. CASE e = t[1]
    BY <1>1, <1>5, <1>6, <2>1, <2>2 DEF CountersCount
  <2>3. CASE e # t[1]
    <3>1. RunningIn(e)' = RunningIn(e)
      BY <1>1, <2>3 DEF RunningIn
    <3>. QED
      BY <1>1, <1>5, <2>1, <2>3, <3>1 DEF CountersCount
  <2>. QED
    BY <2>2, <2>3
<1>8. /\ registered' \subseteq registered
      /\ \A e \in registered : e \notin closed \/ fenced'[e] # 0 \/ unfenced[e] # 0
                                 => e \in registered'
  <2>1. PICK f : f = fenced'
    OBVIOUS
  <2>2. registered' = Pruned(registered, closed, f, unfenced)
    BY <1>1, <2>1
  <2>. QED
    BY <2>1, <2>2, PrunedKeeps
<1>9. RegistryTypes' /\ CountersCount'
  BY <1>1, <1>5, <1>7, <1>8 DEF RegistryTypes, CountersCount
<1>10. RunningIsRegistered'
  <2>1. ASSUME NEW u \in run' PROVE u[1] \in registered'
    <3>1. u[1] \in registered /\ u \in RunningIn(u[1])' /\ RunningIn(u[1])' \subseteq Tokens
      BY <1>1 DEF RunningIsRegistered, RunningIn, FenceInv, FenceTypes
    <3>2. Cardinality(RunningIn(u[1])') # 0
      BY <3>1, CountIsPositive
    <3>. QED
      BY <1>7, <1>8, <3>1, <3>2
  <2>2. ASSUME NEW h \in Handlers, runUnfenced[h] # 0 PROVE runUnfenced[h] \in registered'
    <3>1. runUnfenced[h] \in registered /\ h \in UnfencedIn(runUnfenced[h])
      BY <2>2 DEF RunningIsRegistered, UnfencedIn
    <3>2. unfenced[runUnfenced[h]] # 0
      BY <3>1, CountIsPositive DEF CountersCount, UnfencedIn
    <3>. QED
      BY <1>8, <3>1, <3>2
  <2>3. disposed \/ current \in registered'
    BY <1>8 DEF RunningIsRegistered, FenceInv, OldEpochsAreShut
  <2>. QED
    BY <1>1, <2>1, <2>2, <2>3 DEF RunningIsRegistered
<1>11. FutureIsUncounted' /\ ElapsedIsNew'
  BY <1>1, <1>2, <1>5 DEF FutureIsUncounted, ElapsedIsNew
<1>. QED
  BY <1>9, <1>10, <1>11

LEMMA EnterUnfencedKeepsRegistry ==
  ASSUME FenceInv, RegistryInv, NEW h \in Handlers, EnterUnfenced(h)
  PROVE  RegistryInv'
<1>. USE DEF RegistryInv
<1>1. /\ runUnfenced[h] = 0 /\ ~disposed /\ current \in registered
      /\ unfenced' = [unfenced EXCEPT ![current] = @ + 1]
      /\ runUnfenced' = [runUnfenced EXCEPT ![h] = current]
      /\ UNCHANGED <<last, current, disposed, registered, closed, fenced, requireFence,
                     strict, run, oldBuild>>
  BY DEF EnterUnfenced, RunningIsRegistered
<1>2. current \in Epochs /\ current = last /\ last \in Nat /\ current # 0
      /\ current \in 0 .. MaxEpochs /\ unfenced[current] \in Nat
  BY <1>1, BoundsAssumption DEF FenceInv, FenceTypes, RegistryTypes, Epochs
<1>3. /\ unfenced' \in [Epochs -> Nat] /\ unfenced'[current] = unfenced[current] + 1
      /\ \A e \in Epochs : e # current => unfenced'[e] = unfenced[e]
  BY <1>1, <1>2 DEF RegistryTypes
<1>4. /\ runUnfenced' \in [Handlers -> 0 .. MaxEpochs] /\ runUnfenced'[h] = current
      /\ \A g \in Handlers : g # h => runUnfenced'[g] = runUnfenced[g]
  BY <1>1, <1>2 DEF RegistryTypes
<1>5. ASSUME NEW e \in registered
      PROVE  unfenced'[e] = Cardinality(UnfencedIn(e)')
  <2>1. e \in Epochs /\ e # 0 /\ unfenced[e] = Cardinality(UnfencedIn(e))
    BY DEF RegistryTypes, CountersCount, Epochs
  <2>2. CASE e = current
    <3>1. UnfencedIn(e)' = UnfencedIn(e) \cup {h} /\ h \notin UnfencedIn(e)
      BY <1>1, <1>2, <1>4, <2>2 DEF UnfencedIn
    <3>2. IsFiniteSet(UnfencedIn(e))
      BY RunningFinite DEF FenceInv
    <3>3. Cardinality(UnfencedIn(e) \cup {h}) = Cardinality(UnfencedIn(e)) + 1
      BY <3>1, <3>2, FS_AddElement
    <3>. QED
      BY <1>3, <2>1, <2>2, <3>1, <3>3
  <2>3. CASE e # current
    <3>1. UnfencedIn(e)' = UnfencedIn(e)
      BY <1>1, <1>4, <2>1, <2>3 DEF UnfencedIn
    <3>. QED
      BY <1>3, <2>1, <2>3, <3>1
  <2>. QED
    BY <2>2, <2>3
<1>6. CountersCount'
  BY <1>1, <1>5 DEF CountersCount, RunningIn
<1>7. RegistryTypes' /\ RunningIsRegistered'
  BY <1>1, <1>3, <1>4 DEF RegistryTypes, RunningIsRegistered
<1>8. FutureIsUncounted' /\ ElapsedIsNew'
  BY <1>1, <1>2, <1>3 DEF FutureIsUncounted, ElapsedIsNew
<1>. QED
  BY <1>6, <1>7, <1>8

LEMMA SettleUnfencedKeepsRegistry ==
  ASSUME FenceInv, RegistryInv, NEW h \in Handlers, SettleUnfenced(h)
  PROVE  RegistryInv'
<1>. USE DEF RegistryInv
<1>0. PICK m : m = runUnfenced[h]
  OBVIOUS
<1>1. /\ m # 0 /\ m \in registered
      /\ unfenced' = [unfenced EXCEPT ![m] = @ - 1]
      /\ runUnfenced' = [runUnfenced EXCEPT ![h] = 0]
      /\ registered' = Pruned(registered, closed, fenced, unfenced')
      /\ UNCHANGED <<last, current, disposed, closed, fenced, requireFence, strict, run,
                     oldBuild>>
  BY <1>0 DEF SettleUnfenced, RunningIsRegistered
<1>2. m \in Epochs /\ last \in Nat /\ m <= last /\ h \in UnfencedIn(m)
  BY <1>0, <1>1 DEF RegistryTypes, FenceInv, FenceTypes, Epochs, UnfencedIn
<1>3. Cardinality(UnfencedIn(m)) \in Nat \ {0} /\ IsFiniteSet(UnfencedIn(m))
  BY <1>2, RunningFinite, CountIsPositive, FS_CardinalityType DEF FenceInv, UnfencedIn
<1>4. unfenced[m] \in Nat \ {0}
  BY <1>1, <1>3 DEF CountersCount
<1>5. /\ unfenced' \in [Epochs -> Nat] /\ unfenced'[m] = unfenced[m] - 1
      /\ \A e \in Epochs : e # m => unfenced'[e] = unfenced[e]
  BY <1>1, <1>2, <1>4 DEF RegistryTypes
<1>6. /\ runUnfenced' \in [Handlers -> 0 .. MaxEpochs] /\ runUnfenced'[h] = 0
      /\ \A g \in Handlers : g # h => runUnfenced'[g] = runUnfenced[g]
  BY <1>1, BoundsAssumption DEF RegistryTypes
<1>7. ASSUME NEW e \in registered
      PROVE  /\ fenced'[e] = Cardinality(RunningIn(e)')
             /\ unfenced'[e] = Cardinality(UnfencedIn(e)')
  <2>1. /\ e \in Epochs /\ e # 0 /\ unfenced[e] = Cardinality(UnfencedIn(e))
        /\ fenced'[e] = Cardinality(RunningIn(e)')
    BY <1>1 DEF RegistryTypes, CountersCount, Epochs, RunningIn
  <2>2. CASE e = m
    <3>1. UnfencedIn(e)' = UnfencedIn(e) \ {h}
      BY <1>6, <2>1, <2>2 DEF UnfencedIn
    <3>. QED
      BY <1>2, <1>3, <1>5, <2>1, <2>2, <3>1, FS_RemoveElement
  <2>3. CASE e # m
    <3>1. UnfencedIn(e)' = UnfencedIn(e)
      BY <1>0, <1>6, <2>1, <2>3 DEF UnfencedIn
    <3>. QED
      BY <1>5, <2>1, <2>3, <3>1
  <2>. QED
    BY <2>2, <2>3
<1>8. /\ registered' \subseteq registered
      /\ \A e \in registered : e \notin closed \/ fenced[e] # 0 \/ unfenced'[e] # 0
                                 => e \in registered'
  <2>1. PICK u : u = unfenced'
    OBVIOUS
  <2>2. registered' = Pruned(registered, closed, fenced, u)
    BY <1>1, <2>1
  <2>. QED
    BY <2>1, <2>2, PrunedKeeps
<1>9. RegistryTypes' /\ CountersCount'
  BY <1>1, <1>5, <1>6, <1>7, <1>8 DEF RegistryTypes, CountersCount
<1>10. RunningIsRegistered'
  <2>1. ASSUME NEW u \in run PROVE u[1] \in registered'
    <3>1. u[1] \in registered /\ u \in RunningIn(u[1])' /\ RunningIn(u[1])' \subseteq Tokens
      BY <1>1 DEF RunningIsRegistered, RunningIn, FenceInv, FenceTypes
    <3>2. Cardinality(RunningIn(u[1])') # 0
      BY <3>1, CountIsPositive
    <3>. QED
      BY <1>1, <1>7, <1>8, <3>1, <3>2
  <2>2. ASSUME NEW g \in Handlers, runUnfenced'[g] # 0 PROVE runUnfenced'[g] \in registered'
    <3>0. PICK e : e = runUnfenced'[g]
      OBVIOUS
    <3>1. e \in registered /\ g \in UnfencedIn(e)'
      BY <1>6, <2>2, <3>0 DEF RunningIsRegistered, UnfencedIn
    <3>2. unfenced'[e] # 0
      BY <1>7, <3>1, CountIsPositive DEF UnfencedIn
    <3>. QED
      BY <1>8, <3>0, <3>1, <3>2
  <2>3. disposed \/ current \in registered'
    BY <1>8 DEF RunningIsRegistered, FenceInv, OldEpochsAreShut
  <2>. QED
    BY <1>1, <2>1, <2>2, <2>3 DEF RunningIsRegistered
<1>11. FutureIsUncounted' /\ ElapsedIsNew'
  BY <1>1, <1>2, <1>5 DEF FutureIsUncounted, ElapsedIsNew
<1>. QED
  BY <1>9, <1>10, <1>11

(* Steps that start and settle no effect; an epoch that is dropped here is *)
(* closed, and nothing runs in it.                                         *)
LEMMA LifecycleKeepsRegistry ==
  ASSUME FenceInv, RegistryInv, Dispose \/ Load \/ Quit
  PROVE  RegistryInv'
<1>. USE DEF RegistryInv
<1>1. last \in Nat /\ last \in Epochs /\ current = last
  BY BoundsAssumption DEF FenceInv, FenceTypes, Epochs
<1>2. CASE Dispose
  <2>1. /\ disposed' = TRUE /\ registered' = Pruned(registered, closed', fenced, unfenced)
        /\ UNCHANGED <<last, current, fenced, unfenced, requireFence, strict, run,
                       runUnfenced, oldBuild>>
    BY <1>2 DEF Dispose
  <2>2. /\ registered' \subseteq registered
        /\ \A e \in registered : fenced[e] # 0 \/ unfenced[e] # 0 => e \in registered'
    BY <2>1, PrunedKeeps
  <2>3. RegistryTypes' /\ CountersCount' /\ FutureIsUncounted' /\ ElapsedIsNew'
    BY <2>1, <2>2
    DEF RegistryTypes, CountersCount, FutureIsUncounted, ElapsedIsNew, RunningIn, UnfencedIn
  <2>4. RunningIsRegistered'
    <3>1. ASSUME NEW u \in run PROVE u[1] \in registered'
      <4>1. u[1] \in registered /\ u \in RunningIn(u[1]) /\ RunningIn(u[1]) \subseteq Tokens
        BY DEF RunningIsRegistered, RunningIn, FenceInv, FenceTypes
      <4>2. Cardinality(RunningIn(u[1])) # 0
        BY <4>1, CountIsPositive
      <4>. QED
        BY <2>2, <4>1, <4>2 DEF CountersCount
    <3>2. ASSUME NEW h \in Handlers, runUnfenced[h] # 0 PROVE runUnfenced[h] \in registered'
      <4>1. runUnfenced[h] \in registered /\ h \in UnfencedIn(runUnfenced[h])
        BY <3>2 DEF RunningIsRegistered, UnfencedIn
      <4>2. Cardinality(UnfencedIn(runUnfenced[h])) # 0
        BY <4>1, CountIsPositive DEF UnfencedIn
      <4>. QED
        BY <2>2, <4>1, <4>2 DEF CountersCount
    <3>. QED
      BY <2>1, <3>1, <3>2 DEF RunningIsRegistered
  <2>. QED
    BY <2>3, <2>4
<1>3. CASE Load
  <2>0. PICK next : next = last + 1
    OBVIOUS
  <2>1. /\ disposed /\ last' = next /\ current' = next /\ next \in Epochs
        /\ registered' = Pruned(registered \cup {next}, closed, fenced, unfenced)
        /\ strict' \in {"off", "waiting"}
        /\ UNCHANGED <<closed, fenced, unfenced, requireFence, run, runUnfenced, oldBuild>>
    BY <1>1, <1>3, <2>0, BoundsAssumption DEF Load, Epochs, StrictOnActivation
  <2>2. /\ registered' \subseteq registered \cup {next}
        /\ \A e \in registered \cup {next} :
             e \notin closed \/ fenced[e] # 0 \/ unfenced[e] # 0 => e \in registered'
    BY <2>1, PrunedKeeps
  <2>3. /\ next \notin closed /\ next \notin registered
        /\ \A e \in registered : e < next /\ e \in Epochs
    BY <1>1, <2>0, <2>1 DEF FenceInv, FenceTypes, RegistryTypes, Epochs
  <2>4. fenced[next] = 0 /\ unfenced[next] = 0
    BY <1>1, <2>0, <2>1 DEF FutureIsUncounted
  <2>5. RunningIn(next) = {} /\ UnfencedIn(next) = {}
    <3>1. next # 0
      BY <1>1, <2>0
    <3>. QED
      BY <2>3, <3>1 DEF RunningIn, UnfencedIn, RunningIsRegistered
  <2>6. RegistryTypes'
    <3>0. next \in Nat /\ \A e \in registered : e \in Nat /\ e <= next /\ e \in Epochs
      BY <1>1, <2>0, <2>3 DEF Epochs
    <3>1. \A e \in registered' : e \in Epochs /\ e <= next
      BY <2>1, <2>2, <3>0
    <3>. QED
      BY <2>1, <3>1 DEF RegistryTypes
  <2>7. CountersCount'
    <3>. SUFFICES ASSUME NEW e \in registered'
                  PROVE  fenced[e] = Cardinality(RunningIn(e)) /\ unfenced[e] = Cardinality(UnfencedIn(e))
      BY <2>1 DEF CountersCount, RunningIn, UnfencedIn
    <3>1. CASE e = next
      BY <2>4, <2>5, <3>1, FS_EmptySet
    <3>2. CASE e \in registered
      BY <3>2 DEF CountersCount
    <3>. QED
      BY <2>2, <3>1, <3>2
  <2>8. RunningIsRegistered'
    <3>1. ASSUME NEW u \in run PROVE u[1] \in registered'
      <4>1. u[1] \in registered /\ u \in RunningIn(u[1]) /\ RunningIn(u[1]) \subseteq Tokens
        BY DEF RunningIsRegistered, RunningIn, FenceInv, FenceTypes
      <4>2. Cardinality(RunningIn(u[1])) # 0
        BY <4>1, CountIsPositive
      <4>. QED
        BY <2>2, <4>1, <4>2 DEF CountersCount
    <3>2. ASSUME NEW h \in Handlers, runUnfenced[h] # 0 PROVE runUnfenced[h] \in registered'
      <4>1. runUnfenced[h] \in registered /\ h \in UnfencedIn(runUnfenced[h])
        BY <3>2 DEF RunningIsRegistered, UnfencedIn
      <4>2. Cardinality(UnfencedIn(runUnfenced[h])) # 0
        BY <4>1, CountIsPositive DEF UnfencedIn
      <4>. QED
        BY <2>2, <4>1, <4>2 DEF CountersCount
    <3>3. current' \in registered'
      BY <2>1, <2>2, <2>3
    <3>. QED
      BY <2>1, <3>1, <3>2, <3>3 DEF RunningIsRegistered
  <2>9. FutureIsUncounted' /\ ElapsedIsNew'
    BY <1>1, <2>0, <2>1 DEF FutureIsUncounted, ElapsedIsNew, Epochs
  <2>. QED
    BY <2>6, <2>7, <2>8, <2>9
<1>4. CASE Quit
  <2>1. /\ disposed' = TRUE /\ registered' = {} /\ run' = {} /\ oldBuild' = FALSE
        /\ runUnfenced' = [h \in Handlers |-> 0]
        /\ UNCHANGED <<last, current, fenced, unfenced, requireFence, strict>>
    BY <1>4 DEF Quit
  <2>2. RegistryTypes'
    <3>1. 0 \in 0 .. MaxEpochs
      BY BoundsAssumption
    <3>. QED
      BY <2>1, <3>1 DEF RegistryTypes
  <2>3. CountersCount' /\ RunningIsRegistered' /\ FutureIsUncounted' /\ ElapsedIsNew'
    BY <2>1 DEF CountersCount, RunningIsRegistered, FutureIsUncounted, ElapsedIsNew
  <2>. QED
    BY <2>2, <2>3
<1>. QED
  BY <1>2, <1>3, <1>4

LEMMA OthersKeepRegistry ==
  ASSUME FenceInv, RegistryInv,
         \/ \E t \in Tokens, mode \in {"inspect", "revoke"} : Resolve(t, mode)
         \/ ToggleRequireFence \/ QuiescenceDelayElapses \/ OldBuildHandlerEnds
         \/ UNCHANGED vars
  PROVE  RegistryInv'
<1>. USE DEF RegistryInv
<1>1. UNCHANGED <<last, current, disposed, registered, fenced, unfenced, run, runUnfenced>>
  BY DEF Resolve, ToggleRequireFence, QuiescenceDelayElapses, OldBuildHandlerEnds, vars
<1>2. /\ requireFence' \in BOOLEAN /\ strict' \in {"off", "waiting", "elapsed"}
      /\ oldBuild' \in BOOLEAN /\ (strict' = "elapsed" => ~oldBuild')
  <2>1. CASE ToggleRequireFence
    BY <2>1 DEF ToggleRequireFence, RegistryTypes, ElapsedIsNew
  <2>2. CASE QuiescenceDelayElapses
    BY <2>2 DEF QuiescenceDelayElapses, RegistryTypes
  <2>3. CASE OldBuildHandlerEnds
    BY <2>3 DEF OldBuildHandlerEnds, RegistryTypes
  <2>4. CASE UNCHANGED <<requireFence, strict, oldBuild>>
    BY <2>4 DEF RegistryTypes, ElapsedIsNew
  <2>. QED
    BY <2>1, <2>2, <2>3, <2>4 DEF Resolve, vars
<1>3. RegistryTypes' /\ CountersCount'
  BY <1>1, <1>2 DEF RegistryTypes, CountersCount, RunningIn, UnfencedIn
<1>4. RunningIsRegistered' /\ FutureIsUncounted' /\ ElapsedIsNew'
  BY <1>1, <1>2 DEF RunningIsRegistered, FutureIsUncounted, ElapsedIsNew
<1>. QED
  BY <1>3, <1>4

LEMMA RegistryInvStep == FenceInv /\ RegistryInv /\ [Next]_vars => RegistryInv'
  BY EnterKeepsRegistry, SettleKeepsRegistry, EnterUnfencedKeepsRegistry,
     SettleUnfencedKeepsRegistry, LifecycleKeepsRegistry, OthersKeepRegistry
  DEF Next

(* And the counters of the registry agree with the effects that run.       *)
THEOREM RegistryInvariance == Spec => [](FenceInv /\ RegistryInv)
<1>1. Init => FenceInv /\ RegistryInv
  BY InitEstablishes, InitRegistry
<1>2. FenceInv /\ RegistryInv /\ [Next]_vars => (FenceInv /\ RegistryInv)'
  BY FenceInvStep, RegistryInvStep
<1>. QED
  BY <1>1, <1>2, PTL DEF Spec

(* Every variable keeps its type; no counter ever goes below zero.         *)
THEOREM FenceIsTyped == Spec => []TypeOK
<1>1. FenceInv /\ RegistryInv => TypeOK
  BY BoundsAssumption DEF FenceInv, FenceTypes, RegistryInv, RegistryTypes, TypeOK, Epochs
<1>. QED
  BY <1>1, RegistryInvariance, PTL

(* An epoch in which an effect runs is never forgotten, so the answer      *)
(* "epoch_unknown" can be taken for the proof that nothing runs.           *)
THEOREM RunningEpochsAreKnown == Spec => []UnknownEpochHasNoRunningEffect
<1>1. FenceInv /\ RegistryInv => UnknownEpochHasNoRunningEffect
  BY DEF FenceInv, RunningIsConsumed, RegistryInv, RunningIsRegistered, Verdict,
         UnknownEpochHasNoRunningEffect
<1>. QED
  BY <1>1, RegistryInvariance, PTL

(* When the Bridge says that no attempt without a token is running, none   *)
(* is: not of this instance, of an earlier one, or of an older build.      *)
THEOREM QuiescenceIsTrue == Spec => []QuiescenceIsProof
<1>1. FenceInv /\ RegistryInv => QuiescenceIsProof
  <2>. SUFFICES ASSUME FenceInv, RegistryInv, LegacyQuiescent
                PROVE  (\A h \in Handlers : runUnfenced[h] = 0) /\ ~oldBuild
    BY DEF QuiescenceIsProof
  <2>1. ~oldBuild /\ \A e \in registered : unfenced[e] = 0
    BY DEF LegacyQuiescent, RegistryInv, ElapsedIsNew
  <2>2. ASSUME NEW h \in Handlers, runUnfenced[h] # 0 PROVE FALSE
    <3>1. runUnfenced[h] \in registered /\ h \in UnfencedIn(runUnfenced[h])
      BY <2>2 DEF RegistryInv, RunningIsRegistered, UnfencedIn
    <3>2. Cardinality(UnfencedIn(runUnfenced[h])) # 0
      BY <3>1, CountIsPositive DEF UnfencedIn
    <3>. QED
      BY <2>1, <3>1, <3>2 DEF RegistryInv, CountersCount
  <2>. QED
    BY <2>1, <2>2
<1>. QED
  BY <1>1, RegistryInvariance, PTL

(* From then on none starts. *)
THEOREM QuiescenceLasts == Spec => QuiescenceIsStable
<1>1. FenceInv /\ RegistryInv /\ [Next]_vars
        => [LegacyQuiescent => \A h \in Handlers : runUnfenced'[h] = 0]_vars
  <2>. SUFFICES ASSUME FenceInv, RegistryInv, [Next]_vars, LegacyQuiescent, NEW h \in Handlers
                PROVE  runUnfenced'[h] = 0 \/ UNCHANGED vars
    OBVIOUS
  <2>1. \A g \in Handlers : runUnfenced[g] = 0
    <3>1. ASSUME NEW g \in Handlers, runUnfenced[g] # 0 PROVE FALSE
      <4>1. runUnfenced[g] \in registered /\ g \in UnfencedIn(runUnfenced[g])
        BY <3>1 DEF RegistryInv, RunningIsRegistered, UnfencedIn
      <4>2. Cardinality(UnfencedIn(runUnfenced[g])) # 0
        BY <4>1, CountIsPositive DEF UnfencedIn
      <4>. QED
        BY <4>1, <4>2 DEF RegistryInv, CountersCount, LegacyQuiescent
    <3>. QED
      BY <3>1
  <2>2. requireFence
    BY DEF LegacyQuiescent
  <2>3. \A g \in Handlers : ~EnterUnfenced(g) /\ ~SettleUnfenced(g)
    BY <2>1, <2>2 DEF EnterUnfenced, SettleUnfenced
  <2>4. CASE UNCHANGED runUnfenced
    BY <2>1, <2>4
  <2>5. CASE Quit
    BY <2>5 DEF Quit
  <2>. QED
    BY <2>3, <2>4, <2>5
    DEF Next, vars, EnterFenced, EnterFencedAndRotate, SettleFenced, Resolve,
        ToggleRequireFence, QuiescenceDelayElapses, OldBuildHandlerEnds, Dispose, Load
<1>. QED
  BY <1>1, RegistryInvariance, PTL DEF Spec, QuiescenceIsStable

-----------------------------------------------------------------------------
(* What the fence does in a step, as far as preparations can tell.         *)

FenceGood == FenceInv /\ RegistryInv

(* The token can never be admitted again, and its effect is not running.   *)
Finished(t) ==
  \/ t \in told
  \/ attempts[t[1]][t[2]] = "settled"
  \/ t[1] \notin registered

LEMMA FinishedIsOver ==
  ASSUME FenceGood, NEW t \in Tokens, Finished(t)
  PROVE  t \notin run /\ ~EnterFenced(t) /\ ~EnterFencedAndRotate(t)
<1>1. CASE t \in told
  <2>1. Lost(t) /\ last \in Nat /\ t[1] \in Nat
    BY <1>1, TokenParts, BoundsAssumption
    DEF FenceGood, FenceInv, ToldIsLost, FenceTypes, Epochs
  <2>. QED
    BY <2>1 DEF Lost, FenceGood, FenceInv, FenceTypes, RunningIsConsumed, EnterFenced,
                EnterFencedAndRotate, Admissible
<1>2. CASE attempts[t[1]][t[2]] = "settled"
  BY <1>2 DEF FenceGood, FenceInv, RunningIsConsumed, EnterFenced, EnterFencedAndRotate, Admissible
<1>3. CASE t[1] \notin registered
  BY <1>3 DEF FenceGood, RegistryInv, RunningIsRegistered, EnterFenced, EnterFencedAndRotate,
              Admissible
<1>. QED
  BY <1>1, <1>2, <1>3 DEF Finished

(* An effect that is settled stays settled. *)
LEMMA SettledForEver ==
  ASSUME FenceGood, [Next]_vars, NEW t \in Tokens, attempts[t[1]][t[2]] = "settled"
  PROVE  attempts'[t[1]][t[2]] = "settled"
<1>0. FenceTypes
  BY DEF FenceGood, FenceInv
<1>1. ASSUME NEW u \in Tokens, EnterFenced(u) \/ EnterFencedAndRotate(u)
      PROVE  attempts'[t[1]][t[2]] = "settled"
  <2>1. /\ u # t /\ attempts' = [attempts EXCEPT ![u[1]][u[2]] = "consumed"]
    BY <1>0, <1>1
    DEF EnterFenced, EnterFencedAndRotate, Admissible, Consumed, FenceTypes
  <2>. QED
    BY <1>0, <2>1, AttemptUpdate DEF AttemptStates
<1>2. ASSUME NEW u \in Tokens, SettleFenced(u)
      PROVE  attempts'[t[1]][t[2]] = "settled"
  <2>1. attempts' = [attempts EXCEPT ![u[1]][u[2]] = "settled"]
    BY <1>2 DEF SettleFenced
  <2>. QED
    BY <1>0, <2>1, AttemptUpdate DEF AttemptStates
<1>3. ASSUME NEW u \in Tokens, NEW mode \in {"inspect", "revoke"}, Resolve(u, mode)
      PROVE  attempts'[t[1]][t[2]] = "settled"
  <2>1. \/ attempts' = attempts
        \/ u # t /\ attempts' = [attempts EXCEPT ![u[1]][u[2]] = "revoked"]
    BY <1>3 DEF Resolve
  <2>. QED
    BY <1>0, <2>1, AttemptUpdate DEF AttemptStates
<1>4. CASE UNCHANGED attempts
  BY <1>4
<1>. QED
  BY <1>1, <1>2, <1>3, <1>4
  DEF Next, vars, EnterUnfenced, SettleUnfenced, ToggleRequireFence,
      QuiescenceDelayElapses, OldBuildHandlerEnds, Dispose, Load, Quit

(* What is finished stays so. *)
LEMMA FinishedForEver ==
  ASSUME FenceGood, [Next]_vars, NEW t \in Tokens, t[1] <= last, Finished(t)
  PROVE  Finished(t)'
<1>0. FenceTypes /\ last \in Nat /\ t[1] \in Nat
  BY TokenParts, BoundsAssumption DEF FenceGood, FenceInv, FenceTypes, Epochs
<1>1. told \subseteq told'
  BY DEF Next, vars, EnterFenced, EnterFencedAndRotate, SettleFenced, EnterUnfenced,
         SettleUnfenced, Resolve, ToggleRequireFence, QuiescenceDelayElapses,
         OldBuildHandlerEnds, Dispose, Load, Quit
<1>2. registered' \subseteq registered \cup {last + 1}
  BY DEF Pruned, Next, vars, EnterFenced, EnterFencedAndRotate, SettleFenced, EnterUnfenced,
      SettleUnfenced, Resolve, ToggleRequireFence, QuiescenceDelayElapses,
      OldBuildHandlerEnds, Dispose, Load, Quit
<1>3. attempts[t[1]][t[2]] = "settled" => attempts'[t[1]][t[2]] = "settled"
  BY SettledForEver
<1>. QED
  BY <1>0, <1>1, <1>2, <1>3 DEF Finished

(* Only an admission adds to the tokens that entered. *)
LEMMA EnteredGrows ==
  ASSUME FenceGood, [Next]_vars
  PROVE  /\ \A t \in Entered' \ Entered : EnterFenced(t) \/ EnterFencedAndRotate(t)
         /\ \A t \in run' \ run : EnterFenced(t) \/ EnterFencedAndRotate(t)
<1>0. FenceTypes
  BY DEF FenceGood, FenceInv
<1>1. ASSUME NEW u \in Tokens, EnterFenced(u) \/ EnterFencedAndRotate(u)
      PROVE  Entered' \subseteq Entered \cup {u} /\ run' = run \cup {u}
  <2>1. attempts' = [attempts EXCEPT ![u[1]][u[2]] = "consumed"] /\ run' = run \cup {u}
    BY <1>0, <1>1 DEF EnterFenced, EnterFencedAndRotate, Admissible, Consumed, FenceTypes
  <2>. QED
    BY <1>0, <2>1, AttemptUpdate DEF AttemptStates, Entered
<1>2. ASSUME NEW u \in Tokens, SettleFenced(u)
      PROVE  Entered' = Entered /\ run' \subseteq run
  <2>1. attempts' = [attempts EXCEPT ![u[1]][u[2]] = "settled"] /\ run' = run \ {u} /\ u \in run
    BY <1>2 DEF SettleFenced
  <2>2. u \in Entered
    BY <2>1 DEF FenceGood, FenceInv, RunningIsConsumed, Entered
  <2>. QED
    BY <1>0, <2>1, <2>2, AttemptUpdate DEF AttemptStates, Entered
<1>3. ASSUME NEW u \in Tokens, NEW mode \in {"inspect", "revoke"}, Resolve(u, mode)
      PROVE  Entered' = Entered /\ run' = run
  <2>1. /\ run' = run
        /\ \/ attempts' = attempts
           \/ /\ attempts[u[1]][u[2]] = "absent"
              /\ attempts' = [attempts EXCEPT ![u[1]][u[2]] = "revoked"]
    BY <1>3 DEF Resolve
  <2>. QED
    BY <1>0, <2>1, AttemptUpdate DEF AttemptStates, Entered
<1>4. ASSUME UNCHANGED attempts, run' \subseteq run
      PROVE  Entered' = Entered /\ run' \subseteq run
  BY <1>4 DEF Entered
<1>. QED
  <2>1. \/ \E u \in Tokens : EnterFenced(u) \/ EnterFencedAndRotate(u)
        \/ \E u \in Tokens : SettleFenced(u)
        \/ \E u \in Tokens, mode \in {"inspect", "revoke"} : Resolve(u, mode)
        \/ UNCHANGED attempts /\ run' \subseteq run
    BY DEF Next, vars, EnterUnfenced, SettleUnfenced, ToggleRequireFence,
           QuiescenceDelayElapses, OldBuildHandlerEnds, Dispose, Load, Quit
  <2>. QED
    BY <2>1, <1>1, <1>2, <1>3, <1>4

-----------------------------------------------------------------------------
(* The invariant. *)

PrepTypes ==
  /\ note \in Contents
  /\ lock \in Locks
  /\ plan \in [Plans -> PlanStates]
  /\ req \in [Attempts -> Requests]
  /\ review \in Reviews
  /\ verified \subseteq Attempts
  /\ unstarted \subseteq Attempts
  /\ reviewed \subseteq Attempts

(* A lock that stands, or stood, is that of a request that was made.       *)
Names(l) ==
  l.att # NoAttempt =>
    l.att \in Attempts /\ req[l.att].st # "none" /\ l.epoch = req[l.att].epoch

(* What the fence and the requests know of each other.                     *)
RequestsInv ==
  /\ \A a \in Attempts : req[a].st # "none" => req[a].epoch \in 1 .. last
  /\ \A t \in Entered : /\ req[t[2]].epoch = t[1]
                        /\ req[t[2]].st \in {"open", "dating", "late", "prepared", "failed"}
  /\ \A t \in run : req[t[2]].st \in {"open", "dating"}
  /\ \A a \in Attempts : req[a].st = "prepared" => attempts[req[a].epoch][a] = "settled"

(* What a plan knows of the lock it holds. *)
PlanKnows(c) ==
  /\ Names(plan[c].lock)
  /\ plan[c].pc \notin {"idle", "status"} => plan[c].lock.att \in Attempts
  /\ plan[c].pc \in {"verify", "verified"} => req[plan[c].lock.att].st = "prepared"
  /\ plan[c].pc = "verified" => plan[c].lock.att \in verified
  /\ plan[c].pc = "release" /\ ProvesUnstarted(plan[c].answer) => TokenOf(plan[c].lock) \in told

(* What the owner's review knows. *)
ReviewKnows ==
  /\ Names(review.lock)
  /\ review.pc # "idle" => review.lock.att \in Attempts
  /\ review.pc = "commit" => Finished(TokenOf(review.lock))
  /\ review.pc = "commit" /\ ProvesUnstarted(review.answer) => TokenOf(review.lock) \in told

(* A lock is gone only when nothing more can come of its attempt, and what *)
(* may have come of it was looked at.                                      *)
Released(a) ==
  req[a].st # "none" /\ lock.att # a =>
    /\ Finished(Token(a))
    /\ Token(a) \in Entered => a \in verified \cup reviewed

LocksInv ==
  /\ Names(lock)
  /\ \A a \in Attempts : Released(a)
  /\ \A a \in unstarted : req[a].st # "none" /\ Token(a) \in told

PrepInv ==
  PrepTypes /\ RequestsInv /\ (\A c \in Plans : PlanKnows(c)) /\ ReviewKnows /\ LocksInv

(* What almost every step leaves of a request. *)
RequestsGoOn ==
  \A a \in Attempts :
    /\ req'[a].epoch = req[a].epoch
    /\ req'[a].st = "none" <=> req[a].st = "none"
    /\ req[a].st = "prepared" => req'[a].st = "prepared"

-----------------------------------------------------------------------------
LEMMA TokenIsToken ==
  ASSUME FenceGood, PrepInv, NEW a \in Attempts, req[a].st # "none"
  PROVE  Token(a) \in Tokens /\ Token(a)[1] = req[a].epoch /\ Token(a)[2] = a
         /\ Token(a)[1] <= last
<1>1. req[a].epoch \in 1 .. last /\ last \in Epochs
  BY DEF PrepInv, RequestsInv, FenceGood, FenceInv, FenceTypes
<1>2. req[a].epoch \in Epochs /\ req[a].epoch <= last
  BY <1>1, BoundsAssumption DEF Epochs
<1>. QED
  BY <1>2 DEF Token, Tokens

LEMMA NamedToken ==
  ASSUME FenceGood, PrepInv, NEW l, Names(l), l.att \in Attempts
  PROVE  /\ req[l.att].st # "none" /\ TokenOf(l) = Token(l.att) /\ TokenOf(l) \in Tokens
         /\ TokenOf(l)[1] <= last
<1>1. req[l.att].st # "none" /\ l.epoch = req[l.att].epoch
  BY NoAttemptAssumption DEF Names
<1>2. TokenOf(l) = Token(l.att)
  BY <1>1 DEF TokenOf, Token
<1>. QED
  BY <1>1, <1>2, TokenIsToken

LEMMA ToldGrows == ASSUME [Next]_vars PROVE told \subseteq told'
  BY DEF Next, vars, EnterFenced, EnterFencedAndRotate, SettleFenced, EnterUnfenced,
         SettleUnfenced, Resolve, ToggleRequireFence, QuiescenceDelayElapses,
         OldBuildHandlerEnds, Dispose, Load, Quit

(* What a plan, the review and the lock know lasts while they wait.        *)
LEMMA PlanLasts ==
  ASSUME [Next]_vars, PrepInv, RequestsGoOn, NEW c \in Plans, plan'[c] = plan[c],
         verified \subseteq verified'
  PROVE  PlanKnows(c)'
<1>1. PlanKnows(c) /\ Names(plan[c].lock)
  BY DEF PrepInv, PlanKnows
<1>2. Names(plan[c].lock)'
  BY <1>1 DEF RequestsGoOn, Names
<1>3. told \subseteq told'
  BY ToldGrows
<1>. QED
  BY <1>1, <1>2, <1>3 DEF PlanKnows, RequestsGoOn, TokenOf

LEMMA ReviewLasts ==
  ASSUME FenceGood, [Next]_vars, PrepInv, RequestsGoOn, UNCHANGED review
  PROVE  ReviewKnows'
<1>1. ReviewKnows /\ Names(review.lock)
  BY DEF PrepInv, ReviewKnows
<1>2. Names(review.lock)'
  BY <1>1 DEF RequestsGoOn, Names
<1>3. told \subseteq told'
  BY ToldGrows
<1>4. ASSUME review.pc = "commit" PROVE Finished(TokenOf(review.lock))'
  <2>1. PICK l : l = review.lock
    OBVIOUS
  <2>2. TokenOf(l) \in Tokens /\ TokenOf(l)[1] <= last /\ Finished(TokenOf(l))
    BY <1>1, <1>4, <2>1, NamedToken DEF ReviewKnows
  <2>3. Finished(TokenOf(l))'
    BY <2>2, FinishedForEver DEF TokenOf
  <2>. QED
    BY <2>1, <2>3
<1>. QED
  BY <1>1, <1>2, <1>3, <1>4 DEF ReviewKnows, TokenOf

LEMMA LocksLast ==
  ASSUME FenceGood, [Next]_vars, PrepInv, RequestsGoOn, UNCHANGED <<lock, unstarted>>,
         verified \subseteq verified', reviewed \subseteq reviewed'
  PROVE  LocksInv'
<1>1. LocksInv /\ Names(lock) /\ told \subseteq told'
  BY ToldGrows DEF PrepInv, LocksInv
<1>2. Names(lock)'
  BY <1>1 DEF RequestsGoOn, Names
<1>3. ASSUME NEW a \in Attempts, req[a].st # "none", lock.att # a
      PROVE  Finished(Token(a))' /\ (Token(a)' \in Entered' => a \in verified' \cup reviewed')
  <2>1. PICK t : t = Token(a)
    OBVIOUS
  <2>2. t \in Tokens /\ t[1] <= last /\ Finished(t) /\ Token(a)' = t
        /\ (t \in Entered => a \in verified \cup reviewed)
    BY <1>1, <1>3, <2>1, TokenIsToken DEF LocksInv, Released, RequestsGoOn, Token
  <2>3. Finished(t)' /\ ~EnterFenced(t) /\ ~EnterFencedAndRotate(t)
    BY <2>2, FinishedForEver, FinishedIsOver
  <2>4. t \in Entered' => t \in Entered
    BY <2>3, EnteredGrows
  <2>. QED
    BY <2>2, <2>3, <2>4 DEF Finished
<1>4. \A a \in Attempts : Released(a)'
  BY <1>3 DEF Released, RequestsGoOn
<1>5. \A a \in unstarted' : req'[a].st # "none" /\ Token(a)' \in told'
  BY <1>1 DEF LocksInv, RequestsGoOn, Token, PrepInv, PrepTypes
<1>. QED
  BY <1>2, <1>4, <1>5 DEF LocksInv

LEMMA RequestsLast ==
  ASSUME FenceGood, [Next]_vars, PrepInv, RequestsGoOn,
         \A t \in Entered' :
           /\ req'[t[2]].epoch = t[1]
           /\ req'[t[2]].st \in {"open", "dating", "late", "prepared", "failed"},
         \A t \in run' : req'[t[2]].st \in {"open", "dating"},
         \A a \in Attempts : req'[a].st = "prepared" =>
           req[a].st = "prepared" \/ attempts'[req[a].epoch][a] = "settled"
  PROVE  RequestsInv'
<1>1. RequestsInv /\ last \in Nat
  BY BoundsAssumption DEF PrepInv, FenceGood, FenceInv, FenceTypes, Epochs
<1>2. last' \in {last, last + 1}
  BY DEF Next, vars, EnterFenced, EnterFencedAndRotate, SettleFenced, EnterUnfenced,
         SettleUnfenced, Resolve, ToggleRequireFence, QuiescenceDelayElapses,
         OldBuildHandlerEnds, Dispose, Load, Quit
<1>3. \A a \in Attempts : req'[a].st # "none" => req'[a].epoch \in 1 .. last'
  BY <1>1, <1>2 DEF RequestsInv, RequestsGoOn
<1>4. ASSUME NEW a \in Attempts, req'[a].st = "prepared"
      PROVE  attempts'[req'[a].epoch][a] = "settled"
  <2>1. req'[a].epoch = req[a].epoch /\ req[a].st # "none"
    BY <1>4 DEF RequestsGoOn
  <2>2. CASE req[a].st = "prepared"
    <3>1. PICK t : t = Token(a)
      OBVIOUS
    <3>2. t \in Tokens /\ t[1] = req[a].epoch /\ t[2] = a
      BY <2>1, <3>1, TokenIsToken
    <3>3. attempts[t[1]][t[2]] = "settled"
      BY <1>1, <2>2, <3>2 DEF RequestsInv
    <3>. QED
      BY <2>1, <3>2, <3>3, SettledForEver
  <2>3. CASE req[a].st # "prepared"
    BY <1>4, <2>1, <2>3
  <2>. QED
    BY <2>2, <2>3
<1>. QED
  BY <1>3, <1>4 DEF RequestsInv

(* Steps of the fence that admit nothing. *)
LEMMA NoEntry ==
  ASSUME FenceGood,
         \/ \E t \in Tokens, mode \in {"inspect", "revoke"} : Resolve(t, mode)
         \/ Dispose \/ Load \/ Quit \/ UNCHANGED vars
  PROVE  Entered' = Entered /\ run' \subseteq run /\ [Next]_vars
<1>0. FenceTypes
  BY DEF FenceGood, FenceInv
<1>1. ASSUME NEW u \in Tokens, NEW mode \in {"inspect", "revoke"}, Resolve(u, mode)
      PROVE  Entered' = Entered /\ run' = run
  <2>1. /\ run' = run
        /\ \/ attempts' = attempts
           \/ /\ attempts[u[1]][u[2]] = "absent"
              /\ attempts' = [attempts EXCEPT ![u[1]][u[2]] = "revoked"]
    BY <1>1 DEF Resolve
  <2>. QED
    BY <1>0, <2>1, AttemptUpdate DEF AttemptStates, Entered
<1>2. ASSUME Dispose \/ Load \/ Quit \/ UNCHANGED vars
      PROVE  Entered' = Entered /\ run' \subseteq run
  BY <1>2 DEF Dispose, Load, Quit, vars, Entered
<1>. QED
  BY <1>1, <1>2 DEF Next

LEMMA RequestsWait ==
  ASSUME FenceGood, [Next]_vars, PrepInv, UNCHANGED req, Entered' = Entered, run' \subseteq run
  PROVE  RequestsInv' /\ RequestsGoOn
<1>1. RequestsGoOn
  BY DEF RequestsGoOn
<1>2. RequestsInv'
  BY <1>1, RequestsLast DEF PrepInv, RequestsInv
<1>. QED
  BY <1>1, <1>2

(* A step of one plan that touches neither requests nor locks.             *)
LEMMA PlanMoves ==
  ASSUME FenceGood, [Next]_vars, PrepInv, NEW c \in Plans, NEW s \in PlanStates,
         plan' = [plan EXCEPT ![c] = s], PlanKnows(c)',
         Entered' = Entered, run' \subseteq run,
         UNCHANGED <<note, lock, req, review, unstarted, reviewed>>,
         verified \subseteq verified', verified' \subseteq Attempts
  PROVE  PrepInv'
<1>1. RequestsInv' /\ RequestsGoOn
  BY RequestsWait
<1>2. plan' \in [Plans -> PlanStates] /\ \A d \in Plans \ {c} : plan'[d] = plan[d]
  BY DEF PrepInv, PrepTypes
<1>3. \A d \in Plans : PlanKnows(d)'
  BY <1>1, <1>2, PlanLasts
<1>4. ReviewKnows' /\ LocksInv'
  BY <1>1, ReviewLasts, LocksLast
<1>5. PrepTypes'
  BY <1>2 DEF PrepInv, PrepTypes
<1>. QED
  BY <1>1, <1>3, <1>4, <1>5 DEF PrepInv

LEMMA IdleIs ==
  /\ Idle \in PlanStates /\ Idle.pc = "idle" /\ Idle.lock.att = NoAttempt
  /\ Free \in Locks /\ Free.att = NoAttempt
  BY BoundsAssumption DEF Idle, PlanStates, Free, Locks, AnyAttempt, Verdicts, Contents, NoEpoch

(* A plan that returns keeps nothing. *)
LEMMA ReturnsKnows ==
  ASSUME PrepInv, NEW c \in Plans, Returns(c)
  PROVE  /\ Idle \in PlanStates /\ plan' = [plan EXCEPT ![c] = Idle] /\ PlanKnows(c)'
<1>1. plan' = [plan EXCEPT ![c] = Idle] /\ plan'[c] = Idle
  BY DEF Returns, PrepInv, PrepTypes
<1>2. Names(plan[c].lock)'
  BY <1>1, IdleIs DEF Names
<1>. QED
  BY <1>1, <1>2, IdleIs DEF PlanKnows, Names

LEMMA GoesIs ==
  ASSUME PrepInv, NEW c \in Plans, NEW pc \in {"status", "release", "verify", "verified", "revoke"},
         Goes(c, pc)
  PROVE  /\ [plan[c] EXCEPT !.pc = pc] \in PlanStates
         /\ plan' = [plan EXCEPT ![c] = [plan[c] EXCEPT !.pc = pc]]
         /\ plan'[c].pc = pc /\ plan'[c].lock = plan[c].lock /\ plan'[c].answer = plan[c].answer
<1>1. plan[c] \in PlanStates /\ plan' = [plan EXCEPT ![c] = [plan[c] EXCEPT !.pc = pc]]
  BY DEF PrepInv, PrepTypes, Goes
<1>2. plan'[c] = [plan[c] EXCEPT !.pc = pc]
  BY <1>1 DEF PrepInv, PrepTypes
<1>. QED
  BY <1>1, <1>2 DEF PlanStates

(* The actions of a plan that leave its lock alone. *)
LEMMA PlanActionsKeep ==
  ASSUME FenceGood, PrepInv, NEW c \in Plans,
         ReadSource(c) \/ Answered(c) \/ Fails(c) \/ Verifies(c) \/ Gives(c)
  PROVE  PrepInv'
<1>1. /\ UNCHANGED <<vars, note, lock, req, review, unstarted, reviewed>>
      /\ Entered' = Entered /\ run' \subseteq run /\ [Next]_vars
  BY NoEntry DEF ReadSource, Answered, Fails, Verifies, Gives, PlanOnly
<1>2. /\ plan \in [Plans -> PlanStates] /\ plan[c] \in PlanStates /\ PlanKnows(c)
      /\ Names(lock) /\ lock \in Locks /\ note \in Contents /\ verified \subseteq Attempts
  BY DEF PrepInv, PrepTypes, LocksInv
<1>3. RequestsGoOn /\ told' = told
  BY <1>1 DEF RequestsGoOn, vars
<1>4. ASSUME Returns(c), verified \subseteq verified', verified' \subseteq Attempts
      PROVE  PrepInv'
  BY <1>1, <1>4, ReturnsKnows, PlanMoves
<1>5. ASSUME NEW pc \in {"status", "verify", "verified", "revoke"}, Goes(c, pc),
             plan[c].pc = "idle" => pc = "status",
             plan[c].pc # "status",
             pc \in {"verify", "verified"} => req[plan[c].lock.att].st = "prepared",
             verified' = IF pc = "verified" THEN verified \cup {plan[c].lock.att} ELSE verified
      PROVE  PrepInv'
  <2>1. /\ [plan[c] EXCEPT !.pc = pc] \in PlanStates
        /\ plan' = [plan EXCEPT ![c] = [plan[c] EXCEPT !.pc = pc]]
        /\ plan'[c].pc = pc /\ plan'[c].lock = plan[c].lock /\ plan'[c].answer = plan[c].answer
    BY <1>5, GoesIs
  <2>2. pc # "status" => plan[c].lock.att \in Attempts
    BY <1>2, <1>5 DEF PlanKnows
  <2>3. Names(plan[c].lock)'
    BY <1>1, <1>2, <2>1 DEF PlanKnows, Names
  <2>4. PlanKnows(c)'
    BY <1>1, <1>5, <2>1, <2>2, <2>3 DEF PlanKnows
  <2>5. verified \subseteq verified' /\ verified' \subseteq Attempts
    BY <1>2, <1>5, <2>2
  <2>. QED
    BY <1>1, <2>1, <2>4, <2>5, PlanMoves
<1>6. CASE ReadSource(c)
  <2>1. CASE ~Held
    BY <1>5, <1>6, <2>1 DEF ReadSource, PlanOnly
  <2>2. CASE Held
    <3>. DEFINE s == [Idle EXCEPT !.pc = "revoke", !.src = note, !.lock = lock]
    <3>1. plan' = [plan EXCEPT ![c] = s] /\ UNCHANGED verified
      BY <1>6, <2>2 DEF ReadSource, PlanOnly
    <3>2. s \in PlanStates /\ s.pc = "revoke" /\ s.lock = lock
      BY <1>2, IdleIs DEF PlanStates
    <3>. HIDE DEF s
    <3>3. plan'[c] = s /\ lock.att \in Attempts
      BY <1>2, <2>2, <3>1 DEF Held, Names
    <3>4. Names(plan[c].lock)'
      BY <1>1, <1>2, <3>2, <3>3 DEF Names
    <3>5. PlanKnows(c)'
      BY <3>2, <3>3, <3>4 DEF PlanKnows
    <3>. QED
      BY <1>1, <1>2, <3>1, <3>2, <3>5, PlanMoves
  <2>. QED
    BY <2>1, <2>2
<1>7. CASE Answered(c)
  <2>1. /\ plan[c].pc = "waiting" /\ req[plan[c].lock.att].st = "prepared" /\ Goes(c, "verify")
        /\ verified' = verified
    BY <1>7 DEF Answered, PlanOnly
  <2>. QED
    BY <1>5, <2>1
<1>8. CASE Fails(c)
  <2>1. plan[c].pc = "waiting" /\ Goes(c, "revoke") /\ verified' = verified
    BY <1>8 DEF Fails, PlanOnly
  <2>. QED
    BY <1>5, <2>1
<1>9. CASE Verifies(c)
  <2>1. plan[c].pc = "verify" /\ req[plan[c].lock.att].st = "prepared"
    BY <1>2, <1>9 DEF Verifies, PlanKnows
  <2>2. \/ Goes(c, "verified") /\ verified' = verified \cup {plan[c].lock.att}
        \/ Returns(c) /\ verified' = verified
    BY <1>9 DEF Verifies
  <2>. QED
    BY <1>2, <1>4, <1>5, <2>1, <2>2
<1>10. CASE Gives(c)
  BY <1>2, <1>4, <1>10 DEF Gives, PlanOnly
<1>. QED
  BY <1>6, <1>7, <1>8, <1>9, <1>10

(* A verdict of the fence, and what it means for ever. *)
LEMMA VerdictIs ==
  ASSUME FenceGood, NEW t \in Tokens, NEW mode \in {"inspect", "revoke"}, Resolve(t, mode)
  PROVE  /\ Verdict(t, mode) \in Verdicts
         /\ Verdict(t, mode) = "revoked_before_effect" => t \in told'
         /\ Verdict(t, mode) # "effect_in_progress" /\ mode = "revoke" => Finished(t)'
<1>1. t[1] \in Epochs /\ t[2] \in Attempts /\ attempts[t[1]][t[2]] \in AttemptStates
  BY TokenParts DEF FenceGood, FenceInv, FenceTypes
<1>2. Verdict(t, mode) = "revoked_before_effect" => t \in told'
  BY DEF Resolve
<1>3. registered' = registered
  BY DEF Resolve
<1>4. CASE t[1] \notin registered
  BY <1>2, <1>3, <1>4 DEF Verdict, Verdicts, Finished
<1>5. CASE t[1] \in registered /\ attempts[t[1]][t[2]] = "absent"
  BY <1>2, <1>5 DEF Verdict, Verdicts, Finished
<1>6. CASE t[1] \in registered /\ attempts[t[1]][t[2]] = "revoked"
  BY <1>2, <1>6 DEF Verdict, Verdicts, Finished
<1>7. CASE t[1] \in registered /\ attempts[t[1]][t[2]] = "consumed"
  BY <1>2, <1>7 DEF Verdict, Verdicts
<1>8. CASE t[1] \in registered /\ attempts[t[1]][t[2]] = "settled"
  <2>1. attempts' = attempts
    BY <1>8 DEF Resolve
  <2>. QED
    BY <1>2, <1>8, <2>1 DEF Verdict, Verdicts, Finished
<1>. QED
  BY <1>1, <1>4, <1>5, <1>6, <1>7, <1>8 DEF AttemptStates

LEMMA RevokesKeeps == ASSUME FenceGood, PrepInv, NEW c \in Plans, Revokes(c) PROVE PrepInv'
<1>. DEFINE l == plan[c].lock
            verdict == Verdict(TokenOf(l), "revoke")
            s == [plan[c] EXCEPT !.pc = "release", !.answer = verdict]
<1>1. /\ plan[c].pc = "revoke" /\ Resolve(TokenOf(l), "revoke")
      /\ plan' = [plan EXCEPT ![c] = s]
      /\ UNCHANGED <<note, lock, req, review, verified, unstarted, reviewed>>
  BY DEF Revokes, PrepInv, PrepTypes
<1>2. plan[c] \in PlanStates /\ Names(l) /\ l.att \in Attempts /\ verified \subseteq Attempts
  BY <1>1 DEF PrepInv, PrepTypes, PlanKnows
<1>3. TokenOf(l) \in Tokens
  BY <1>2, NamedToken
<1>4. Entered' = Entered /\ run' \subseteq run /\ [Next]_vars
  BY <1>1, <1>3, NoEntry
<1>5. verdict \in Verdicts /\ (ProvesUnstarted(verdict) => TokenOf(l) \in told')
  BY <1>1, <1>3, VerdictIs DEF ProvesUnstarted
<1>. HIDE DEF verdict
<1>6. s \in PlanStates /\ s.pc = "release" /\ s.lock = l /\ s.answer = verdict
  BY <1>2, <1>5 DEF PlanStates
<1>7. plan'[c] = s
  BY <1>1 DEF PrepInv, PrepTypes
<1>. HIDE DEF s
<1>8. Names(plan[c].lock)'
  BY <1>1, <1>2, <1>6, <1>7 DEF Names
<1>9. PlanKnows(c)'
  BY <1>2, <1>5, <1>6, <1>7, <1>8 DEF PlanKnows, TokenOf
<1>. QED
  BY <1>1, <1>2, <1>4, <1>6, <1>9, PlanMoves

-----------------------------------------------------------------------------
(* The lock is taken and released. *)

LEMMA LockGoes ==
  ASSUME FenceGood, PrepInv, UNCHANGED <<vars, req>>, NEW a \in Attempts, req[a].st # "none",
         lock' = Without(a), Finished(Token(a)),
         lock.att = a /\ Token(a) \in Entered => a \in verified' \cup reviewed',
         verified \subseteq verified', reviewed \subseteq reviewed',
         unstarted' = unstarted \/ (unstarted' = unstarted \cup {a} /\ Token(a) \in told)
  PROVE  LocksInv' /\ lock' \in Locks
<1>1. LocksInv /\ lock \in Locks
  BY DEF PrepInv, PrepTypes
<1>2. lock' \in Locks /\ Names(lock)' /\ \A b \in Attempts : lock'.att # b => b = a \/ lock.att # b
  BY <1>1, IdleIs DEF Without, Names, LocksInv
<1>3. Entered' = Entered /\ \A t : Finished(t)' = Finished(t)
  BY DEF vars, Entered, Finished
<1>4. ASSUME NEW b \in Attempts, req[b].st # "none", lock'.att # b
      PROVE  Finished(Token(b)) /\ (Token(b) \in Entered => b \in verified' \cup reviewed')
  <2>1. CASE lock.att # b
    BY <1>1, <1>4, <2>1 DEF LocksInv, Released
  <2>2. CASE lock.att = b
    BY <1>2, <1>4, <2>2
  <2>. QED
    BY <2>1, <2>2
<1>5. \A b \in Attempts : Released(b)'
  BY <1>3, <1>4 DEF Released, Token, Finished, vars
<1>6. \A b \in unstarted' : req'[b].st # "none" /\ Token(b)' \in told'
  BY <1>1 DEF LocksInv, Token, vars
<1>. QED
  BY <1>2, <1>5, <1>6 DEF LocksInv

(* A plan that releases a lock has forgotten it. *)
LEMMA PlanReleases ==
  ASSUME FenceGood, PrepInv, NEW c \in Plans, NEW s \in PlanStates,
         plan' = [plan EXCEPT ![c] = s], s.pc \in {"idle", "status"}, s.lock.att = NoAttempt,
         LocksInv', lock' \in Locks, unstarted' \subseteq Attempts,
         UNCHANGED <<vars, note, req, review, verified, reviewed>>
  PROVE  PrepInv'
<1>1. Entered' = Entered /\ run' \subseteq run /\ [Next]_vars
  BY NoEntry DEF vars
<1>2. RequestsInv' /\ RequestsGoOn
  BY <1>1, RequestsWait
<1>3. plan' \in [Plans -> PlanStates] /\ plan'[c] = s /\ \A d \in Plans \ {c} : plan'[d] = plan[d]
  BY DEF PrepInv, PrepTypes
<1>4. Names(plan[c].lock)'
  BY <1>3 DEF Names
<1>5. PlanKnows(c)'
  BY <1>3, <1>4 DEF PlanKnows
<1>6. \A d \in Plans : PlanKnows(d)'
  BY <1>1, <1>2, <1>3, <1>5, PlanLasts
<1>7. ReviewKnows'
  BY <1>1, <1>2, ReviewLasts
<1>8. PrepTypes'
  BY <1>3 DEF PrepInv, PrepTypes
<1>. QED
  BY <1>2, <1>6, <1>7, <1>8 DEF PrepInv

LEMMA ReleasesKeeps == ASSUME FenceGood, PrepInv, NEW c \in Plans, Releases(c) PROVE PrepInv'
<1>0. PICK a : a = plan[c].lock.att
  OBVIOUS
<1>1. /\ plan[c].pc = "release" /\ UNCHANGED <<vars, note, req, review, verified, reviewed>>
      /\ Entered' = Entered /\ run' \subseteq run /\ [Next]_vars
  BY NoEntry DEF Releases, vars
<1>2. /\ PlanKnows(c) /\ Names(plan[c].lock) /\ a \in Attempts /\ unstarted \subseteq Attempts
      /\ verified \subseteq Attempts
  BY <1>0, <1>1 DEF PrepInv, PrepTypes, PlanKnows
<1>3. CASE ~ProvesUnstarted(plan[c].answer)
  <2>1. Returns(c) /\ UNCHANGED <<lock, unstarted>>
    BY <1>3 DEF Releases
  <2>. QED
    BY <1>1, <1>2, <2>1, ReturnsKnows, PlanMoves
<1>4. CASE ProvesUnstarted(plan[c].answer)
  <2>1. lock' = Without(a) /\ unstarted' = unstarted \cup {a}
    BY <1>0, <1>4 DEF Releases
  <2>2. /\ TokenOf(plan[c].lock) = Token(a) /\ Token(a) \in Tokens /\ req[a].st # "none"
    BY <1>0, <1>2, NamedToken
  <2>3. Token(a) \in told
    BY <1>1, <1>2, <1>4, <2>2 DEF PlanKnows
  <2>4. Token(a) \notin Entered
    BY <2>3 DEF FenceGood, FenceInv, ToldIsLost, Lost, Entered
  <2>5. LocksInv' /\ lock' \in Locks
    BY <1>1, <1>2, <2>1, <2>2, <2>3, <2>4, LockGoes DEF Finished
  <2>. DEFINE next == [Idle EXCEPT !.pc = "status"]
  <2>6. next \in PlanStates /\ next.pc = "status" /\ next.lock.att = NoAttempt
    BY IdleIs DEF PlanStates
  <2>. HIDE DEF next
  <2>7. plan' = [plan EXCEPT ![c] = Idle] \/ plan' = [plan EXCEPT ![c] = next]
    BY <1>4 DEF Releases, Returns, next
  <2>8. unstarted' \subseteq Attempts
    BY <1>2, <2>1
  <2>. QED
    BY <1>1, <2>5, <2>6, <2>7, <2>8, IdleIs, PlanReleases
<1>. QED
  BY <1>3, <1>4

LEMMA ReleasesVerifiedKeeps ==
  ASSUME FenceGood, PrepInv, NEW c \in Plans, ReleasesVerified(c)
  PROVE  PrepInv'
<1>0. PICK a : a = plan[c].lock.att
  OBVIOUS
<1>1. /\ plan[c].pc = "verified" /\ lock' = Without(a) /\ Returns(c)
      /\ UNCHANGED <<vars, note, req, review, verified, unstarted, reviewed>>
  BY <1>0 DEF ReleasesVerified
<1>2. /\ a \in Attempts /\ a \in verified /\ req[a].st = "prepared" /\ unstarted \subseteq Attempts
  BY <1>0, <1>1 DEF PrepInv, PrepTypes, PlanKnows
<1>3. attempts[req[a].epoch][a] = "settled"
  BY <1>2 DEF PrepInv, RequestsInv
<1>4. Token(a)[1] = req[a].epoch /\ Token(a)[2] = a
  BY DEF Token
<1>5. Finished(Token(a))
  BY <1>3, <1>4 DEF Finished
<1>6. LocksInv' /\ lock' \in Locks
  BY <1>1, <1>2, <1>5, LockGoes
<1>. QED
  BY <1>1, <1>2, <1>6, IdleIs, ReturnsKnows, PlanReleases

(* The lock is taken for an attempt that was never used, over no other.    *)
LEMMA DispatchKeeps ==
  ASSUME FenceGood, PrepInv, NEW c \in Plans, NEW a \in Attempts, Dispatch(c, a)
  PROVE  PrepInv'
<1>1. /\ UNCHANGED <<vars, note, review, verified, unstarted, reviewed>>
      /\ Entered' = Entered /\ run' = run /\ [Next]_vars
      /\ ~disposed /\ req[a].st = "none" /\ plan[c].pc = "status"
  BY NoEntry DEF Dispatch, vars, Entered
<1>2. /\ plan \in [Plans -> PlanStates] /\ plan[c] \in PlanStates /\ req \in [Attempts -> Requests]
      /\ lock \in Locks /\ unstarted \subseteq Attempts /\ verified \subseteq Attempts
  BY DEF PrepInv, PrepTypes
<1>3. CASE Held
  <2>1. Returns(c) /\ UNCHANGED <<lock, req>>
    BY <1>3 DEF Dispatch, MayAcquire
  <2>. QED
    BY <1>1, <1>2, <2>1, ReturnsKnows, PlanMoves
<1>4. CASE ~Held
  <2>. DEFINE l == [att |-> a, epoch |-> current]
              r == [st |-> "sent", epoch |-> current]
              s == [plan[c] EXCEPT !.pc = "waiting", !.lock = l, !.own = TRUE]
  <2>1. lock' = l /\ req' = [req EXCEPT ![a] = r] /\ plan' = [plan EXCEPT ![c] = s]
    BY <1>2, <1>4 DEF Dispatch, MayAcquire
  <2>2. /\ current \in 0 .. MaxEpochs /\ current = last /\ current \in 1 .. last
        /\ last' = last
    BY <1>1, BoundsAssumption DEF FenceGood, FenceInv, FenceTypes, Epochs, vars
  <2>3. /\ l \in Locks /\ l.att = a /\ l.epoch = current
        /\ r \in Requests /\ r.st = "sent" /\ r.epoch = current
    BY <2>2 DEF Locks, AnyAttempt, Requests
  <2>. HIDE DEF l, r
  <2>4. s \in PlanStates /\ s.pc = "waiting" /\ s.lock = l
    BY <1>2, <2>3 DEF PlanStates
  <2>. HIDE DEF s
  <2>5. /\ req' \in [Attempts -> Requests] /\ req'[a] = r
        /\ \A b \in Attempts \ {a} : req'[b] = req[b]
    BY <1>2, <2>1, <2>3
  <2>6. /\ plan' \in [Plans -> PlanStates] /\ plan'[c] = s
        /\ \A d \in Plans \ {c} : plan'[d] = plan[d]
    BY <1>2, <2>1, <2>4
  <2>7. \A t \in Entered : t[2] \in Attempts /\ t[2] # a
    BY <1>1, TokenParts DEF PrepInv, RequestsInv, Entered
  <2>8. run \subseteq Entered
    BY DEF FenceGood, FenceInv, FenceTypes, RunningIsConsumed, Entered
  <2>9. RequestsInv'
    <3>1. \A b \in Attempts : req'[b].st # "none" => req'[b].epoch \in 1 .. last'
      BY <2>2, <2>3, <2>5 DEF PrepInv, RequestsInv
    <3>2. \A t \in Entered' : req'[t[2]] = req[t[2]]
      BY <1>1, <2>5, <2>7
    <3>3. \A b \in Attempts : req'[b].st = "prepared" => attempts'[req'[b].epoch][b] = "settled"
      BY <1>1, <2>3, <2>5 DEF PrepInv, RequestsInv, vars
    <3>. QED
      BY <1>1, <2>8, <3>1, <3>2, <3>3 DEF PrepInv, RequestsInv
  <2>10. ASSUME NEW m, Names(m) PROVE Names(m)' /\ m.att # a
    BY <1>1, <2>5, <2>10, NoAttemptAssumption DEF Names
  <2>11. ASSUME NEW d \in Plans \ {c} PROVE PlanKnows(d)'
    <3>1. PlanKnows(d) /\ Names(plan[d].lock) /\ plan'[d] = plan[d]
      BY <2>6 DEF PrepInv, PlanKnows
    <3>2. Names(plan[d].lock)' /\ plan[d].lock.att # a
      BY <2>10, <3>1 DEF Names
    <3>. QED
      BY <1>1, <2>5, <3>1, <3>2 DEF PlanKnows, TokenOf, vars
  <2>12. PlanKnows(c)'
    <3>1. Names(plan[c].lock)'
      BY <2>3, <2>4, <2>5, <2>6 DEF Names
    <3>. QED
      BY <2>3, <2>4, <2>6, <3>1 DEF PlanKnows
  <2>13. ReviewKnows'
    <3>1. ReviewKnows /\ Names(review.lock) /\ review' = review
      BY <1>1 DEF PrepInv, ReviewKnows
    <3>2. Names(review.lock)'
      BY <2>10, <3>1 DEF Names
    <3>. QED
      BY <1>1, <3>1, <3>2 DEF ReviewKnows, TokenOf, Finished, vars
  <2>14. LocksInv'
    <3>1. Names(lock)'
      BY <2>1, <2>3, <2>5 DEF Names
    <3>2. ASSUME NEW b \in Attempts PROVE Released(b)'
      <4>1. CASE b = a
        BY <2>1, <2>3, <4>1 DEF Released
      <4>2. CASE b # a
        <5>1. lock.att # b
          BY <1>4, NoAttemptAssumption DEF Held
        <5>. QED
          BY <1>1, <2>5, <4>2, <5>1 DEF PrepInv, LocksInv, Released, Token, Finished, vars
      <4>. QED
        BY <4>1, <4>2
    <3>3. \A b \in unstarted' : req'[b].st # "none" /\ Token(b)' \in told'
      <4>1. \A b \in unstarted : b \in Attempts /\ b # a /\ req[b].st # "none" /\ Token(b) \in told
        BY <1>1, <1>2 DEF PrepInv, LocksInv
      <4>. QED
        BY <1>1, <2>5, <4>1 DEF Token, vars
    <3>. QED
      BY <3>1, <3>2, <3>3 DEF LocksInv
  <2>15. PrepTypes'
    BY <1>1, <2>1, <2>3, <2>5, <2>6 DEF PrepInv, PrepTypes
  <2>. QED
    BY <2>9, <2>11, <2>12, <2>13, <2>14, <2>15 DEF PrepInv
<1>. QED
  BY <1>3, <1>4

-----------------------------------------------------------------------------
(* The requests at the Bridge. *)

LEMMA StepsIs ==
  ASSUME PrepInv, NEW a \in Attempts, NEW from, NEW to \in {"checked", "open", "dating", "late",
                                                            "prepared", "failed"},
         Steps(a, from, to), "none" \notin from, "prepared" \notin from
  PROVE  /\ req' \in [Attempts -> Requests] /\ req'[a].st = to /\ req[a].st \in from
         /\ \A b \in Attempts \ {a} : req'[b] = req[b]
         /\ RequestsGoOn
<1>1. req \in [Attempts -> Requests] /\ req[a] \in Requests /\ req[a].st \in from
      /\ req' = [req EXCEPT ![a] = [req[a] EXCEPT !.st = to]]
  BY DEF PrepInv, PrepTypes, Steps
<1>2. [req[a] EXCEPT !.st = to] \in Requests
  BY <1>1 DEF Requests
<1>3. /\ [req[a] EXCEPT !.st = to].st = to
      /\ [req[a] EXCEPT !.st = to].epoch = req[a].epoch
  BY <1>1 DEF Requests
<1>4. req' \in [Attempts -> Requests] /\ req'[a] = [req[a] EXCEPT !.st = to]
      /\ \A b \in Attempts \ {a} : req'[b] = req[b]
  BY <1>1, <1>2
<1>5. RequestsGoOn
  BY <1>1, <1>3, <1>4 DEF RequestsGoOn
<1>. QED
  BY <1>1, <1>3, <1>4, <1>5

(* A step of a request, with whatever the fence does, keeps what plans,    *)
(* review and locks know.                                                  *)
LEMMA BridgeMoves ==
  ASSUME FenceGood, [Next]_vars, PrepInv, RequestsGoOn, RequestsInv',
         req' \in [Attempts -> Requests], note' \in Contents, BridgeOnly
  PROVE  PrepInv'
<1>0. UNCHANGED <<lock, plan, review, verified, unstarted, reviewed>>
  BY DEF BridgeOnly
<1>1. \A c \in Plans : PlanKnows(c)'
  BY <1>0, PlanLasts
<1>2. ReviewKnows' /\ LocksInv'
  BY <1>0, ReviewLasts, LocksLast
<1>3. PrepTypes'
  BY <1>0 DEF PrepInv, PrepTypes
<1>. QED
  BY <1>1, <1>2, <1>3 DEF PrepInv

(* Before the effect point and after it nothing of the fence is involved.  *)
LEMMA RequestActionsKeep ==
  ASSUME FenceGood, PrepInv, NEW a \in Attempts,
         CheckSource(a) \/ Refuse(a) \/ Command(a) \/ FdmWrites(a)
  PROVE  PrepInv'
<1>1. UNCHANGED vars /\ Entered' = Entered /\ run' = run /\ [Next]_vars
      /\ BridgeOnly /\ note' \in Contents
  BY NoEntry DEF CheckSource, Refuse, Command, FdmWrites, vars, Contents, PrepInv, PrepTypes, Entered
<1>2. RequestsInv /\ req \in [Attempts -> Requests]
  BY DEF PrepInv, PrepTypes
<1>3. ASSUME NEW from \in {{"sent"}, {"sent", "checked"}, {"open"}, {"late"}},
             NEW to \in {"checked", "dating", "failed"}, Steps(a, from, to),
             to = "checked" => from = {"sent"}, from = {"open"} => to = "dating"
      PROVE  PrepInv'
  <2>1. /\ req' \in [Attempts -> Requests] /\ req'[a].st = to /\ req[a].st \in from
        /\ \A b \in Attempts \ {a} : req'[b] = req[b]
        /\ RequestsGoOn
    BY <1>3, StepsIs
  <2>2. ASSUME NEW t \in Entered
        PROVE  /\ req'[t[2]].epoch = t[1]
               /\ req'[t[2]].st \in {"open", "dating", "late", "prepared", "failed"}
    <3>1. /\ t[2] \in Attempts /\ req[t[2]].epoch = t[1]
          /\ req[t[2]].st \in {"open", "dating", "late", "prepared", "failed"}
      BY <1>2, TokenParts DEF RequestsInv, Entered
    <3>2. CASE t[2] = a
      BY <1>3, <2>1, <3>1, <3>2 DEF RequestsGoOn
    <3>3. CASE t[2] # a
      BY <2>1, <3>1, <3>3
    <3>. QED
      BY <3>2, <3>3
  <2>3. ASSUME NEW t \in run PROVE req'[t[2]].st \in {"open", "dating"}
    <3>1. t[2] \in Attempts /\ req[t[2]].st \in {"open", "dating"}
      BY <1>2, TokenParts DEF RequestsInv, FenceGood, FenceInv, FenceTypes
    <3>2. CASE t[2] = a
      BY <1>3, <2>1, <3>1, <3>2
    <3>3. CASE t[2] # a
      BY <2>1, <3>1, <3>3
    <3>. QED
      BY <3>2, <3>3
  <2>4. \A b \in Attempts : req'[b].st = "prepared" => req[b].st = "prepared"
    BY <1>3, <2>1
  <2>5. RequestsInv'
    BY <1>1, <2>1, <2>2, <2>3, <2>4, RequestsLast
  <2>. QED
    BY <1>1, <2>1, <2>5, BridgeMoves
<1>4. CASE UNCHANGED req
  BY <1>1, <1>2, <1>4, RequestsWait, BridgeMoves
<1>. QED
  <2>1. \/ Steps(a, {"sent"}, "checked") \/ Steps(a, {"sent", "checked"}, "failed")
        \/ Steps(a, {"open"}, "dating") \/ Steps(a, {"late"}, "failed") \/ UNCHANGED req
    BY DEF CheckSource, Refuse, Command, FdmWrites
  <2>. QED
    BY <1>3, <1>4, <2>1

LEMMA RequestToken ==
  ASSUME FenceGood, PrepInv, NEW a \in Attempts, req[a].st # "none"
  PROVE  \A t \in Entered : t[2] = a => t = Token(a)
  BY TokenParts DEF PrepInv, RequestsInv, Entered, Token

(* The effect point. *)
LEMMA OpenLeafKeeps == ASSUME FenceGood, PrepInv, NEW a \in Attempts, OpenLeaf(a) PROVE PrepInv'
<1>0. PICK u : u = Token(a)
  OBVIOUS
<1>1. /\ Steps(a, {"checked"}, "open") /\ (EnterFenced(u) \/ EnterFencedAndRotate(u))
      /\ BridgeOnly /\ note' = note
  BY <1>0 DEF OpenLeaf
<1>2. /\ req' \in [Attempts -> Requests] /\ req'[a].st = "open" /\ req[a].st = "checked"
      /\ \A b \in Attempts \ {a} : req'[b] = req[b]
      /\ RequestsGoOn
  BY <1>1, StepsIs
<1>3. u \in Tokens /\ u[1] = req[a].epoch /\ u[2] = a
  BY <1>0, <1>2, TokenIsToken
<1>4. [Next]_vars /\ RequestsInv
  BY <1>1, <1>3 DEF Next, PrepInv
<1>5. /\ attempts' = [attempts EXCEPT ![u[1]][u[2]] = "consumed"] /\ run' = run \cup {u}
      /\ FenceTypes
  BY <1>1 DEF EnterFenced, EnterFencedAndRotate, Admissible, Consumed, FenceGood, FenceInv, FenceTypes
<1>6. Entered' \subseteq Entered \cup {u}
  BY <1>3, <1>5, AttemptUpdate DEF AttemptStates, Entered
<1>7. ASSUME NEW t \in Entered'
      PROVE  /\ req'[t[2]].epoch = t[1]
             /\ req'[t[2]].st \in {"open", "dating", "late", "prepared", "failed"}
  <2>1. CASE t = u
    BY <1>2, <1>3, <2>1 DEF RequestsGoOn
  <2>2. CASE t # u
    <3>1. /\ t \in Entered /\ t[2] \in Attempts /\ t[2] # a
      BY <1>0, <1>2, <1>6, <2>2, RequestToken, TokenParts DEF Entered
    <3>. QED
      BY <1>2, <1>4, <3>1 DEF RequestsInv
  <2>. QED
    BY <2>1, <2>2
<1>8. ASSUME NEW t \in run' PROVE req'[t[2]].st \in {"open", "dating"}
  <2>1. CASE t = u
    BY <1>2, <1>3, <2>1
  <2>2. CASE t # u
    <3>1. t \in run /\ t \in Entered /\ t[2] \in Attempts
      BY <1>5, <2>2, TokenParts
      DEF FenceGood, FenceInv, FenceTypes, RunningIsConsumed, Entered
    <3>2. t[2] # a
      BY <1>0, <1>2, <2>2, <3>1, RequestToken
    <3>. QED
      BY <1>2, <1>4, <3>1, <3>2 DEF RequestsInv
  <2>. QED
    BY <2>1, <2>2
<1>9. \A b \in Attempts : req'[b].st = "prepared" => req[b].st = "prepared"
  BY <1>2
<1>10. RequestsInv'
  BY <1>2, <1>4, <1>7, <1>8, <1>9, RequestsLast
<1>11. note' \in Contents
  BY <1>1 DEF PrepInv, PrepTypes
<1>. QED
  BY <1>1, <1>2, <1>4, <1>10, <1>11, BridgeMoves

(* The end of an effect. *)
LEMMA EndsKeeps == ASSUME FenceGood, PrepInv, NEW a \in Attempts, Ends(a) PROVE PrepInv'
<1>0. PICK u : u = Token(a)
  OBVIOUS
<1>1. SettleFenced(u) /\ BridgeOnly /\ note' = note
  BY <1>0 DEF Ends
<1>2. PICK from \in {{"open", "dating"}, {"dating"}}, to \in {"prepared", "failed", "late"} :
        Steps(a, from, to)
  BY DEF Ends
<1>3. /\ req' \in [Attempts -> Requests] /\ req'[a].st = to /\ req[a].st \in from
      /\ \A b \in Attempts \ {a} : req'[b] = req[b]
      /\ RequestsGoOn
  BY <1>2, StepsIs
<1>4. u \in Tokens /\ u[1] = req[a].epoch /\ u[2] = a
  BY <1>0, <1>2, <1>3, TokenIsToken
<1>5. [Next]_vars /\ RequestsInv
  BY <1>1, <1>4 DEF Next, PrepInv
<1>6. /\ attempts' = [attempts EXCEPT ![u[1]][u[2]] = "settled"] /\ run' = run \ {u} /\ u \in run
      /\ FenceTypes
  BY <1>1 DEF SettleFenced, FenceGood, FenceInv
<1>7. u \in Entered
  BY <1>6 DEF FenceGood, FenceInv, RunningIsConsumed, FenceTypes, Entered
<1>8. Entered' = Entered /\ attempts'[u[1]][u[2]] = "settled"
  BY <1>4, <1>6, <1>7, AttemptUpdate DEF AttemptStates, Entered
<1>9. ASSUME NEW t \in Entered'
      PROVE  /\ req'[t[2]].epoch = t[1]
             /\ req'[t[2]].st \in {"open", "dating", "late", "prepared", "failed"}
  <2>1. t \in Entered /\ t[2] \in Attempts
    BY <1>8, TokenParts DEF Entered
  <2>. QED
    BY <1>2, <1>3, <1>5, <2>1 DEF RequestsInv, RequestsGoOn
<1>10. ASSUME NEW t \in run' PROVE req'[t[2]].st \in {"open", "dating"}
  <2>1. t \in run /\ t # u /\ t \in Entered /\ t[2] \in Attempts
    BY <1>6, TokenParts DEF FenceGood, FenceInv, FenceTypes, RunningIsConsumed, Entered
  <2>2. t[2] # a
    BY <1>0, <1>2, <1>3, <2>1, RequestToken
  <2>. QED
    BY <1>3, <1>5, <2>1, <2>2 DEF RequestsInv
<1>11. ASSUME NEW b \in Attempts, req'[b].st = "prepared"
       PROVE  req[b].st = "prepared" \/ attempts'[req[b].epoch][b] = "settled"
  BY <1>3, <1>4, <1>8, <1>11
<1>12. RequestsInv'
  BY <1>3, <1>5, <1>9, <1>10, <1>11, RequestsLast
<1>13. note' \in Contents
  BY <1>1 DEF PrepInv, PrepTypes
<1>. QED
  BY <1>1, <1>3, <1>5, <1>12, <1>13, BridgeMoves

-----------------------------------------------------------------------------
(* The owner's review. *)

LEMMA ReviewMoves ==
  ASSUME FenceGood, [Next]_vars, PrepInv, Entered' = Entered, run' \subseteq run,
         UNCHANGED <<note, plan, req, verified>>,
         review' \in Reviews, ReviewKnows', LocksInv', lock' \in Locks,
         unstarted' \subseteq Attempts, reviewed' \subseteq Attempts
  PROVE  PrepInv'
<1>1. RequestsInv' /\ RequestsGoOn
  BY RequestsWait
<1>2. \A c \in Plans : PlanKnows(c)'
  BY <1>1, PlanLasts
<1>3. PrepTypes'
  BY DEF PrepInv, PrepTypes
<1>. QED
  BY <1>1, <1>2, <1>3 DEF PrepInv

LEMMA NoReviewIs ==
  ASSUME review' = NoReview
  PROVE  review' \in Reviews /\ ReviewKnows'
<1>1. NoReview \in Reviews /\ NoReview.pc = "idle" /\ NoReview.lock.att = NoAttempt
  BY IdleIs DEF NoReview, Reviews, Verdicts
<1>2. Names(review.lock)'
  BY <1>1 DEF Names
<1>. QED
  BY <1>1, <1>2 DEF ReviewKnows

(* A review that begins or ends changes no lock. *)
LEMMA ReviewReadsKeeps ==
  ASSUME FenceGood, PrepInv, ReviewReads \/ ReviewGives
  PROVE  PrepInv'
<1>1. UNCHANGED <<vars, note, plan, req, verified, lock, unstarted, reviewed>>
      /\ Entered' = Entered /\ run' \subseteq run /\ [Next]_vars
  BY NoEntry DEF ReviewReads, ReviewGives, ReviewOnly
<1>2. PrepTypes /\ Names(lock)
  BY DEF PrepInv, LocksInv
<1>3. LocksInv'
  BY <1>1, RequestsWait, LocksLast
<1>4. CASE ReviewGives
  BY <1>1, <1>2, <1>3, <1>4, NoReviewIs, ReviewMoves DEF ReviewGives, PrepTypes
<1>5. CASE ReviewReads
  <2>. DEFINE r == [pc |-> "resolve", lock |-> lock, answer |-> "none"]
  <2>1. review' = r /\ lock.att \in Attempts
    BY <1>2, <1>5 DEF ReviewReads, Held, Names
  <2>2. r \in Reviews /\ r.pc = "resolve" /\ r.lock = lock
    BY <1>2 DEF PrepTypes, Reviews, Verdicts
  <2>. HIDE DEF r
  <2>3. Names(review.lock)'
    BY <1>1, <1>2, <2>1, <2>2 DEF Names
  <2>4. ReviewKnows'
    BY <2>1, <2>2, <2>3 DEF ReviewKnows
  <2>. QED
    BY <1>1, <1>2, <1>3, <2>1, <2>2, <2>4, ReviewMoves DEF PrepTypes
<1>. QED
  BY <1>4, <1>5

LEMMA ReviewResolvesKeeps == ASSUME FenceGood, PrepInv, ReviewResolves PROVE PrepInv'
<1>. DEFINE verdict == Verdict(TokenOf(review.lock), "revoke")
            r == [review EXCEPT !.pc = "commit", !.answer = verdict]
<1>1. /\ review.pc = "resolve" /\ Resolve(TokenOf(review.lock), "revoke")
      /\ review' = NoReview \/ (review' = r /\ verdict # "effect_in_progress")
      /\ UNCHANGED <<note, plan, req, verified, lock, unstarted, reviewed>>
  BY DEF ReviewResolves, ReviewOnly, MayClose
<1>2. PrepTypes /\ review \in Reviews /\ Names(review.lock) /\ review.lock.att \in Attempts
  BY <1>1 DEF PrepInv, PrepTypes, ReviewKnows
<1>3. TokenOf(review.lock) \in Tokens
  <2>1. PICK l : l = review.lock
    OBVIOUS
  <2>. QED
    BY <1>2, <2>1, NamedToken
<1>4. Entered' = Entered /\ run' \subseteq run /\ [Next]_vars
  BY <1>1, <1>3, NoEntry
<1>5. LocksInv'
  BY <1>1, <1>4, RequestsWait, LocksLast
<1>6. CASE review' = NoReview
  BY <1>1, <1>2, <1>4, <1>5, <1>6, NoReviewIs, ReviewMoves DEF PrepTypes
<1>7. CASE review' = r /\ verdict # "effect_in_progress"
  <2>1. /\ verdict \in Verdicts
        /\ ProvesUnstarted(verdict) => TokenOf(review.lock) \in told'
    BY <1>1, <1>3, VerdictIs DEF ProvesUnstarted
  <2>2. PICK t : t = TokenOf(review.lock)
    OBVIOUS
  <2>3. Finished(t)'
    BY <1>1, <1>3, <1>7, <2>2, VerdictIs
  <2>. HIDE DEF verdict
  <2>4. r \in Reviews /\ r.pc = "commit" /\ r.lock = review.lock /\ r.answer = verdict
    BY <1>2, <2>1 DEF Reviews
  <2>. HIDE DEF r
  <2>5. Names(review.lock)'
    BY <1>1, <1>2, <1>7, <2>4 DEF Names
  <2>6. Finished(TokenOf(review.lock))'
    BY <1>7, <2>2, <2>3, <2>4 DEF Finished, TokenOf
  <2>7. ReviewKnows'
    BY <1>2, <1>7, <2>1, <2>4, <2>5, <2>6 DEF ReviewKnows, TokenOf
  <2>. QED
    BY <1>1, <1>2, <1>4, <1>5, <1>7, <2>4, <2>7, ReviewMoves DEF PrepTypes
<1>. QED
  BY <1>1, <1>6, <1>7

LEMMA ReviewCommitsKeeps == ASSUME FenceGood, PrepInv, ReviewCommits PROVE PrepInv'
<1>0. PICK a : a = review.lock.att
  OBVIOUS
<1>1. /\ review.pc = "commit" /\ lock' = Without(a)
      /\ reviewed' = IF lock.att = a THEN reviewed \cup {a} ELSE reviewed
      /\ unstarted' = IF lock.att = a /\ ProvesUnstarted(review.answer)
                      THEN unstarted \cup {a} ELSE unstarted
      /\ review' = NoReview /\ UNCHANGED <<vars, note, plan, req, verified>>
      /\ Entered' = Entered /\ run' \subseteq run /\ [Next]_vars
  BY <1>0, NoEntry DEF ReviewCommits, ReviewOnly
<1>2. /\ PrepTypes /\ Names(review.lock) /\ a \in Attempts
      /\ Finished(TokenOf(review.lock))
      /\ ProvesUnstarted(review.answer) => TokenOf(review.lock) \in told
  BY <1>0, <1>1 DEF PrepInv, ReviewKnows
<1>3. req[a].st # "none" /\ TokenOf(review.lock) = Token(a)
  BY <1>0, <1>2, NamedToken
<1>4. LocksInv' /\ lock' \in Locks
  <2>1. lock.att = a => a \in reviewed'
    BY <1>1
  <2>2. verified \subseteq verified' /\ reviewed \subseteq reviewed'
    BY <1>1
  <2>3. unstarted' = unstarted \/ (unstarted' = unstarted \cup {a} /\ Token(a) \in told)
    BY <1>1, <1>2, <1>3
  <2>. QED
    BY <1>1, <1>2, <1>3, <2>1, <2>2, <2>3, LockGoes
<1>5. unstarted' \subseteq Attempts /\ reviewed' \subseteq Attempts
  BY <1>1, <1>2 DEF PrepTypes
<1>. QED
  BY <1>1, <1>4, <1>5, NoReviewIs, ReviewMoves

-----------------------------------------------------------------------------
(* Everything else, and the theorem. *)

LEMMA SurroundingsKeep ==
  ASSUME FenceGood, PrepInv, Edit \/ Unload \/ Reload \/ UNCHANGED allVars
  PROVE  PrepInv'
<1>1. /\ UNCHANGED req /\ BridgeOnly /\ note' \in Contents
      /\ Entered' = Entered /\ run' \subseteq run /\ [Next]_vars
  BY NoEntry DEF Edit, Unload, Reload, prepVars, allVars, BridgeOnly, PrepInv, PrepTypes
<1>2. req' \in [Attempts -> Requests]
  BY <1>1 DEF PrepInv, PrepTypes
<1>. QED
  BY <1>1, <1>2, RequestsWait, BridgeMoves

(* No effect survives its realm, and no request makes up for it. *)
LEMMA QuitRealmKeeps == ASSUME FenceGood, PrepInv, QuitRealm PROVE PrepInv'
<1>1. /\ BridgeOnly /\ note' \in Contents /\ run' = {}
      /\ Entered' = Entered /\ [Next]_vars
      /\ req \in [Attempts -> Requests] /\ RequestsInv
  BY NoEntry DEF QuitRealm, Quit, PrepInv, PrepTypes
<1>2. ASSUME NEW a \in Attempts
      PROVE  /\ req'[a] \in Requests /\ req'[a].epoch = req[a].epoch
             /\ \/ req[a].st \in {"none", "sent", "prepared"} /\ req'[a].st = req[a].st
                \/ req[a].st \notin {"none", "sent", "prepared"} /\ req'[a].st = "failed"
  <2>1. req[a] \in Requests
    BY <1>1
  <2>2. req'[a] = IF req[a].st \in {"none", "sent", "prepared"} THEN req[a]
                  ELSE [req[a] EXCEPT !.st = "failed"]
    BY DEF QuitRealm
  <2>. QED
    BY <2>1, <2>2 DEF Requests
<1>3. req' \in [Attempts -> Requests]
  <2>1. req' = [a \in Attempts |-> req'[a]]
    BY DEF QuitRealm
  <2>. QED
    BY <1>2, <2>1
<1>4. RequestsGoOn
  BY <1>2 DEF RequestsGoOn
<1>5. ASSUME NEW t \in Entered'
      PROVE  /\ req'[t[2]].epoch = t[1]
             /\ req'[t[2]].st \in {"open", "dating", "late", "prepared", "failed"}
  <2>1. /\ t[2] \in Attempts /\ req[t[2]].epoch = t[1]
        /\ req[t[2]].st \in {"open", "dating", "late", "prepared", "failed"}
    BY <1>1, TokenParts DEF RequestsInv, Entered
  <2>. QED
    BY <1>2, <2>1
<1>6. \A b \in Attempts : req'[b].st = "prepared" => req[b].st = "prepared"
  BY <1>2
<1>7. RequestsInv'
  BY <1>1, <1>4, <1>5, <1>6, RequestsLast
<1>. QED
  BY <1>1, <1>3, <1>4, <1>7, BridgeMoves

LEMMA InitPrep == PrepInit => FenceGood /\ PrepInv
<1>. SUFFICES ASSUME PrepInit PROVE FenceGood /\ PrepInv
  OBVIOUS
<1>1. FenceGood
  BY InitEstablishes, InitRegistry DEF PrepInit, FenceGood
<1>2. /\ note = "plain" /\ lock = Free /\ plan = [c \in Plans |-> Idle]
      /\ review = NoReview /\ verified = {} /\ unstarted = {} /\ reviewed = {}
      /\ \A a \in Attempts : req[a].st = "none"
      /\ Entered = {} /\ run = {}
  BY TokenParts DEF PrepInit, Init, Entered
<1>3. PrepTypes
  <2>1. req \in [Attempts -> Requests]
    BY BoundsAssumption DEF PrepInit, Requests, NoEpoch
  <2>2. review \in Reviews
    BY <1>2, IdleIs DEF NoReview, Reviews, Verdicts
  <2>. QED
    BY <1>2, <2>1, <2>2, IdleIs DEF PrepTypes, Contents
<1>4. RequestsInv
  BY <1>2 DEF RequestsInv
<1>5. ASSUME NEW c \in Plans PROVE PlanKnows(c)
  BY <1>2, IdleIs DEF PlanKnows, Names
<1>6. ReviewKnows
  BY <1>2, IdleIs DEF ReviewKnows, NoReview, Names
<1>7. LocksInv
  BY <1>2, IdleIs DEF LocksInv, Names, Released
<1>. QED
  BY <1>1, <1>3, <1>4, <1>5, <1>6, <1>7 DEF PrepInv

(* Whatever plans, review, requests and edits do, the fence does one of    *)
(* its own steps or none.                                                  *)
LEMMA FenceSteps == ASSUME FenceGood, PrepInv, [PrepNext]_allVars PROVE [Next]_vars
<1>1. ASSUME NEW c \in Plans, Revokes(c) PROVE [Next]_vars
  <2>1. Names(plan[c].lock) /\ plan[c].lock.att \in Attempts
    BY <1>1 DEF PrepInv, PlanKnows, Revokes
  <2>2. TokenOf(plan[c].lock) \in Tokens
    BY <2>1, NamedToken
  <2>. QED
    BY <1>1, <2>2 DEF Revokes, Next
<1>2. ASSUME ReviewResolves PROVE [Next]_vars
  <2>1. PICK l : l = review.lock
    OBVIOUS
  <2>2. Names(l) /\ l.att \in Attempts
    BY <1>2, <2>1 DEF PrepInv, ReviewKnows, ReviewResolves
  <2>3. TokenOf(l) \in Tokens
    BY <2>2, NamedToken
  <2>. QED
    BY <1>2, <2>1, <2>3 DEF ReviewResolves, Next
<1>3. ASSUME NEW a \in Attempts, OpenLeaf(a) \/ Ends(a) PROVE [Next]_vars
  <2>1. req[a].st # "none"
    BY <1>3 DEF OpenLeaf, Ends, Steps
  <2>2. Token(a) \in Tokens
    BY <2>1, TokenIsToken
  <2>. QED
    BY <1>3, <2>2 DEF OpenLeaf, Ends, Next
<1>4. ASSUME Unload \/ Reload \/ QuitRealm PROVE [Next]_vars
  BY <1>4 DEF Unload, Reload, QuitRealm, Next
<1>5. CASE UNCHANGED vars
  BY <1>5
<1>. QED
  BY <1>1, <1>2, <1>3, <1>4, <1>5
  DEF PrepNext, allVars, ReadSource, Releases, Dispatch, Answered, Fails, Verifies,
      ReleasesVerified, Gives, PlanOnly, CheckSource, Refuse, Command, FdmWrites,
      ReviewReads, ReviewCommits, ReviewGives, Edit

LEMMA PrepStep == FenceGood /\ PrepInv /\ [PrepNext]_allVars => (FenceGood /\ PrepInv)'
<1>. SUFFICES ASSUME FenceGood, PrepInv, [PrepNext]_allVars PROVE (FenceGood /\ PrepInv)'
  OBVIOUS
<1>1. FenceGood'
  BY FenceSteps, FenceInvStep, RegistryInvStep DEF FenceGood
<1>2. PrepInv'
  <2>1. CASE UNCHANGED allVars
    BY <2>1, SurroundingsKeep
  <2>2. CASE PrepNext
    BY <2>2, PlanActionsKeep, RevokesKeeps, ReleasesKeeps, DispatchKeeps,
       ReleasesVerifiedKeeps, RequestActionsKeep, OpenLeafKeeps, EndsKeeps,
       ReviewReadsKeeps, ReviewResolvesKeeps, ReviewCommitsKeeps, SurroundingsKeep,
       QuitRealmKeeps
    DEF PrepNext
  <2>. QED
    BY <2>1, <2>2
<1>. QED
  BY <1>1, <1>2

(* The inductive invariant holds for any number of plans and preparations: *)
(* what the fence, the requests, the lock and the memories of plans and    *)
(* review say of an attempt agree.                                         *)
THEOREM PrepInvariance == PrepSpec => [](FenceGood /\ PrepInv)
  BY InitPrep, PrepStep, PTL DEF PrepSpec

(* Every variable keeps its type. *)
THEOREM PreparationIsTyped == PrepSpec => []PrepTypeOK
<1>1. FenceGood /\ PrepInv => PrepTypeOK
  BY BoundsAssumption
  DEF FenceGood, FenceInv, FenceTypes, RegistryInv, RegistryTypes, TypeOK, Epochs,
      PrepInv, PrepTypes, PrepTypeOK
<1>. QED
  BY <1>1, PrepInvariance, PTL

(* While a preparation acts on the note its own lock stands, for any       *)
(* number of plans: a released lock belongs to a finished attempt.         *)
THEOREM EffectsHoldTheirLock == PrepSpec => []EffectHoldsItsLock
<1>1. FenceGood /\ PrepInv => EffectHoldsItsLock
  <2>. SUFFICES ASSUME FenceGood, PrepInv, NEW t \in run, lock.att # t[2] PROVE FALSE
    BY DEF EffectHoldsItsLock
  <2>1. t \in Tokens /\ t \in Entered /\ t[2] \in Attempts
    BY TokenParts DEF FenceGood, FenceInv, FenceTypes, RunningIsConsumed, Entered
  <2>2. req[t[2]].st # "none" /\ t = Token(t[2])
    BY <2>1, TokenParts DEF PrepInv, RequestsInv, Token
  <2>3. Finished(t)
    BY <2>1, <2>2 DEF PrepInv, LocksInv, Released
  <2>. QED
    BY <2>1, <2>3, FinishedIsOver
<1>. QED
  BY <1>1, PrepInvariance, PTL

(* A preparation that reached its effect point keeps its lock until a plan *)
(* has verified the note or the owner has reviewed the lock.               *)
THEOREM UnverifiedKeepTheirLock == PrepSpec => []UnverifiedKeepsItsLock
<1>1. FenceGood /\ PrepInv => UnverifiedKeepsItsLock
  <2>. SUFFICES ASSUME FenceGood, PrepInv, NEW t \in Entered,
                       t[2] \notin verified \cup reviewed
                PROVE  lock.att = t[2]
    BY DEF UnverifiedKeepsItsLock, EnteredAttempts
  <2>1. t \in Tokens /\ t[2] \in Attempts
    BY TokenParts DEF Entered
  <2>2. req[t[2]].st # "none" /\ t = Token(t[2])
    BY <2>1, TokenParts DEF PrepInv, RequestsInv, Token
  <2>. QED
    BY <2>1, <2>2 DEF PrepInv, LocksInv, Released
<1>. QED
  BY <1>1, PrepInvariance, PTL

(* A preparation recorded as never started never reaches its effect point. *)
THEOREM UnstartedNeverRan == PrepSpec => []UnstartedDidNothing
<1>1. FenceGood /\ PrepInv => UnstartedDidNothing
  <2>. SUFFICES ASSUME FenceGood, PrepInv, NEW t \in Entered, t[2] \in unstarted PROVE FALSE
    BY DEF UnstartedDidNothing, EnteredAttempts
  <2>1. t \in Tokens /\ t[2] \in Attempts
    BY TokenParts DEF Entered
  <2>2. t = Token(t[2])
    BY <2>1, TokenParts DEF PrepInv, RequestsInv, Token
  <2>3. t \in told
    BY <2>2 DEF PrepInv, LocksInv
  <2>. QED
    BY <2>3 DEF FenceGood, FenceInv, ToldIsLost, Lost, Entered
<1>. QED
  BY <1>1, PrepInvariance, PTL

-----------------------------------------------------------------------------
(* Writes that FDM still owes.                                             *)

(* Nothing is owed, or the fence has forgotten who owes it. *)
NothingOwed(a) == req[a].st = "late" => req[a].epoch \notin registered

(* What is owed is owed by a settled effect.  A lock that is gone, or that *)
(* the review is about to release, has nothing owed behind it.             *)
OwedInv ==
  /\ \A a \in Attempts : req[a].st = "late" => attempts[req[a].epoch][a] = "settled"
  /\ \A a \in Attempts : req[a].st # "none" /\ lock.att # a => NothingOwed(a)
  /\ review.pc = "commit" => NothingOwed(review.lock.att)

(* Only the end of its effect leaves a write owed; the epoch of a request  *)
(* that was made stays.                                                    *)
LEMMA OwedByAnEnd ==
  ASSUME PrepInv, [PrepNext]_allVars, NEW a \in Attempts
  PROVE  /\ req'[a].st = "late" => req[a].st = "late" \/ Ends(a)
         /\ req[a].st # "none" => req'[a].epoch = req[a].epoch
<1>1. req \in [Attempts -> Requests] /\ req[a] \in Requests
  BY DEF PrepInv, PrepTypes
<1>2. ASSUME NEW b \in Attempts, NEW from, NEW to, Steps(b, from, to)
      PROVE  /\ req'[a].epoch = req[a].epoch
             /\ req'[a].st = IF a = b THEN to ELSE req[a].st
  BY <1>1, <1>2 DEF Steps, Requests
<1>3. ASSUME NEW b \in Attempts, Ends(b)
      PROVE  /\ req'[a].st = "late" => req[a].st = "late" \/ Ends(a)
             /\ req'[a].epoch = req[a].epoch
  BY <1>2, <1>3 DEF Ends
<1>4. ASSUME NEW b \in Attempts,
             CheckSource(b) \/ Refuse(b) \/ OpenLeaf(b) \/ Command(b) \/ FdmWrites(b)
      PROVE  /\ req'[a].st = "late" => req[a].st = "late"
             /\ req'[a].epoch = req[a].epoch
  <2>1. CASE UNCHANGED req
    BY <2>1
  <2>2. CASE Steps(b, {"sent"}, "checked") \/ Steps(b, {"sent", "checked"}, "failed")
             \/ Steps(b, {"checked"}, "open") \/ Steps(b, {"open"}, "dating")
             \/ Steps(b, {"late"}, "failed")
    BY <1>2, <2>2
  <2>. QED
    BY <1>4, <2>1, <2>2 DEF CheckSource, Refuse, OpenLeaf, Command, FdmWrites
<1>5. ASSUME NEW c \in Plans, NEW b \in Attempts, Dispatch(c, b)
      PROVE  /\ req'[a].st = "late" => req[a].st = "late"
             /\ req[a].st # "none" => req'[a].epoch = req[a].epoch
  BY <1>1, <1>5 DEF Dispatch
<1>6. ASSUME QuitRealm
      PROVE  /\ req'[a].st = "late" => req[a].st = "late"
             /\ req'[a].epoch = req[a].epoch
  <2>1. req'[a] = IF req[a].st \in {"none", "sent", "prepared"} THEN req[a]
                  ELSE [req[a] EXCEPT !.st = "failed"]
    BY <1>6 DEF QuitRealm
  <2>. QED
    BY <1>1, <2>1 DEF Requests
<1>7. CASE UNCHANGED req
  BY <1>7
<1>. QED
  BY <1>3, <1>4, <1>5, <1>6, <1>7
  DEF PrepNext, allVars, prepVars, ReadSource, Revokes, Releases, Answered, Fails, Verifies,
      ReleasesVerified, Gives, PlanOnly, ReviewReads, ReviewResolves, ReviewCommits,
      ReviewGives, ReviewOnly, Edit, Unload, Reload

(* A finished preparation behind which nothing is owed stays one. *)
LEMMA NothingOwedLasts ==
  ASSUME FenceGood, PrepInv, [PrepNext]_allVars, NEW a \in Attempts,
         req[a].st # "none", Finished(Token(a)), NothingOwed(a)
  PROVE  NothingOwed(a)'
<1>1. [Next]_vars
  BY FenceSteps
<1>2. PICK t : t = Token(a)
  OBVIOUS
<1>3. t \in Tokens /\ t[1] = req[a].epoch /\ t[1] <= last /\ t \notin run
  BY <1>2, TokenIsToken, FinishedIsOver
<1>4. ~Ends(a)
  BY <1>2, <1>3 DEF Ends, SettleFenced
<1>5. /\ req'[a].st = "late" => req[a].st = "late"
      /\ req'[a].epoch = req[a].epoch
  BY <1>4, OwedByAnEnd
<1>6. registered' \subseteq registered \cup {last + 1}
  BY <1>1 DEF Pruned, Next, vars, EnterFenced, EnterFencedAndRotate, SettleFenced,
      EnterUnfenced, SettleUnfenced, Resolve, ToggleRequireFence, QuiescenceDelayElapses,
      OldBuildHandlerEnds, Dispose, Load, Quit
<1>7. last \in Nat /\ t[1] \in Nat
  BY <1>3, TokenParts, BoundsAssumption DEF FenceGood, FenceInv, FenceTypes, Epochs
<1>8. t[1] \notin registered => t[1] \notin registered'
  BY <1>3, <1>6, <1>7
<1>. QED
  BY <1>3, <1>5, <1>8 DEF NothingOwed

(* A token that was told revoked owes nothing. *)
LEMMA ToldOwesNothing ==
  ASSUME FenceGood, PrepInv, OwedInv, NEW a \in Attempts, req[a].st # "none",
         Token(a) \in told
  PROVE  req[a].st # "late"
<1>1. PICK t : t = Token(a)
  OBVIOUS
<1>2. t \in Tokens /\ t[1] = req[a].epoch /\ t[2] = a
  BY <1>1, TokenIsToken
<1>3. attempts[t[1]][t[2]] # "settled"
  BY <1>1 DEF FenceGood, FenceInv, ToldIsLost, Lost
<1>. QED
  BY <1>2, <1>3 DEF OwedInv

(* A lock that is gone was gone before, or is released in this step by one *)
(* who knows that nothing is owed.                                         *)
LEMMA NothingOwedBehind ==
  ASSUME FenceGood, PrepInv, OwedInv, [PrepNext]_allVars,
         NEW a \in Attempts, req[a].st # "none", lock'.att # a
  PROVE  Finished(Token(a)) /\ NothingOwed(a)
<1>1. PrepTypes /\ LocksInv /\ lock \in Locks
  BY DEF PrepInv, PrepTypes
<1>2. CASE lock.att # a
  BY <1>1, <1>2 DEF LocksInv, Released, OwedInv
<1>3. CASE lock.att = a
  <2>1. ASSUME NEW c \in Plans, Releases(c) PROVE Finished(Token(a)) /\ NothingOwed(a)
    <3>1. PlanKnows(c) /\ plan[c].pc = "release" /\ Names(plan[c].lock)
      BY <2>1 DEF PrepInv, PlanKnows, Releases
    <3>2. ProvesUnstarted(plan[c].answer) /\ plan[c].lock.att = a
      BY <1>3, <2>1 DEF Releases, Without
    <3>3. TokenOf(plan[c].lock) = Token(a) /\ Token(a) \in told
      BY <3>1, <3>2, NamedToken DEF PlanKnows
    <3>. QED
      BY <3>3, ToldOwesNothing DEF Finished, NothingOwed
  <2>2. ASSUME NEW c \in Plans, ReleasesVerified(c) PROVE Finished(Token(a)) /\ NothingOwed(a)
    <3>1. plan[c].lock.att = a /\ plan[c].pc = "verified"
      BY <1>3, <2>2 DEF ReleasesVerified, Without
    <3>2. req[a].st = "prepared"
      BY <3>1 DEF PrepInv, PlanKnows
    <3>3. attempts[req[a].epoch][a] = "settled"
      BY <3>2 DEF PrepInv, RequestsInv
    <3>4. Token(a)[1] = req[a].epoch /\ Token(a)[2] = a
      BY DEF Token
    <3>. QED
      BY <3>2, <3>3, <3>4 DEF Finished, NothingOwed
  <2>3. ASSUME ReviewCommits PROVE Finished(Token(a)) /\ NothingOwed(a)
    <3>1. review.pc = "commit" /\ review.lock.att = a
      BY <1>3, <2>3 DEF ReviewCommits, Without
    <3>2. PICK l : l = review.lock
      OBVIOUS
    <3>3. Names(l) /\ l.att = a /\ Finished(TokenOf(l))
      BY <3>1, <3>2 DEF PrepInv, ReviewKnows
    <3>4. TokenOf(l) = Token(a)
      BY <3>3, NamedToken
    <3>. QED
      BY <3>1, <3>3, <3>4 DEF OwedInv
  <2>4. ASSUME NEW c \in Plans, NEW b \in Attempts, Dispatch(c, b) PROVE FALSE
    <3>1. ~MayAcquire
      BY <1>1, <1>3, NoAttemptAssumption DEF MayAcquire, Held
    <3>. QED
      BY <1>3, <2>4, <3>1 DEF Dispatch
  <2>5. CASE UNCHANGED lock
    BY <1>3, <2>5
  <2>. QED
    BY <2>1, <2>2, <2>3, <2>4, <2>5
    DEF PrepNext, allVars, prepVars, ReadSource, Revokes, Answered, Fails, Verifies, Gives,
        PlanOnly, CheckSource, Refuse, OpenLeaf, Command, FdmWrites, Ends, BridgeOnly,
        ReviewReads, ReviewResolves, ReviewGives, Edit, Unload, Reload, QuitRealm
<1>. QED
  BY <1>2, <1>3

(* The review commits to a verdict only when nothing is owed. *)
LEMMA ReviewFindsNothingOwed ==
  ASSUME FenceGood, PrepInv, OwedInv, ReviewResolves, review'.pc = "commit"
  PROVE  /\ review.pc = "resolve" /\ review'.lock = review.lock
         /\ NothingOwed(review.lock.att)'
<1>. DEFINE verdict == Verdict(TokenOf(review.lock), "revoke")
            r == [review EXCEPT !.pc = "commit", !.answer = verdict]
<1>1. PICK l : l = review.lock
  OBVIOUS
<1>2. review.pc = "resolve" /\ review \in Reviews /\ Names(l) /\ l.att \in Attempts
  BY <1>1 DEF ReviewResolves, PrepInv, PrepTypes, ReviewKnows
<1>3. /\ review' = r /\ verdict # "effect_in_progress"
      /\ verdict = "effect_settled" => Quiet(l.att)
  BY <1>1 DEF ReviewResolves, MayClose, NoReview
<1>4. review'.lock = l
  BY <1>1, <1>2, <1>3 DEF Reviews
<1>5. TokenOf(l) = Token(l.att) /\ Token(l.att) \in Tokens
  BY <1>2, NamedToken
<1>6. UNCHANGED req /\ registered' = registered
  BY DEF ReviewResolves, ReviewOnly, Resolve
<1>7. ASSUME req[l.att].st = "late", req[l.att].epoch \in registered PROVE FALSE
  <2>1. attempts[req[l.att].epoch][l.att] = "settled"
    BY <1>2, <1>7 DEF OwedInv
  <2>2. PICK t : t = Token(l.att)
    OBVIOUS
  <2>3. t[1] = req[l.att].epoch /\ t[2] = l.att
    BY <2>2 DEF Token
  <2>4. Verdict(t, "revoke") = "effect_settled"
    BY <1>7, <2>1, <2>3 DEF Verdict
  <2>5. verdict = "effect_settled"
    BY <1>1, <1>5, <2>2, <2>4
  <2>. QED
    BY <1>3, <1>7, <2>5 DEF Quiet
<1>. QED
  BY <1>1, <1>2, <1>4, <1>6, <1>7 DEF NothingOwed

LEMMA OwedStep ==
  ASSUME FenceGood, PrepInv, OwedInv, [PrepNext]_allVars
  PROVE  OwedInv'
<1>1. [Next]_vars /\ PrepTypes
  BY FenceSteps DEF PrepInv
<1>2. ASSUME NEW a \in Attempts, req'[a].st = "late"
      PROVE  attempts'[req'[a].epoch][a] = "settled"
  <2>1. PICK t : t = Token(a)
    OBVIOUS
  <2>2. (req[a].st = "late" \/ Ends(a)) /\ req[a].st # "none"
    BY <1>2, OwedByAnEnd DEF Ends, Steps
  <2>3. /\ t \in Tokens /\ t[1] = req[a].epoch /\ t[2] = a
        /\ req'[a].epoch = req[a].epoch
    BY <2>1, <2>2, TokenIsToken, OwedByAnEnd
  <2>4. CASE req[a].st = "late"
    <3>1. attempts[t[1]][t[2]] = "settled"
      BY <2>3, <2>4 DEF OwedInv
    <3>. QED
      BY <1>1, <2>3, <3>1, SettledForEver
  <2>5. CASE Ends(a)
    <3>1. attempts' = [attempts EXCEPT ![t[1]][t[2]] = "settled"] /\ FenceTypes
      BY <2>1, <2>5 DEF Ends, SettleFenced, FenceGood, FenceInv
    <3>2. attempts'[t[1]][t[2]] = "settled"
      BY <2>3, <3>1, AttemptUpdate DEF AttemptStates
    <3>. QED
      BY <2>3, <3>2
  <2>. QED
    BY <2>2, <2>4, <2>5
<1>3. ASSUME NEW a \in Attempts, req'[a].st # "none", lock'.att # a PROVE NothingOwed(a)'
  <2>1. CASE req[a].st = "none"
    BY <2>1, OwedByAnEnd DEF NothingOwed, Ends, Steps
  <2>2. CASE req[a].st # "none"
    BY <1>3, <2>2, NothingOwedBehind, NothingOwedLasts
  <2>. QED
    BY <2>1, <2>2
<1>4. ASSUME review'.pc = "commit" PROVE NothingOwed(review.lock.att)'
  <2>1. CASE ReviewResolves
    BY <1>4, <2>1, ReviewFindsNothingOwed
  <2>2. CASE UNCHANGED review
    <3>1. PICK l : l = review.lock
      OBVIOUS
    <3>2. /\ Names(l) /\ l.att \in Attempts /\ Finished(TokenOf(l)) /\ NothingOwed(l.att)
      BY <1>4, <2>2, <3>1 DEF PrepInv, ReviewKnows, OwedInv
    <3>3. req[l.att].st # "none" /\ Finished(Token(l.att))
      BY <3>2, NamedToken
    <3>4. NothingOwed(l.att)'
      BY <3>2, <3>3, NothingOwedLasts
    <3>. QED
      BY <2>2, <3>1, <3>4 DEF NothingOwed
  <2>3. CASE ReviewReads \/ ReviewCommits \/ ReviewGives
    BY <1>4, <2>3 DEF ReviewReads, ReviewCommits, ReviewGives, NoReview
  <2>. QED
    BY <2>1, <2>2, <2>3
    DEF PrepNext, allVars, prepVars, ReadSource, Revokes, Releases, Dispatch, Answered, Fails,
        Verifies, ReleasesVerified, Gives, PlanOnly, CheckSource, Refuse, OpenLeaf, Command,
        FdmWrites, Ends, BridgeOnly, Edit, Unload, Reload, QuitRealm
<1>. QED
  BY <1>2, <1>3, <1>4 DEF OwedInv, NothingOwed

(* The owner's review waits for a write that FDM owes: while the fence     *)
(* knows of its preparation, the lock stands until it has landed.          *)
THEOREM LateWritesHoldTheirLock == PrepSpec => []LateWriteHoldsItsLock
<1>1. PrepInit => OwedInv
  <2>. SUFFICES ASSUME PrepInit PROVE OwedInv
    OBVIOUS
  <2>1. review = NoReview /\ \A a \in Attempts : req[a].st = "none"
    BY DEF PrepInit
  <2>. QED
    BY <2>1 DEF OwedInv, NoReview
<1>2. FenceGood /\ PrepInv /\ OwedInv /\ [PrepNext]_allVars => OwedInv'
  BY OwedStep
<1>3. OwedInv => LateWriteHoldsItsLock
  BY DEF OwedInv, NothingOwed, LateWriteHoldsItsLock
<1>. QED
  BY <1>1, <1>2, <1>3, PrepInvariance, PTL DEF PrepSpec

=============================================================================

----------------------------- MODULE EffectFence -----------------------------
(***************************************************************************)
(* The effect fence of the Atomic Write Bridge (effectFence.ts): a realm-  *)
(* wide registry of epochs shared by successive plugin instances, the      *)
(* synchronous admission of an attempt at its effect point, revocation,    *)
(* epoch rotation, pruning, and the quiescence proof for attempts that     *)
(* carry no token.                                                         *)
(*                                                                         *)
(* Epochs are numbered in the order they are issued (the code draws a      *)
(* fresh UUID each time).  The attempts of an epoch that was pruned or     *)
(* whose realm is gone stay in `attempts' as history: no action reads them.*)
(***************************************************************************)
EXTENDS Naturals, FiniteSets

CONSTANTS
  Attempts,     \* attempt ids of fenced writes
  Handlers,     \* request handlers that reach an effect point without a token
  MaxEpochs,    \* bound of the model on the epochs ever issued
  MaxAttempts,  \* MAX_ATTEMPTS_PER_EPOCH
  MaxRetained   \* MAX_RETAINED_EPOCHS

ASSUME BoundsAssumption ==
  /\ MaxEpochs \in Nat \ {0}
  /\ MaxAttempts \in Nat \ {0}
  /\ MaxRetained \in Nat \ {0}
ASSUME FiniteAssumption == IsFiniteSet(Attempts) /\ IsFiniteSet(Handlers)

VARIABLES
  last,          \* number of epochs issued
  current,       \* epoch of the loaded fence instance
  disposed,      \* the loaded instance was unloaded (or none is loaded)
  registered,    \* epochs present in the realm registry
  closed,        \* epochs marked closed
  attempts,      \* per epoch: the recorded state of each attempt
  fenced,        \* per epoch: fencedInFlight
  unfenced,      \* per epoch: unfencedInFlight
  requireFence,  \* the Bridge setting
  strict,        \* strictSince: "off", "waiting" (< quiescence delay) or "elapsed"
  run,           \* tokens whose handler is between enter() and settle()
  runUnfenced,   \* per handler: the epoch whose counter it incremented, or 0
  oldBuild,      \* a handler of an older, unfenced Bridge build is still running
  told           \* tokens some caller was told were revoked before their effect

vars == <<last, current, disposed, registered, closed, attempts, fenced,
          unfenced, requireFence, strict, run, runUnfenced, oldBuild, told>>

Epochs  == 1 .. MaxEpochs
NoEpoch == 0
Tokens  == Epochs \X Attempts
AttemptStates == {"absent", "consumed", "settled", "revoked"}

TypeOK ==
  /\ last \in 0 .. MaxEpochs
  /\ current \in 0 .. MaxEpochs
  /\ disposed \in BOOLEAN
  /\ registered \subseteq Epochs
  /\ closed \subseteq Epochs
  /\ attempts \in [Epochs -> [Attempts -> AttemptStates]]
  /\ fenced \in [Epochs -> Nat]
  /\ unfenced \in [Epochs -> Nat]
  /\ requireFence \in BOOLEAN
  /\ strict \in {"off", "waiting", "elapsed"}
  /\ run \subseteq Tokens
  /\ runUnfenced \in [Handlers -> 0 .. MaxEpochs]
  /\ oldBuild \in BOOLEAN
  /\ told \subseteq Tokens

-----------------------------------------------------------------------------
(* prune(): while too many epochs are registered, drop the oldest one that *)
(* is closed and has no effect running.                                    *)
Prunable(R, C, f, u) == {e \in R : e \in C /\ f[e] = 0 /\ u[e] = 0}

Excess(R) ==
  IF Cardinality(R) > MaxRetained THEN Cardinality(R) - MaxRetained ELSE 0

Pruned(R, C, f, u) ==
  LET P == Prunable(R, C, f, u)
  IN  R \ {e \in P : Cardinality({d \in P : d < e}) < Excess(R)}

StrictOnActivation(required) == IF required THEN "waiting" ELSE "off"

Init ==
  /\ last = 1
  /\ current = 1
  /\ disposed = FALSE
  /\ registered = {1}
  /\ closed = {}
  /\ attempts = [e \in Epochs |-> [a \in Attempts |-> "absent"]]
  /\ fenced = [e \in Epochs |-> 0]
  /\ unfenced = [e \in Epochs |-> 0]
  /\ requireFence \in BOOLEAN
  /\ strict = StrictOnActivation(requireFence)
  /\ run = {}
  /\ runUnfenced = [h \in Handlers |-> 0]
  /\ oldBuild \in BOOLEAN
  /\ told = {}

-----------------------------------------------------------------------------
(* Admission at the effect point.  A refused attempt changes nothing.      *)

(* A faulty admission that forgets revocations. *)
AdmissibleOnceRevoked(t) ==
  /\ ~disposed
  /\ current \notin closed
  /\ t[1] = current
  /\ attempts[current][t[2]] \in {"absent", "revoked"}

(* A faulty admission that accepts the token of a superseded epoch. *)
AdmissibleOfAnyEpoch(t) ==
  /\ ~disposed
  /\ current \notin closed
  /\ attempts[t[1]][t[2]] = "absent"

Admissible(t) ==
  /\ ~disposed
  /\ current \notin closed
  /\ t[1] = current
  /\ attempts[current][t[2]] = "absent"

Consumed(t) == [attempts EXCEPT ![t[1]][t[2]] = "consumed"]

SizeOf(atts, e) == Cardinality({a \in Attempts : atts[e][a] # "absent"})

(* A faulty enter() that does not count the effect it starts. *)
EnterFencedUncounted(t) ==
  /\ Admissible(t)
  /\ SizeOf(Consumed(t), current) < MaxAttempts
  /\ attempts' = Consumed(t)
  /\ run' = run \cup {t}
  /\ UNCHANGED <<last, current, disposed, registered, closed, fenced,
                 unfenced, requireFence, strict, runUnfenced, oldBuild, told>>

(* enter() with a token, below the attempt bound of the epoch. *)
EnterFenced(t) ==
  /\ Admissible(t)
  /\ SizeOf(Consumed(t), current) < MaxAttempts
  /\ attempts' = Consumed(t)
  /\ fenced' = [fenced EXCEPT ![current] = @ + 1]
  /\ run' = run \cup {t}
  /\ UNCHANGED <<last, current, disposed, registered, closed, unfenced,
                 requireFence, strict, runUnfenced, oldBuild, told>>

(* enter() with the token that fills the epoch: rotate() closes it and     *)
(* opens the next one in the same synchronous step.                        *)
EnterFencedAndRotate(t) ==
  /\ Admissible(t)
  /\ SizeOf(Consumed(t), current) >= MaxAttempts
  /\ last < MaxEpochs
  /\ attempts' = Consumed(t)
  /\ fenced' = [fenced EXCEPT ![current] = @ + 1]
  /\ run' = run \cup {t}
  /\ closed' = closed \cup {current}
  /\ last' = last + 1
  /\ current' = last + 1
  /\ registered' = Pruned(registered \cup {last + 1}, closed', fenced', unfenced)
  /\ UNCHANGED <<disposed, unfenced, requireFence, strict, runUnfenced,
                 oldBuild, told>>

(* A faulty settle callback that counts down the epoch of the moment. *)
SettleFencedHere(t) ==
  /\ t \in run
  /\ attempts' = [attempts EXCEPT ![t[1]][t[2]] = "settled"]
  /\ fenced' = [fenced EXCEPT ![current] = @ - 1]
  /\ run' = run \ {t}
  /\ registered' = Pruned(registered, closed, fenced', unfenced)
  /\ UNCHANGED <<last, current, disposed, closed, unfenced, requireFence,
                 strict, runUnfenced, oldBuild, told>>

(* The settle callback of a fenced effect, completed or failed. *)
SettleFenced(t) ==
  /\ t \in run
  /\ attempts' = [attempts EXCEPT ![t[1]][t[2]] = "settled"]
  /\ fenced' = [fenced EXCEPT ![t[1]] = @ - 1]
  /\ run' = run \ {t}
  /\ registered' = Pruned(registered, closed, fenced', unfenced)
  /\ UNCHANGED <<last, current, disposed, closed, unfenced, requireFence,
                 strict, runUnfenced, oldBuild, told>>

(* enter() without a token. *)
EnterUnfenced(h) ==
  /\ runUnfenced[h] = 0
  /\ ~disposed
  /\ ~requireFence
  /\ unfenced' = [unfenced EXCEPT ![current] = @ + 1]
  /\ runUnfenced' = [runUnfenced EXCEPT ![h] = current]
  /\ UNCHANGED <<last, current, disposed, registered, closed, attempts,
                 fenced, requireFence, strict, run, oldBuild, told>>

SettleUnfenced(h) ==
  /\ runUnfenced[h] # 0
  /\ unfenced' = [unfenced EXCEPT ![runUnfenced[h]] = @ - 1]
  /\ runUnfenced' = [runUnfenced EXCEPT ![h] = 0]
  /\ registered' = Pruned(registered, closed, fenced, unfenced')
  /\ UNCHANGED <<last, current, disposed, closed, attempts, fenced,
                 requireFence, strict, run, oldBuild, told>>

-----------------------------------------------------------------------------
(* resolve(): the verdict on one token, and revocation. *)

Verdict(t, mode) ==
  IF t[1] \notin registered THEN "epoch_unknown"
  ELSE CASE attempts[t[1]][t[2]] = "absent" ->
              IF mode = "revoke" \/ t[1] \in closed \/ t[1] # current \/ disposed
              THEN "revoked_before_effect" ELSE "not_reached"
         [] attempts[t[1]][t[2]] = "revoked"  -> "revoked_before_effect"
         [] attempts[t[1]][t[2]] = "consumed" -> "effect_in_progress"
         [] attempts[t[1]][t[2]] = "settled"  -> "effect_settled"

Resolve(t, mode) ==
  /\ t[1] \in 1 .. last
  /\ attempts' = IF /\ mode = "revoke"
                    /\ t[1] \in registered
                    /\ attempts[t[1]][t[2]] = "absent"
                 THEN [attempts EXCEPT ![t[1]][t[2]] = "revoked"]
                 ELSE attempts
  /\ told' = IF Verdict(t, mode) = "revoked_before_effect"
             THEN told \cup {t} ELSE told
  /\ UNCHANGED <<last, current, disposed, registered, closed, fenced,
                 unfenced, requireFence, strict, run, runUnfenced, oldBuild>>

-----------------------------------------------------------------------------
(* legacy(): the proof that no attempt without a token is running or can   *)
(* still be admitted.                                                      *)

(* A faulty proof that looks at the epoch of its own instance only. *)
LegacyQuiescentHere ==
  /\ ~disposed
  /\ requireFence
  /\ strict = "elapsed"
  /\ unfenced[current] = 0

LegacyQuiescent ==
  /\ ~disposed
  /\ requireFence
  /\ strict = "elapsed"
  /\ \A e \in registered : unfenced[e] = 0

(* requireFenceChanged(), called by the settings tab on every change. *)
ToggleRequireFence ==
  /\ ~disposed
  /\ requireFence' = ~requireFence
  /\ strict' = IF ~requireFence'         THEN "off"
               ELSE IF strict = "off"    THEN "waiting"
               ELSE strict
  /\ UNCHANGED <<last, current, disposed, registered, closed, attempts,
                 fenced, unfenced, run, runUnfenced, oldBuild, told>>

(* LEGACY_QUIESCENCE_MS passes since strictSince.  A handler of an older   *)
(* build is bounded far below that delay, so none is left then.            *)
QuiescenceDelayElapses ==
  /\ strict = "waiting"
  /\ ~oldBuild
  /\ strict' = "elapsed"
  /\ UNCHANGED <<last, current, disposed, registered, closed, attempts,
                 fenced, unfenced, requireFence, run, runUnfenced, oldBuild, told>>

OldBuildHandlerEnds ==
  /\ oldBuild
  /\ oldBuild' = FALSE
  /\ UNCHANGED <<last, current, disposed, registered, closed, attempts,
                 fenced, unfenced, requireFence, strict, run, runUnfenced, told>>

-----------------------------------------------------------------------------
(* Life cycle of the plugin instance and of the realm. *)

Dispose ==
  /\ ~disposed
  /\ disposed' = TRUE
  /\ closed' = closed \cup {current}
  /\ registered' = Pruned(registered, closed', fenced, unfenced)
  /\ UNCHANGED <<last, current, attempts, fenced, unfenced, requireFence,
                 strict, run, runUnfenced, oldBuild, told>>

(* A new instance: open() registers a fresh epoch, strictSince restarts. *)
Load ==
  /\ disposed
  /\ last < MaxEpochs
  /\ disposed' = FALSE
  /\ last' = last + 1
  /\ current' = last + 1
  /\ registered' = Pruned(registered \cup {last + 1}, closed, fenced, unfenced)
  /\ strict' = StrictOnActivation(requireFence)
  /\ UNCHANGED <<closed, attempts, fenced, unfenced, requireFence, run,
                 runUnfenced, oldBuild, told>>

(* The application quits: the registry and every pending handler vanish. *)
Quit ==
  /\ disposed' = TRUE
  /\ registered' = {}
  /\ run' = {}
  /\ runUnfenced' = [h \in Handlers |-> 0]
  /\ oldBuild' = FALSE
  /\ UNCHANGED <<last, current, closed, attempts, fenced, unfenced,
                 requireFence, strict, told>>

-----------------------------------------------------------------------------
Next ==
  \/ \E t \in Tokens : EnterFenced(t)
  \/ \E t \in Tokens : EnterFencedAndRotate(t)
  \/ \E t \in Tokens : SettleFenced(t)
  \/ \E h \in Handlers : EnterUnfenced(h)
  \/ \E h \in Handlers : SettleUnfenced(h)
  \/ \E t \in Tokens, mode \in {"inspect", "revoke"} : Resolve(t, mode)
  \/ ToggleRequireFence
  \/ QuiescenceDelayElapses
  \/ OldBuildHandlerEnds
  \/ Dispose
  \/ Load
  \/ Quit

Spec == Init /\ [][Next]_vars

-----------------------------------------------------------------------------
Entered == {t \in Tokens : attempts[t[1]][t[2]] \in {"consumed", "settled"}}

Live == IF disposed THEN NoEpoch ELSE current

(* A caller who was told that an attempt was revoked before its effect is  *)
(* right for ever, whether the answer came from a revocation or from an    *)
(* inspection of a closed epoch.                                           *)
RevokedVerdictIsFinal == told \cap Entered = {}

(* "epoch_unknown" is never said of an effect under way: pruning keeps     *)
(* every epoch with a running handler, whichever instance admitted it.     *)
UnknownEpochHasNoRunningEffect ==
  \A t \in run : Verdict(t, "inspect") = "effect_in_progress"

(* The legacy proof is true when it is given: no effect admitted without a *)
(* token, by any instance of this realm or by an older build, is running.  *)
QuiescenceIsProof ==
  LegacyQuiescent => /\ \A h \in Handlers : runUnfenced[h] = 0
                     /\ ~oldBuild

(* And it stays true: no unfenced effect starts from a quiescent state.    *)
QuiescenceIsStable ==
  [][LegacyQuiescent => \A h \in Handlers : runUnfenced'[h] = 0]_vars

(* Tokens that never entered and never will: revoked, or of a past epoch.  *)
Barred == {t \in Tokens \ Entered : \/ attempts[t[1]][t[2]] = "revoked"
                                    \/ t[1] <= last /\ t[1] # Live}

(* The fence keeps the contract that the MCP side relies on. *)
Contract == INSTANCE FenceContract WITH
  live    <- Live,
  issued  <- 1 .. last,
  entered <- Entered,
  running <- run,
  barred  <- Barred

ImplementsContract == Contract!FenceSpec

=============================================================================

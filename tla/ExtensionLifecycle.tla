-------------------------- MODULE ExtensionLifecycle --------------------------
(***************************************************************************)
(* The supervisor that each bridge plugin uses to keep its routes, or its  *)
(* headless view, registered with a provider that may be disabled,         *)
(* reloaded or broken at any time (restExtensionLifecycle.ts).  Its        *)
(* methods are synchronous, and so are the callbacks they make: probe,     *)
(* mount and cleanup.  A callback may fail in every way its type allows;   *)
(* it does not call the supervisor back.                                   *)
(***************************************************************************)
EXTENDS Naturals

CONSTANTS
  Providers,    \* provider objects: a reloaded provider is another object
  NoProvider,
  MaxFailures   \* bound: consecutiveFailures is counted up to here, as the
                \* retry delay grows with it only up to a maximum

ASSUME LifecycleAssumption ==
  /\ NoProvider \notin Providers
  /\ MaxFailures \in Nat \ {0}

VARIABLES
  current,   \* the provider that a probe finds
  lc,        \* the fields of the supervisor
  owed       \* per provider: registrations made with it and not yet undone

vars == <<current, lc, owed>>

States == {"unavailable", "ready", "degraded"}

Supervisors ==
  [ running  : BOOLEAN,
    timer    : BOOLEAN,                        \* a probe is scheduled
    provider : Providers \cup {NoProvider},
    cleanup  : BOOLEAN,                        \* a cleanup is held
    pending  : BOOLEAN,                        \* cleanupPending
    state    : States,
    failures : 0 .. MaxFailures ]              \* consecutiveFailures

(* Every field has its type, and nothing is undone twice: a count of       *)
(* registrations never goes below zero.                                    *)
TypeOK ==
  /\ current \in Providers \cup {NoProvider}
  /\ lc \in Supervisors
  /\ owed \in [Providers -> Nat]

Init ==
  /\ current = NoProvider
  /\ lc = [running |-> FALSE, timer |-> FALSE, provider |-> NoProvider,
           cleanup |-> FALSE, pending |-> FALSE, state |-> "unavailable",
           failures |-> 0]
  /\ owed = [p \in Providers |-> 0]

-----------------------------------------------------------------------------
(* disposeMount(): nothing to undo, or the cleanup runs, or it throws and  *)
(* stays the one that is held.                                             *)

(* A faulty supervisor that keeps a cleanup that ran. *)
EmptyButHeld(l) == [l EXCEPT !.pending = FALSE]

Empty(l) == [l EXCEPT !.provider = NoProvider, !.cleanup = FALSE, !.pending = FALSE]

Undone(l) == IF l.cleanup THEN [owed EXCEPT ![l.provider] = @ - 1] ELSE owed

(* A faulty supervisor that lets go of a cleanup that failed. *)
StuckAndForgotten(l) == Empty(l)

Stuck(l) == [l EXCEPT !.pending = TRUE]

(* A faulty one that gives up when the provider does not offer the API. *)
FailedForGood(l, state) ==
  [l EXCEPT !.state = state,
            !.failures = IF @ < MaxFailures THEN @ + 1 ELSE @,
            !.timer = state # "unavailable"]

(* Every probe ends by scheduling the next one. *)
Ready(l) == [l EXCEPT !.state = "ready", !.failures = 0, !.timer = TRUE]

Failed(l, state) ==
  [l EXCEPT !.state = state,
            !.failures = IF @ < MaxFailures THEN @ + 1 ELSE @,
            !.timer = TRUE]

Holding(l, p, pending) ==
  [l EXCEPT !.provider = p, !.cleanup = TRUE, !.pending = pending]

-----------------------------------------------------------------------------
(* probeNow(), from the fields l it starts with, by how it ends. *)

(* A faulty one that takes an undone registration for a mounted one. *)
IsMountedPartly(l) == current = l.provider /\ l.cleanup

IsMounted(l) == current = l.provider /\ l.cleanup /\ ~l.pending

(* No provider: its routes are undone. *)
FindsNobody(l) ==
  /\ current = NoProvider
  /\ lc' = Failed(Empty(l), "unavailable")
  /\ owed' = Undone(l)

(* The provider is the one mounted. *)
FindsItself(l) ==
  /\ current # NoProvider /\ IsMounted(l)
  /\ lc' = Ready(l)
  /\ UNCHANGED owed

(* What is held cannot be undone: no mount before it is. *)
CannotUndo(l) ==
  /\ l.cleanup
  /\ current = NoProvider \/ ~IsMounted(l)
  /\ lc' = Failed(Stuck(l), "degraded")
  /\ UNCHANGED owed

Replaces(l) == current # NoProvider /\ ~IsMounted(l)

Mounts(l) ==
  /\ Replaces(l)
  /\ lc' = Ready(Holding(Empty(l), current, FALSE))
  /\ owed' = [Undone(l) EXCEPT ![current] = @ + 1]

(* mount() leaves nothing behind: it finds no API (null) or throws. *)
MountsNothing(l, state) ==
  /\ Replaces(l)
  /\ lc' = Failed(Empty(l), state)
  /\ owed' = Undone(l)

(* mount() throws with a registration that it could not roll back. *)
MountsPartly(l) ==
  /\ Replaces(l)
  /\ lc' = Failed(Holding(Empty(l), current, TRUE), "degraded")
  /\ owed' = [Undone(l) EXCEPT ![current] = @ + 1]

(* probe() itself throws: what is mounted is undone, if it can be. *)
ProbeThrows(l) ==
  \/ lc' = Failed(Empty(l), "degraded") /\ owed' = Undone(l)
  \/ l.cleanup /\ lc' = Failed(Stuck(l), "degraded") /\ UNCHANGED owed

ProbeNow(l) ==
  \/ FindsNobody(l)
  \/ FindsItself(l)
  \/ CannotUndo(l)
  \/ Mounts(l)
  \/ \E state \in {"unavailable", "degraded"} : MountsNothing(l, state)
  \/ MountsPartly(l)
  \/ ProbeThrows(l)

-----------------------------------------------------------------------------
Fired == [lc EXCEPT !.timer = FALSE]

Tick ==
  /\ lc.timer
  /\ ProbeNow(Fired)
  /\ UNCHANGED current

Start ==
  /\ ~lc.running
  /\ ProbeNow([lc EXCEPT !.running = TRUE])
  /\ UNCHANGED current

Stopped(l, state) ==
  [l EXCEPT !.running = FALSE, !.timer = FALSE, !.state = state]

Stop ==
  /\ lc.running \/ lc.cleanup
  /\ \/ lc' = Stopped(Empty(lc), "unavailable") /\ owed' = Undone(lc)
     \/ lc.cleanup /\ lc' = Stopped(Stuck(lc), "degraded") /\ UNCHANGED owed
  /\ UNCHANGED current

(* The user disables, enables or reloads the provider. *)
ProviderChanges ==
  /\ \E p \in Providers \cup {NoProvider} : p # current /\ current' = p
  /\ UNCHANGED <<lc, owed>>

Next == Tick \/ Start \/ Stop \/ ProviderChanges

Spec == Init /\ [][Next]_vars

-----------------------------------------------------------------------------
(* Whatever was registered and not undone is what the supervisor holds:    *)
(* never two mounts, on one provider or on two, and none that nobody will  *)
(* undo, also after failures in the middle of a mount or of a cleanup.     *)
OneMount ==
  /\ lc.cleanup <=> lc.provider # NoProvider
  /\ \A p \in Providers : owed[p] = IF lc.provider = p THEN 1 ELSE 0

(* A running supervisor has a probe to come, whatever the callbacks did,   *)
(* and a stopped one has none.                                             *)
KeepsTrying == lc.timer <=> lc.running

(* What the status route reports of a running supervisor is true: ready    *)
(* and no failures for a complete registration, and only for that.         *)
ReportIsTrue ==
  /\ lc.state = "ready" => lc.failures = 0
  /\ lc.state = "ready" <=> lc.running /\ lc.cleanup /\ ~lc.pending

MountedOn(p) == lc.state = "ready" /\ lc.provider = p

(* The timer fires, and neither the cleanup nor the mount fails for ever.  *)
FairSpec ==
  /\ Spec
  /\ WF_vars(Tick)
  /\ SF_vars(lc.timer /\ Mounts(Fired) /\ UNCHANGED current)

(* A provider that stays is served again and again, however many probes,   *)
(* mounts and cleanups failed before: the retries never end.               *)
MountedInTheEnd ==
  \A p \in Providers :
    <>[](current = p /\ lc.running) => []<>MountedOn(p)

=============================================================================

----------------------- MODULE ExtensionLifecycleProofs -----------------------
(***************************************************************************)
(* The supervisor's invariants for any number of providers.  Together they *)
(* are inductive.  A probe starts from fields that are not the supervisor's*)
(* own, as the timer has fired or the supervisor was just started; Fit     *)
(* says what such fields have in common.                                   *)
(***************************************************************************)
EXTENDS ExtensionLifecycle, TLAPS

Inv == TypeOK /\ OneMount /\ KeepsTrying /\ ReportIsTrue

Fit(l) ==
  /\ l \in Supervisors
  /\ l.cleanup <=> l.provider # NoProvider
  /\ \A p \in Providers : owed[p] = IF l.provider = p THEN 1 ELSE 0

(* After a successful disposeMount() nothing is registered anywhere. *)
LEMMA NothingIsOwed ==
  ASSUME TypeOK, NEW l, Fit(l)
  PROVE  /\ Undone(l) = [p \in Providers |-> 0]
         /\ Empty(l) \in Supervisors
         /\ Empty(l).running = l.running /\ ~Empty(l).cleanup
         /\ Empty(l).provider = NoProvider /\ ~Empty(l).pending
<1>1. /\ Empty(l) \in Supervisors
      /\ Empty(l).running = l.running /\ ~Empty(l).cleanup
      /\ Empty(l).provider = NoProvider /\ ~Empty(l).pending
  BY DEF Fit, Empty, Supervisors
<1>2. CASE l.cleanup
  <2>1. l.provider \in Providers
    BY <1>2 DEF Fit, Supervisors
  <2>2. /\ owed \in [Providers -> Nat]
        /\ \A p \in Providers : owed[p] = IF l.provider = p THEN 1 ELSE 0
    BY DEF Fit, TypeOK
  <2>3. Undone(l) = [owed EXCEPT ![l.provider] = 0]
    <3>1. owed[l.provider] - 1 = 0
      BY <2>1, <2>2
    <3>2. QED
      BY <1>2, <3>1 DEF Undone
  <2>4. \A p \in Providers : Undone(l)[p] = 0
    BY <2>2, <2>3
  <2>5. Undone(l) = [p \in Providers |-> Undone(l)[p]]
    BY <2>2, <2>3
  <2>6. Undone(l) = [p \in Providers |-> 0]
    BY <2>4, <2>5
  <2>7. QED
    BY <1>1, <2>6
<1>3. CASE ~l.cleanup
  <2>1. Undone(l) = owed /\ owed \in [Providers -> Nat]
    BY <1>3 DEF Undone, TypeOK
  <2>2. \A p \in Providers : owed[p] = 0
    BY <1>3, LifecycleAssumption DEF Fit
  <2>3. QED
    BY <1>1, <2>1, <2>2
<1>4. QED
  BY <1>2, <1>3

(* Scheduling a retry keeps a supervisor that is rightly not ready. *)
LEMMA FailedKeeps ==
  ASSUME NEW l \in Supervisors, NEW state \in {"unavailable", "degraded"}, l.running,
         current' \in Providers \cup {NoProvider}, owed' \in [Providers -> Nat],
         l.cleanup => l.pending,
         l.cleanup <=> l.provider # NoProvider,
         \A p \in Providers : owed'[p] = IF l.provider = p THEN 1 ELSE 0,
         lc' = Failed(l, state)
  PROVE  Inv'
<1>1. /\ lc'.running /\ lc'.timer /\ lc'.state = state
      /\ lc'.cleanup = l.cleanup /\ lc'.pending = l.pending /\ lc'.provider = l.provider
      /\ lc' \in Supervisors
  <2>1. (IF l.failures < MaxFailures THEN l.failures + 1 ELSE l.failures) \in 0 .. MaxFailures
    BY LifecycleAssumption DEF Supervisors
  <2>2. QED
    BY <2>1 DEF Failed, Supervisors, States
<1>2. TypeOK'
  BY <1>1 DEF TypeOK
<1>3. OneMount' /\ KeepsTrying' /\ ReportIsTrue'
  BY <1>1 DEF OneMount, KeepsTrying, ReportIsTrue
<1>4. QED
  BY <1>2, <1>3 DEF Inv

(* A probe that ends ready holds the one registration there is. *)
LEMMA ReadyKeeps ==
  ASSUME NEW l \in Supervisors, l.running,
         current' \in Providers \cup {NoProvider}, owed' \in [Providers -> Nat],
         l.cleanup, ~l.pending, l.provider # NoProvider,
         \A p \in Providers : owed'[p] = IF l.provider = p THEN 1 ELSE 0,
         lc' = Ready(l)
  PROVE  Inv'
<1>1. /\ lc'.running /\ lc'.timer /\ lc'.state = "ready" /\ lc'.failures = 0
      /\ lc'.cleanup /\ ~lc'.pending /\ lc'.provider = l.provider
      /\ lc' \in Supervisors
  <2>1. 0 \in 0 .. MaxFailures
    BY LifecycleAssumption
  <2>2. QED
    BY <2>1 DEF Ready, Supervisors, States
<1>2. TypeOK'
  BY <1>1 DEF TypeOK
<1>3. OneMount' /\ KeepsTrying' /\ ReportIsTrue'
  BY <1>1 DEF OneMount, KeepsTrying, ReportIsTrue
<1>4. QED
  BY <1>2, <1>3 DEF Inv

(* However a probe ends, it leaves the invariant. *)
LEMMA ProbeKeepsInv ==
  ASSUME TypeOK, NEW l, Fit(l), l.running, ProbeNow(l), UNCHANGED current
  PROVE  Inv'
<1> USE DEF Fit
<1>1. /\ l.running /\ current' \in Providers \cup {NoProvider}
      /\ owed \in [Providers -> Nat]
      /\ l.cleanup \in BOOLEAN /\ l.pending \in BOOLEAN
      /\ l.provider \in Providers \cup {NoProvider}
  BY DEF TypeOK, Supervisors
<1>2. /\ Undone(l) = [p \in Providers |-> 0]
      /\ Empty(l) \in Supervisors
      /\ Empty(l).running /\ ~Empty(l).cleanup
      /\ Empty(l).provider = NoProvider /\ ~Empty(l).pending
  BY NothingIsOwed
<1>3. ASSUME NEW state \in {"unavailable", "degraded"},
             lc' = Failed(Empty(l), state), owed' = Undone(l)
      PROVE  Inv'
  <2>1. \A p \in Providers : owed'[p] = IF Empty(l).provider = p THEN 1 ELSE 0
    BY <1>2, <1>3, LifecycleAssumption
  <2>2. owed' \in [Providers -> Nat]
    BY <1>2, <1>3
  <2>3. QED
    BY <1>1, <1>2, <1>3, <2>1, <2>2, FailedKeeps
<1>4. ASSUME l.cleanup, lc' = Failed(Stuck(l), "degraded"), UNCHANGED owed
      PROVE  Inv'
  <2>1. /\ Stuck(l) \in Supervisors /\ Stuck(l).running /\ Stuck(l).pending
        /\ Stuck(l).cleanup = l.cleanup /\ Stuck(l).provider = l.provider
    BY DEF Stuck, Supervisors
  <2>2. \A p \in Providers : owed'[p] = IF Stuck(l).provider = p THEN 1 ELSE 0
    BY <1>4, <2>1
  <2>3. QED
    BY <1>1, <1>4, <2>1, <2>2, FailedKeeps
<1>5. ASSUME NEW pending \in BOOLEAN, Replaces(l),
             owed' = [Undone(l) EXCEPT ![current] = @ + 1]
      PROVE  LET h == Holding(Empty(l), current, pending)
             IN  /\ h \in Supervisors /\ h.running /\ h.cleanup /\ h.pending = pending
                 /\ h.provider = current /\ current # NoProvider
                 /\ owed' \in [Providers -> Nat]
                 /\ \A p \in Providers : owed'[p] = IF h.provider = p THEN 1 ELSE 0
  <2>1. current \in Providers
    BY <1>5 DEF Replaces, TypeOK
  <2> DEFINE h == Holding(Empty(l), current, pending)
  <2>2. h \in Supervisors /\ h.running /\ h.cleanup /\ h.pending = pending /\ h.provider = current
    BY <1>2, <2>1 DEF Holding, Supervisors
  <2>3. owed' = [[p \in Providers |-> 0] EXCEPT ![current] = 1]
    BY <1>2, <1>5, <2>1
  <2>4. owed' \in [Providers -> Nat] /\ \A p \in Providers : owed'[p] = IF current = p THEN 1 ELSE 0
    BY <2>1, <2>3
  <2>5. QED
    BY <2>1, <2>2, <2>4, LifecycleAssumption
<1>6. CASE FindsNobody(l)
  BY <1>3, <1>6 DEF FindsNobody
<1>7. CASE FindsItself(l)
  <2>1. UNCHANGED owed /\ l.cleanup /\ ~l.pending /\ lc' = Ready(l)
    BY <1>7 DEF FindsItself, IsMounted
  <2>2. QED
    BY <1>1, <2>1, ReadyKeeps
<1>8. CASE CannotUndo(l)
  BY <1>4, <1>8 DEF CannotUndo
<1>9. CASE Mounts(l)
  <2> DEFINE h == Holding(Empty(l), current, FALSE)
  <2>1. lc' = Ready(h) /\ Replaces(l) /\ owed' = [Undone(l) EXCEPT ![current] = @ + 1]
    BY <1>9 DEF Mounts
  <2>2. /\ h \in Supervisors /\ h.running /\ h.cleanup /\ ~h.pending
        /\ h.provider # NoProvider /\ owed' \in [Providers -> Nat]
        /\ \A p \in Providers : owed'[p] = IF h.provider = p THEN 1 ELSE 0
    BY <1>5, <2>1
  <2> HIDE DEF h
  <2>3. QED
    BY <1>1, <2>1, <2>2, ReadyKeeps
<1>10. CASE \E state \in {"unavailable", "degraded"} : MountsNothing(l, state)
  BY <1>3, <1>10 DEF MountsNothing
<1>11. CASE MountsPartly(l)
  <2> DEFINE h == Holding(Empty(l), current, TRUE)
  <2>1. /\ lc' = Failed(h, "degraded") /\ Replaces(l)
        /\ owed' = [Undone(l) EXCEPT ![current] = @ + 1]
    BY <1>11 DEF MountsPartly
  <2>2. /\ h \in Supervisors /\ h.running /\ h.cleanup /\ h.pending
        /\ h.provider # NoProvider /\ owed' \in [Providers -> Nat]
        /\ \A p \in Providers : owed'[p] = IF h.provider = p THEN 1 ELSE 0
    BY <1>5, <2>1
  <2> HIDE DEF h
  <2>3. QED
    BY <1>1, <2>1, <2>2, FailedKeeps
<1>12. CASE ProbeThrows(l)
  BY <1>3, <1>4, <1>12 DEF ProbeThrows
<1>13. QED
  BY <1>6, <1>7, <1>8, <1>9, <1>10, <1>11, <1>12 DEF ProbeNow

LEMMA InitInv == Init => Inv
BY LifecycleAssumption
DEF Init, Inv, TypeOK, OneMount, KeepsTrying, ReportIsTrue, Supervisors, States

LEMMA StepInv == Inv /\ [Next]_vars => Inv'
<1> SUFFICES ASSUME Inv, [Next]_vars PROVE Inv'
  OBVIOUS
<1>1. TypeOK /\ OneMount /\ KeepsTrying /\ ReportIsTrue
  BY DEF Inv
<1>2. CASE Tick
  <2>1. Fit(Fired) /\ Fired.running
    BY <1>1, <1>2 DEF Fit, Fired, Tick, TypeOK, Supervisors, OneMount, KeepsTrying
  <2>2. QED
    BY <1>1, <1>2, <2>1, ProbeKeepsInv DEF Tick
<1>3. CASE Start
  <2> DEFINE l == [lc EXCEPT !.running = TRUE]
  <2>1. Fit(l) /\ l.running
    BY <1>1 DEF Fit, TypeOK, Supervisors, OneMount
  <2>2. QED
    BY <1>1, <1>3, <2>1, ProbeKeepsInv DEF Start
<1>4. CASE Stop
  <2>1. CASE lc' = Stopped(Empty(lc), "unavailable") /\ owed' = Undone(lc)
    <3>1. owed' = [p \in Providers |-> 0]
      BY <1>1, <2>1, NothingIsOwed DEF Fit, TypeOK, OneMount
    <3>2. /\ lc' \in Supervisors /\ ~lc'.running /\ ~lc'.timer /\ ~lc'.cleanup
          /\ lc'.provider = NoProvider /\ lc'.state = "unavailable"
      BY <1>1, <2>1 DEF TypeOK, Stopped, Empty, Supervisors, States
    <3>3. QED
      BY <1>1, <1>4, <3>1, <3>2, LifecycleAssumption
      DEF Inv, TypeOK, OneMount, KeepsTrying, ReportIsTrue, Stop
  <2>2. CASE lc.cleanup /\ lc' = Stopped(Stuck(lc), "degraded") /\ UNCHANGED owed
    <3>1. /\ lc' \in Supervisors /\ ~lc'.running /\ ~lc'.timer /\ lc'.cleanup = lc.cleanup
          /\ lc'.provider = lc.provider /\ lc'.state = "degraded"
      BY <1>1, <2>2 DEF TypeOK, Stopped, Stuck, Supervisors, States
    <3>2. QED
      BY <1>1, <1>4, <2>2, <3>1
      DEF Inv, TypeOK, OneMount, KeepsTrying, ReportIsTrue, Stop
  <2>3. QED
    BY <1>4, <2>1, <2>2 DEF Stop
<1>5. CASE ProviderChanges
  BY <1>1, <1>5
  DEF Inv, TypeOK, OneMount, KeepsTrying, ReportIsTrue, ProviderChanges
<1>6. CASE UNCHANGED vars
  BY <1>1, <1>6 DEF Inv, TypeOK, OneMount, KeepsTrying, ReportIsTrue, vars
<1>7. QED
  BY <1>2, <1>3, <1>4, <1>5, <1>6 DEF Next

LEMMA Invariance == Spec => []Inv
BY InitInv, StepInv, PTL DEF Spec

(* The supervisor is well typed and undoes nothing twice, for any number   *)
(* of providers.                                                           *)
THEOREM SupervisorTypeCorrect == Spec => []TypeOK
<1>1. Inv => TypeOK
  BY DEF Inv
<1>2. QED
  BY <1>1, Invariance, PTL

(* There is never a second mount, nor one that nobody will undo: whatever  *)
(* is registered is what the supervisor holds, for any number of           *)
(* providers and whichever callbacks fail.                                 *)
THEOREM NeverTwoMounts == Spec => []OneMount
<1>1. Inv => OneMount
  BY DEF Inv
<1>2. QED
  BY <1>1, Invariance, PTL

(* A running supervisor always has a probe scheduled and a stopped one     *)
(* never.                                                                  *)
THEOREM SupervisorKeepsTrying == Spec => []KeepsTrying
<1>1. Inv => KeepsTrying
  BY DEF Inv
<1>2. QED
  BY <1>1, Invariance, PTL

(* The status that the supervisor reports is true: ready exactly when it   *)
(* holds a complete registration with nothing left to undo.                *)
THEOREM ReportsAreTrue == Spec => []ReportIsTrue
<1>1. Inv => ReportIsTrue
  BY DEF Inv
<1>2. QED
  BY <1>1, Invariance, PTL
=============================================================================

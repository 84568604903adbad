--------------------------- MODULE HttpBackpressure ---------------------------
(***************************************************************************)
(* The backpressure middleware of the HTTP transport over the fair         *)
(* admission controller.  A POST first holds a standard slot while its     *)
(* body is read and classified; an expensive operation or a mutation then  *)
(* gives that slot back and queues again for its own class, under the      *)
(* deadline of its first wait.  The lease ends with the response.          *)
(***************************************************************************)
EXTENDS FairAdmission

CONSTANTS
  Owner,    \* per request: the identity it was authenticated as
  Calls,    \* per request: the calls that the instance lets it make
  Events    \* subset of {"giveup"}: waits may time out or be aborted

(* A POST holds a standard slot while its body is parsed, the others run   *)
(* at once; only a POST can be a mutation.                                 *)
Kinds == {k \in [class : Classes, first : {"parse", "run"}] :
            k.class = "mutation" => k.first = "parse"}

ASSUME RequestsAssumption ==
  /\ Owner \in [Requests -> Identities]
  /\ Calls \in [Requests -> SUBSET Kinds]
  /\ Events \subseteq {"giveup"}

VARIABLES
  ctl,     \* the controller
  phase,   \* per request: outside the middleware, reading its body, or past it
  want     \* per request: the class its operation turns out to have

vars == <<ctl, phase, want>>

(* Every part of the controller has its type: no counter goes below zero,  *)
(* whichever of the paths of a response releases the lease.                *)
TypeOK ==
  /\ ctl \in ControllersOver(Nat)
  /\ phase \in [Requests -> {"idle", "parse", "run"}]
  /\ want \in [Requests -> Classes]

Init ==
  /\ ctl = NewController
  /\ phase = [r \in Requests |-> "idle"]
  /\ want = [r \in Requests |-> "standard"]

-----------------------------------------------------------------------------
ItemFor(r, class) == [req |-> r, by |-> Owner[r], class |-> class]

(* What the request asks the controller for in its present phase. *)
ItemOf(r) == ItemFor(r, IF phase[r] = "parse" THEN "standard" ELSE want[r])

Holds(s, x) == x \in s.leases \cup ToSet(s.queue[x.by])

Leased(r)  == phase[r] # "idle" /\ ItemOf(r) \in ctl.leases
Waiting(r) == phase[r] # "idle" /\ ItemOf(r) \in ToSet(ctl.queue[Owner[r]])

Ends(r) ==
  /\ phase' = [phase EXCEPT ![r] = "idle"]
  /\ want' = [want EXCEPT ![r] = "standard"]

(* A request reaches the middleware.  A POST asks for a standard slot,     *)
(* whatever its operation.                                                 *)
Arrive(r, call) ==
  /\ phase[r] = "idle"
  /\ LET x == ItemFor(r, IF call.first = "parse" THEN "standard" ELSE call.class)
     IN  /\ ctl' = Acquired(ctl, x)
         /\ IF Holds(ctl', x)
            THEN /\ phase' = [phase EXCEPT ![r] = call.first]
                 /\ want' = [want EXCEPT ![r] = call.class]
            ELSE UNCHANGED <<phase, want>>

(* The body is read: a standard operation keeps its slot. *)
KeepSlot(r) ==
  /\ phase[r] = "parse" /\ Leased(r)
  /\ want[r] = "standard"
  /\ phase' = [phase EXCEPT ![r] = "run"]
  /\ UNCHANGED <<ctl, want>>

(* Another class: release and acquire in one synchronous stretch, so that  *)
(* those already waiting are dispatched first.                             *)
Reclassify(r) ==
  /\ phase[r] = "parse" /\ Leased(r)
  /\ want[r] # "standard"
  /\ LET x == ItemFor(r, want[r])
     IN  /\ ctl' = Acquired(Released(ctl, ItemOf(r)), x)
         /\ IF Holds(ctl', x)
            THEN phase' = [phase EXCEPT ![r] = "run"] /\ UNCHANGED want
            ELSE Ends(r)

(* The body is refused, the deadline has passed or the client is gone when *)
(* it is read, the handler throws, or the response ends, fails or is       *)
(* cancelled.  A stream that is cancelled while it ends asks for its       *)
(* release twice; the flags of the response and of the lease absorb that.  *)
Finish(r) ==
  /\ Leased(r)
  /\ \E again \in BOOLEAN :
       ctl' = LET once == Released(ctl, ItemOf(r))
              IN  IF again THEN Released(once, ItemOf(r)) ELSE once
  /\ Ends(r)

(* The timer of the wait fires, or the client aborts. *)
GiveUp(r) ==
  /\ "giveup" \in Events
  /\ Waiting(r)
  /\ ctl' = Removed(ctl, ItemOf(r))
  /\ Ends(r)

Proceed(r) == KeepSlot(r) \/ Reclassify(r) \/ Finish(r)

Next ==
  \/ \E r \in Requests : \E call \in Calls[r] : Arrive(r, call)
  \/ \E r \in Requests : KeepSlot(r)
  \/ \E r \in Requests : Reclassify(r)
  \/ \E r \in Requests : Finish(r)
  \/ \E r \in Requests : GiveUp(r)

Spec == Init /\ [][Next]_vars

-----------------------------------------------------------------------------
Consuming(t) == {x \in ctl.leases : t \in TiersOf(x.class)}

ConsumingBy(i, t) == {x \in Consuming(t) : x.by = i}

(* The operations really in flight stay under all six ceilings, whatever   *)
(* the controller's counters say.                                          *)
LeasesFit ==
  \A t \in Tiers :
    /\ Cardinality(Consuming(t)) <= Limit[t]
    /\ \A i \in Identities :
         Cardinality(ConsumingBy(i, t)) <= LimitPerIdentity[t]

(* No capacity stays unused while the first request of a queue could take  *)
(* it: every release, timeout, abort and refusal leaves the dispatch with  *)
(* nothing to do.                                                          *)
NoIdleCapacity ==
  \A i \in Identities :
    ctl.queue[i] # <<>> =>
      \E t \in TiersOf(Head(ctl.queue[i]).class) :
        \/ Cardinality(Consuming(t)) >= Limit[t]
        \/ Cardinality(ConsumingBy(i, t)) >= LimitPerIdentity[t]

(* A request inside the middleware waits once or holds one lease, so that  *)
(* its promise will settle; the order lists each waiting identity once.    *)
NoRequestIsLost ==
  /\ \A r \in Requests :
       phase[r] # "idle" => (Waiting(r) <=> ~Leased(r))
  /\ ctl.leases \cup UNION {ToSet(ctl.queue[i]) : i \in Identities}
       = {ItemOf(r) : r \in {q \in Requests : phase[q] # "idle"}}
  /\ IsInjective(ctl.order)
  /\ ToSet(ctl.order) = {i \in Identities : ctl.queue[i] # <<>>}

(* Inside one identity requests are served in the order in which they      *)
(* queued: a step that admits a request leaves none behind that queued     *)
(* before it, also when a request asks again for another class.            *)
AheadOf(y, q) ==
  {q[n] : n \in {m \in DOMAIN q : \A k \in 1 .. m : q[k] # y}}

ServedInOrder ==
  [][\A y \in ctl'.leases \ ctl.leases :
       AheadOf(y, ctl.queue[y.by]) \cap ToSet(ctl'.queue[y.by]) = {}]_vars

-----------------------------------------------------------------------------
(* Handlers, body reads and responses end: the body read has a deadline,   *)
(* and the server closes a response that its client stopped reading.       *)
FairSpec == Spec /\ \A r \in Requests : WF_vars(Proceed(r))

OnlyStandard(i) ==
  \A q \in Requests, k \in Kinds : Owner[q] = i /\ k \in Calls[q] => k.class = "standard"

(* The round robin starves no client of standard operations: a request of  *)
(* such a client that no timeout or abort takes out of its queue is        *)
(* admitted in the end, whatever the others call and however often.        *)
StandardIsServed ==
  \A r \in Requests : OnlyStandard(Owner[r]) => (Waiting(r) ~> ~Waiting(r))

(* http-concurrency-backpressure.md: the round robin "prevents one client  *)
(* with many queued calls from starving other identities".                 *)
EveryoneIsServed == \A r \in Requests : Waiting(r) ~> ~Waiting(r)

=============================================================================

---------------------------- MODULE FairAdmission ----------------------------
(***************************************************************************)
(* The fair admission controller of the HTTP transport                     *)
(* (httpBackpressure.ts): leases under six ceilings, a bounded queue per   *)
(* identity, and the round-robin dispatch that runs whenever capacity or   *)
(* the head of a queue may have changed.  Every method is synchronous, so  *)
(* each is an operator from controller state to controller state.          *)
(***************************************************************************)
EXTENDS Integers, FiniteSets, SequencesExt

CONSTANTS
  Identities,            \* verified client identities
  Requests,              \* HTTP requests, reused once they ended
  Limit,                 \* per tier: ceiling of the server
  LimitPerIdentity,      \* per tier: ceiling of one identity
  MaxQueued,             \* maxQueued
  MaxQueuedPerIdentity   \* maxQueuedPerIdentity

(* The three pairs of ceilings, and which of them an operation consumes.   *)
Tiers   == {"any", "expensive", "mutation"}
Classes == {"standard", "expensive", "mutation"}

TiersOf(class) ==
  {"any"} \cup (IF class # "standard" THEN {"expensive"} ELSE {})
          \cup (IF class = "mutation" THEN {"mutation"} ELSE {})

(* HttpBackpressureEnvSchema refuses every other configuration.            *)
ASSUME LimitsAssumption ==
  /\ Limit \in [Tiers -> Nat \ {0}]
  /\ LimitPerIdentity \in [Tiers -> Nat \ {0}]
  /\ \A t \in Tiers : LimitPerIdentity[t] <= Limit[t]
  /\ Limit["mutation"] <= Limit["expensive"]
  /\ Limit["expensive"] <= Limit["any"]
  /\ MaxQueued \in Nat
  /\ MaxQueuedPerIdentity \in 0 .. MaxQueued
  /\ MaxQueued > 0 => MaxQueuedPerIdentity > 0

Items == [req : Requests, by : Identities, class : Classes]

(* The state of a controller whose counters range over Counts; leases are  *)
(* the leases handed out whose released flag is still false.               *)
ControllersOver(Counts) ==
  [ inFlight   : [Tiers -> Counts],
    byIdentity : [Identities -> [Tiers -> Counts]],
    queue      : [Identities -> Seq(Items)],
    order      : Seq(Identities),
    queued     : Counts,
    leases     : SUBSET Items ]

NewController ==
  [ inFlight   |-> [t \in Tiers |-> 0],
    byIdentity |-> [i \in Identities |-> [t \in Tiers |-> 0]],
    queue      |-> [i \in Identities |-> <<>>],
    order      |-> <<>>,
    queued     |-> 0,
    leases     |-> {} ]

-----------------------------------------------------------------------------
(* canGrant() and grant(). *)

(* A faulty controller that watches the ceilings of the server only. *)
CanGrantToAnyone(s, x) == \A t \in TiersOf(x.class) : s.inFlight[t] < Limit[t]

CanGrant(s, x) ==
  \A t \in TiersOf(x.class) : /\ s.inFlight[t] < Limit[t]
                              /\ s.byIdentity[x.by][t] < LimitPerIdentity[t]

Raised(counts, class) ==
  [t \in Tiers |-> IF t \in TiersOf(class) THEN counts[t] + 1 ELSE counts[t]]

Lowered(counts, class) ==
  [t \in Tiers |-> IF t \in TiersOf(class) THEN counts[t] - 1 ELSE counts[t]]

(* decrement() drops the entry of an identity whose count reaches zero. *)
LoweredToZero(counts, class) ==
  [t \in Tiers |-> IF t \in TiersOf(class) /\ counts[t] > 0 THEN counts[t] - 1
                   ELSE counts[t]]

Granted(s, x) ==
  [s EXCEPT !.inFlight = Raised(@, x.class),
            !.byIdentity[x.by] = Raised(@, x.class),
            !.leases = @ \cup {x}]

-----------------------------------------------------------------------------
(* dispatch(): serve the head of the first identity in the order that has  *)
(* room and send that identity to the back, until a whole turn of the      *)
(* order served nobody.                                                    *)

Rotated(s) == [s EXCEPT !.order = Append(Tail(@), Head(@))]

(* A faulty turn after which the rest of the queue is forgotten. *)
ServedAndForgotten(s) ==
  LET i == Head(s.order)
  IN  [Granted(s, Head(s.queue[i])) EXCEPT
         !.queue[i] = Tail(@), !.queued = @ - 1, !.order = Tail(@)]

ServedFirst(s) ==
  LET i    == Head(s.order)
      rest == Tail(s.queue[i])
  IN  [Granted(s, Head(s.queue[i])) EXCEPT
         !.queue[i] = rest,
         !.queued = @ - 1,
         !.order = IF rest = <<>> THEN Tail(@) ELSE Append(Tail(@), i)]

(* The loop after a number of turns: the controller and the turns left     *)
(* without progress (attemptsWithoutProgress).                             *)
Start(s) == [ctl |-> s, left |-> Len(s.order)]

Over(d) == d.ctl.order = <<>> \/ d.left = 0

Turn ==
  [d \in [ctl : ControllersOver(Int), left : Nat] |->
     LET s == d.ctl
         q == s.queue[Head(s.order)]
     IN  IF Over(d) THEN d
         ELSE IF q = <<>> THEN [ctl |-> [s EXCEPT !.order = Tail(@)], left |-> d.left - 1]
         ELSE IF CanGrant(s, Head(q)) THEN Start(ServedFirst(s))
         ELSE [ctl |-> Rotated(s), left |-> d.left - 1]]

TurnsOf(s) ==
  LET after[n \in Nat] == IF n = 0 THEN Start(s) ELSE Turn[after[n - 1]]
  IN  after

(* The loop is over after these many turns, whatever it serves.            *)
MaxTurns(s) == (s.queued + 1) * (Len(s.order) + 1)

Dispatched(s) == TurnsOf(s)[MaxTurns(s)].ctl

-----------------------------------------------------------------------------
(* acquire(), the release of a lease, and removeQueuedItem() with the      *)
(* dispatch that each of its callers makes.                                *)

(* A faulty queue that lets an identity start at the head of the order. *)
EnqueuedFirst(s, x) ==
  [s EXCEPT !.queue[x.by] = Append(@, x),
            !.order = IF s.queue[x.by] = <<>> THEN <<x.by>> \o @ ELSE @,
            !.queued = @ + 1]

Enqueued(s, x) ==
  [s EXCEPT !.queue[x.by] = Append(@, x),
            !.order = IF s.queue[x.by] = <<>> THEN Append(@, x.by) ELSE @,
            !.queued = @ + 1]

QueueIsFull(s, x) ==
  \/ s.queued >= MaxQueued
  \/ Len(s.queue[x.by]) >= MaxQueuedPerIdentity

(* A faulty acquire that does not ask whether somebody is waiting. *)
AcquiredAtOnce(s, x) ==
  IF CanGrant(s, x) THEN Granted(s, x)
  ELSE IF QueueIsFull(s, x) THEN s
  ELSE Dispatched(Enqueued(s, x))

Acquired(s, x) ==
  IF s.queued = 0 /\ CanGrant(s, x) THEN Granted(s, x)
  ELSE IF QueueIsFull(s, x) THEN s
  ELSE Dispatched(Enqueued(s, x))

(* A faulty lease that forgets that it was released. *)
ReleasedAgain(s, x) ==
  Dispatched([s EXCEPT !.inFlight = Lowered(@, x.class),
                       !.byIdentity[x.by] = LoweredToZero(@, x.class),
                       !.leases = @ \ {x}])

Released(s, x) ==
  IF x \notin s.leases THEN s
  ELSE Dispatched([s EXCEPT !.inFlight = Lowered(@, x.class),
                            !.byIdentity[x.by] = LoweredToZero(@, x.class),
                            !.leases = @ \ {x}])

(* A faulty removal that leaves the freed turn to nobody. *)
RemovedSilently(s, x) ==
  LET rest == RemoveFirst(s.queue[x.by], x)
  IN  [s EXCEPT !.queue[x.by] = rest,
                !.queued = @ - 1,
                !.order = IF rest = <<>> THEN RemoveFirst(@, x.by) ELSE @]

Removed(s, x) ==
  LET rest == RemoveFirst(s.queue[x.by], x)
  IN  Dispatched([s EXCEPT !.queue[x.by] = rest,
                           !.queued = @ - 1,
                           !.order = IF rest = <<>> THEN RemoveFirst(@, x.by) ELSE @])

=============================================================================

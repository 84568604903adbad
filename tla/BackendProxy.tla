----------------------------- MODULE BackendProxy -----------------------------
(***************************************************************************)
(* The stdio proxy (stdio-proxy.ts): tool calls of stdio clients share one *)
(* connection to an HTTP backend, which is replaced when it fails.  Each   *)
(* connection is a generation.  A call is cut where the code awaits: on    *)
(* its lease, on the backend, and on the reconnection.  The handler's      *)
(* catch decides last what the caller of a governed apply is told.         *)
(*                                                                         *)
(* The proxy starts with a connection and never loses the variable that    *)
(* holds one, so the branches for an absent backend are left out.          *)
(***************************************************************************)
EXTENDS Naturals, FiniteSets

CONSTANTS
  Calls,           \* tools/call requests, one tool each
  Governed,        \* those of a governed apply tool with a well-formed plan reference
  Annotations,     \* sets of calls that a backend may annotate as read-only
  MaxGenerations   \* bound of the model on the connections ever made

ASSUME ProxyAssumption ==
  /\ MaxGenerations \in Nat \ {0}
  /\ Governed \subseteq Calls
  /\ Annotations # {} /\ \A R \in Annotations : R \subseteq Calls

VARIABLES
  backend,   \* generation of the active connection
  conn,      \* per generation: its connection
  retired,   \* generations retired, with a drain timer
  reads,     \* per generation: the calls that its backend says are read-only
  meta,      \* readOnlyToolNames and toolMetadataGeneration
  dialling,  \* reconnectPromise: the generation it replaces, or none
  call,      \* per call: where it is
  entries,   \* history: how often the handler of its tool was entered
  changed,   \* history: calls whose tool changed something
  cut        \* history: calls whose request was abandoned by the proxy

vars == <<backend, conn, retired, reads, meta, dialling, call, entries, changed, cut>>

Generations == 1 .. MaxGenerations
None == 0

Answers == {"none", "result", "rejected", "unreachable", "outcome_unknown"}

CallStates ==
  [ pc     : {"new", "prove", "bind", "send", "run", "reconnect", "done"},
    op     : {"list", "tool"},    \* what it sends
    goal   : {"expose", "prove"}, \* what a listing is for
    gen    : 0 .. MaxGenerations, \* connection it leases, or proof it holds
    ran    : BOOLEAN,             \* the backend entered its handler
    auth   : BOOLEAN,             \* networkReplayAuthorized
    why    : {"first", "network", "session-invalid"},  \* of the tool's second execution
    lost   : {"none", "network", "session-invalid"},   \* what it waits to repair
    again  : BOOLEAN,             \* the listing is in its second execution
    stale  : BOOLEAN,             \* staleRefreshesRemaining is used up
    listed : BOOLEAN,             \* this proof has refreshed the metadata
    binds  : 0 .. 2,
    answer : Answers ]

NewCall ==
  [ pc |-> "new", op |-> "tool", goal |-> "expose", gen |-> None, ran |-> FALSE,
    auth |-> FALSE, why |-> "first", lost |-> "none", again |-> FALSE, stale |-> FALSE,
    listed |-> FALSE, binds |-> 0, answer |-> "none" ]

NoMeta == [gen |-> None, reads |-> {}]

TypeOK ==
  /\ backend \in Generations
  /\ conn \in [Generations -> {"none", "open", "closed"}]
  /\ retired \subseteq Generations
  /\ reads \in [Generations -> SUBSET Calls]
  /\ meta \in [gen : 0 .. MaxGenerations, reads : SUBSET Calls]
  /\ dialling \in 0 .. MaxGenerations
  /\ call \in [Calls -> CallStates]
  /\ entries \in [Calls -> 0 .. 2]   \* one retry at most
  /\ changed \subseteq Calls
  /\ cut \subseteq Calls

Init ==
  /\ backend = 1
  /\ conn = [g \in Generations |-> IF g = 1 THEN "open" ELSE "none"]
  /\ retired = {}
  /\ \E R \in Annotations : reads = [g \in Generations |-> IF g = 1 THEN R ELSE {}]
  /\ meta = NoMeta
  /\ dialling = None
  /\ call = [c \in Calls |-> NewCall]
  /\ entries = [c \in Calls |-> 0] /\ changed = {}
  /\ cut = {}

-----------------------------------------------------------------------------
InFlight(g, calls) == {c \in Calls : calls[c].pc = "run" /\ calls[c].gen = g}

(* closeRetiredBackend(), at the end of a lease and when one retires.      *)
Drained(calls, R) ==
  [g \in Generations |->
     IF conn[g] = "open" /\ g \in R /\ InFlight(g, calls) = {} THEN "closed" ELSE conn[g]]

Current == meta.gen = backend

(* A step of one call that ends no lease and touches nothing else. *)
Becomes(c, state) ==
  /\ call' = [call EXCEPT ![c] = state]
  /\ UNCHANGED <<backend, conn, retired, reads, dialling>>

(* A listing that toolIsExposed() asks for, before the handler's try.      *)
Exposing(k) == k.op = "list" /\ k.goal = "expose"

(* A faulty handler that passes every error on as it is. *)
ToldAsItIs(c, answer) == answer

(* The catch of the handler, proxyMutationFailure(): whatever error ends a *)
(* governed apply, its caller is told that it may have been applied.       *)
Told(c, answer) ==
  IF c \in Governed /\ answer # "result" /\ ~Exposing(call[c]) THEN "outcome_unknown"
  ELSE answer

Ended(c, answer) ==
  [NewCall EXCEPT !.pc = "done", !.answer = Told(c, answer), !.why = call[c].why]

Listing(k, goal) ==
  [k EXCEPT !.pc = "bind", !.op = "list", !.goal = goal, !.again = FALSE, !.ran = FALSE]

(* The call arrives; toolIsExposed() needs the metadata of this backend.   *)
Arrive(c) ==
  /\ call[c].pc = "new"
  /\ Becomes(c, IF Current THEN [call[c] EXCEPT !.pc = "prove"] ELSE Listing(call[c], "expose"))
  /\ UNCHANGED <<meta, entries, changed, cut>>

(* toolReplayProof(): the metadata is refreshed once if it is of another   *)
(* generation; a replay after a network failure needs a read-only tool.    *)
Prove(c) ==
  /\ call[c].pc = "prove"
  /\ LET k == call[c]
         proof == c \in meta.reads
     IN  Becomes(c,
           IF Current THEN
             IF k.why = "network" /\ ~proof THEN Ended(c, "outcome_unknown")
             ELSE [k EXCEPT !.pc = "bind", !.op = "tool", !.gen = meta.gen,
                            !.auth = proof, !.ran = FALSE, !.listed = FALSE]
           ELSE IF k.listed THEN Ended(c, "rejected")
           ELSE [Listing(k, "prove") EXCEPT !.listed = TRUE, !.stale = FALSE])
  /\ UNCHANGED <<meta, entries, changed, cut>>

(* A faulty lease that carries a proof over to the next generation. *)
StillBoundAnyway(k) == TRUE

(* The lease of a tool is for the generation of its proof. *)
StillBound(k) == k.op = "list" \/ k.gen = backend

(* withBackendLease() takes the active connection, ...                     *)
Bind(c) ==
  /\ call[c].pc = "bind"
  /\ LET k == call[c]
     IN  Becomes(c,
           IF StillBound(k) THEN [k EXCEPT !.pc = "send", !.gen = backend]
           ELSE IF k.binds = 2 THEN Ended(c, "rejected")
           ELSE [k EXCEPT !.pc = "prove", !.binds = @ + 1])
  /\ UNCHANGED <<meta, entries, changed, cut>>

(* ... and sends, on a connection that may have been retired or even       *)
(* closed while the call resumed.                                          *)
Send(c) ==
  /\ call[c].pc = "send"
  /\ Becomes(c, IF conn[call[c].gen] = "closed" THEN Ended(c, "rejected")
                ELSE [call[c] EXCEPT !.pc = "run"])
  /\ UNCHANGED <<meta, entries, changed, cut>>

-----------------------------------------------------------------------------
(* The backend. *)

(* The handler is entered; a tool that is not read-only has its effect.    *)
Execute(c) ==
  /\ call[c].pc = "run" /\ ~call[c].ran /\ conn[call[c].gen] = "open"
  /\ Becomes(c, [call[c] EXCEPT !.ran = TRUE])
  /\ IF call[c].op = "tool"
     THEN /\ entries' = [entries EXCEPT ![c] = @ + 1]
          /\ changed' = IF c \in reads[call[c].gen] THEN changed ELSE changed \cup {c}
     ELSE UNCHANGED <<entries, changed>>
  /\ UNCHANGED <<meta, cut>>

(* The lease of the call ends and the call goes on as state. *)
LeaseEnds(c, state) ==
  /\ call' = [call EXCEPT ![c] = state]
  /\ conn' = Drained(call', retired)
  /\ UNCHANGED <<backend, retired, reads>>

(* A faulty listing that is believed whatever generation it is of. *)
ListingIsOf(g) == TRUE

ListingIsCurrent(g) == g = backend

(* A result.  A listing that was overtaken by a reconnection is repeated   *)
(* once and never believed.                                                *)
Answer(c) ==
  LET k == call[c]
  IN  /\ k.pc = "run" /\ k.ran /\ conn[k.gen] = "open"
      /\ IF k.op = "tool" THEN LeaseEnds(c, Ended(c, "result")) /\ UNCHANGED meta
         ELSE IF ListingIsCurrent(k.gen)
         THEN /\ LeaseEnds(c, [k EXCEPT !.pc = "prove", !.stale = FALSE])
              /\ meta' = [gen |-> k.gen, reads |-> reads[k.gen]]
         ELSE /\ LeaseEnds(c, IF k.stale THEN Ended(c, "rejected")
                              ELSE [Listing(k, k.goal) EXCEPT !.stale = TRUE])
              /\ UNCHANGED meta
      /\ UNCHANGED <<dialling, entries, changed, cut>>

(* An HTTP reply that rejects the request, such as 503 or 404.  The model  *)
(* assumes of the backend that such an error precedes the handler: what a  *)
(* handler throws comes back as a result.                                  *)
Reject(c) ==
  /\ call[c].pc = "run" /\ ~call[c].ran /\ conn[call[c].gen] = "open"
  /\ LeaseEnds(c, Ended(c, "rejected"))
  /\ UNCHANGED <<meta, dialling, entries, changed, cut>>

(* The drain timeout closed the connection, or the client's own request    *)
(* timeout passed: no network code, so an application error to the proxy.  *)
Abandon(c) ==
  /\ call[c].pc = "run"
  /\ LeaseEnds(c, Ended(c, "rejected"))
  /\ cut' = cut \cup {c}
  /\ UNCHANGED <<meta, dialling, entries, changed>>

-----------------------------------------------------------------------------
(* withBackendRetry() and reconnectBackend(). *)

(* A faulty verdict that calls every lost answer a lost connection. *)
LostAnywhere(k, kind) == "unreachable"

(* What a call is told when it is not replayed.                            *)
Lost(k, kind) ==
  IF k.op = "list" THEN IF k.goal = "prove" THEN "rejected" ELSE "unreachable"
  ELSE IF kind = "network" /\ ~k.auth THEN "outcome_unknown" ELSE "unreachable"

(* A faulty retry that replays whatever failed. *)
MayReplayAnything(k, kind) == TRUE

(* A session that was refused never entered the handler; after a network   *)
(* failure only a listing or a tool proved read-only is replayed.          *)
MayReplay(k, kind) == kind = "session-invalid" \/ k.op = "list" \/ k.auth

Replayed(c, kind) ==
  LET k == call[c]
  IN  IF ~MayReplay(k, kind) THEN Ended(c, Lost(k, kind))
      ELSE IF k.op = "list" THEN [Listing(k, k.goal) EXCEPT !.again = TRUE, !.lost = "none"]
      ELSE [k EXCEPT !.pc = "prove", !.why = kind, !.lost = "none", !.binds = 0,
                     !.ran = FALSE, !.listed = FALSE]

(* A faulty retry without an end. *)
SecondExecutionNever(k) == FALSE

SecondExecution(k) == IF k.op = "list" THEN k.again ELSE k.why # "first"

Waiting(k, kind) == [k EXCEPT !.pc = "reconnect", !.lost = kind]

(* The failure is retried once: on the connection that has replaced this   *)
(* one, or after a reconnection that all calls wait for together.          *)
Fail(c, kind) ==
  LET k == call[c]
  IN  /\ k.pc = "run" /\ conn[k.gen] = "open"
      /\ kind = "session-invalid" => ~k.ran
      /\ IF SecondExecution(k) THEN LeaseEnds(c, Ended(c, Lost(k, kind))) /\ UNCHANGED dialling
         ELSE IF backend # k.gen THEN LeaseEnds(c, Replayed(c, kind)) /\ UNCHANGED dialling
         ELSE LeaseEnds(c, Waiting(k, kind)) /\ dialling' = backend
      /\ UNCHANGED <<meta, entries, changed, cut>>

Waiters == {c \in Calls : call[c].pc = "reconnect"}

RetiredWith(g) == retired \cup {g}

MetaAfterSwap == NoMeta

(* The replacement is connected, perhaps to another build of the backend:  *)
(* the metadata is dropped, the old connection retires, all waiters go on. *)
Reconnected ==
  /\ dialling # None /\ backend < MaxGenerations
  /\ backend' = backend + 1
  /\ \E R \in Annotations : reads' = [reads EXCEPT ![backend'] = R]
  /\ meta' = MetaAfterSwap
  /\ retired' = RetiredWith(dialling)
  /\ call' = [c \in Calls |->
                IF c \in Waiters THEN Replayed(c, call[c].lost) ELSE call[c]]
  /\ conn' = [Drained(call', retired') EXCEPT ![backend'] = "open"]
  /\ dialling' = None
  /\ UNCHANGED <<entries, changed, cut>>

(* A faulty failure that those who wait never hear of. *)
StillWaiting(c) == call[c]

GivenUp(c) == Ended(c, Lost(call[c], call[c].lost))

ReconnectFails ==
  /\ dialling # None /\ Waiters # {}
  /\ call' = [c \in Calls |-> IF c \in Waiters THEN GivenUp(c) ELSE call[c]]
  /\ dialling' = None
  /\ UNCHANGED <<backend, conn, retired, reads, meta, entries, changed, cut>>

(* retiredTimer. *)
DrainTimeout(g) ==
  /\ g \in retired /\ conn[g] = "open"
  /\ conn' = [conn EXCEPT ![g] = "closed"]
  /\ UNCHANGED <<backend, retired, reads, meta, dialling, call, entries, changed, cut>>

-----------------------------------------------------------------------------
Next ==
  \/ \E c \in Calls :
       \/ Arrive(c) \/ Prove(c) \/ Bind(c) \/ Send(c)
       \/ Execute(c) \/ Answer(c) \/ Reject(c) \/ Abandon(c)
       \/ \E kind \in {"network", "session-invalid"} : Fail(c, kind)
  \/ Reconnected \/ ReconnectFails
  \/ \E g \in Generations : DrainTimeout(g)

Spec == Init /\ [][Next]_vars

(* A call that can go on does, the SDK abandons a request after a while,   *)
(* and an attempt to reconnect ends.                                       *)
FairSpec ==
  /\ Spec
  /\ \A c \in Calls : WF_vars(Prove(c) \/ Bind(c) \/ Send(c) \/ Abandon(c))
  /\ WF_vars(Reconnected \/ ReconnectFails)

-----------------------------------------------------------------------------
(* A call that changed something is never sent again, not even to a build  *)
(* that takes its tool for read-only, through failures, reconnections and  *)
(* replays.                                                                *)
MutationIsNotReplayed == \A c \in changed : entries[c] = 1

(* "Rejected" and "unreachable" are true: nothing was changed; what may    *)
(* have been done is told as unknown.  Only a direct mutation, one without *)
(* a plan, may be denied although it happened: when the proxy itself       *)
(* abandoned its request.                                                  *)
OutcomeIsHonest ==
  \A c \in changed \ (cut \ Governed) :
    call[c].answer \notin {"rejected", "unreachable"}

(* No connection leaks: one that was replaced is retired, and stays open   *)
(* only while a call runs on it.                                           *)
ReplacedIsDraining ==
  \A g \in Generations \ {backend} :
    conn[g] = "open" => g \in retired /\ InFlight(g, call) # {}

(* The read-only annotations are those of the connection in use. *)
MetadataIsCurrent == meta.gen # None => Current /\ meta.reads = reads[backend]

(* Every call is answered. *)
EveryCallEnds == \A c \in Calls : call[c].pc # "new" ~> call[c].pc = "done"

=============================================================================

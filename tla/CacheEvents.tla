----------------------------- MODULE CacheEvents -----------------------------
(***************************************************************************)
(* The event supervisor of the vault cache (vaultCache/eventSupervisor.ts) *)
(* with the cache it drives, the vault that others edit, the event streams *)
(* of Local REST API, and restarts of the process.  Events are hints: they *)
(* name notes, never contents, and may be lost with their stream.          *)
(***************************************************************************)
EXTENDS VaultCache

CONSTANTS
  Streams,     \* create, modify, delete and rename in the code
  MaxPending,  \* maxPending
  BatchSize    \* batchSize

ASSUME EventsAssumption == MaxPending \in Nat \ {0} /\ BatchSize \in Nat \ {0}

VARIABLES
  sup,         \* the supervisor
  link,        \* per stream: the client's view of it
  subscribed,  \* per stream: whether Local REST API still serves it
  transit,     \* per stream: notices sent and not yet received
  told         \* history: per note the newest version a received notice was about

vars == <<vault, rows, cache, writes, scan, held, faults, sup, link, subscribed, transit, told>>

eventVars == <<link, subscribed, transit, told>>

Supervisors ==
  [ on      : BOOLEAN,         \* started
    pending : SUBSET Paths,
    dirty   : BOOLEAN,         \* revision differs from reconciledRevision
    moved   : BOOLEAN,         \* revision moved since the flush captured it
    pump    : {"idle", "timer", "reconcile", "drain", "update"},
    drained : 0 .. BatchSize ]

NewSupervisor ==
  [on |-> FALSE, pending |-> {}, dirty |-> TRUE, moved |-> FALSE, pump |-> "idle", drained |-> 0]

(* A notice names one note, two for a rename, or a folder. *)
Notices == [paths : SUBSET Paths, folder : BOOLEAN, v : Versions]

Connected == {s \in Streams : link[s] = "ready"}

(* Types.                                                                  *)
TypeOK ==
  /\ vault \in [Paths -> Notes]
  /\ rows \in [Paths -> Notes]
  /\ cache \in Caches
  /\ writes \in Seq(Work) /\ Len(writes) <= MaxWrites
  /\ scan \in [on : BOOLEAN, force : BOOLEAN, listed : BOOLEAN, todo : SUBSET Paths, failed : BOOLEAN]
  /\ DOMAIN held \subseteq Paths /\ \A p \in DOMAIN held : held[p] \in Notes
  /\ faults \in 0 .. MaxFaults
  /\ sup \in Supervisors
  /\ link \in [Streams -> {"down", "opening", "ready"}]
  /\ subscribed \in [Streams -> BOOLEAN]
  /\ transit \in [Streams -> Seq(Notices)]
  /\ told \in [Paths -> Versions]

(* A process starts on a store that an earlier one completed or on an      *)
(* empty one, and builds the cache when it is not ready.                   *)
Init ==
  /\ vault \in [Paths -> {[v |-> 0, there |-> TRUE, stamp |-> 0]}]
  /\ rows \in { vault, [p \in Paths |-> [v |-> 0, there |-> FALSE, stamp |-> 0]] }
  /\ \E state \in {"complete", "none"} :
       /\ state = "complete" <=> rows = vault
       /\ LET began == IF state = "complete" THEN <<Loaded(state), <<>>>>
                       ELSE Refreshed(Loaded(state), <<>>, TRUE)
          IN  cache = began[1] /\ writes = began[2]
  /\ scan = NoScan /\ held = <<>>
  /\ faults = 0
  /\ sup = NewSupervisor
  /\ link = [s \in Streams |-> "down"]
  /\ subscribed = [s \in Streams |-> FALSE]
  /\ transit = [s \in Streams |-> <<>>]
  /\ told = [p \in Paths |-> 0]

-----------------------------------------------------------------------------
(* The vault, edited in Obsidian or on disk.  Every edit sends a notice on *)
(* one stream, which only a subscriber of that stream gets.                *)

Sent(n) ==
  \E s \in Streams :
    transit' = IF subscribed[s] THEN [transit EXCEPT ![s] = Append(@, n)] ELSE transit

NoteOf(v, there, stamp) == [v |-> v, there |-> there, stamp |-> stamp]

Edited(changes, folder) ==
  /\ vault' = [p \in Paths |-> IF p \in DOMAIN changes THEN changes[p] ELSE vault[p]]
  /\ Sent([paths |-> DOMAIN changes, folder |-> folder, v |-> NextVersion])

(* A note is created, deleted or modified, the latter perhaps without a    *)
(* change of mtime and size.                                               *)
EditsOf(p) ==
  {NoteOf(NextVersion, TRUE, stamp) : stamp \in {vault[p].stamp, NextVersion}}
    \cup {NoteOf(NextVersion, FALSE, NextVersion)}

EditNote(p) ==
  /\ MayBeEdited
  /\ \E new \in EditsOf(p) :
       /\ new.there \/ vault[p].there
       /\ Edited([q \in {p} |-> new], FALSE)
  /\ UNCHANGED <<rows, cache, writes, scan, held, faults, sup, link, subscribed, told>>

RenameNote(p, q) ==
  /\ MayBeEdited
  /\ vault[p].there /\ ~vault[q].there
  /\ Edited([x \in {p, q} |-> NoteOf(NextVersion, x = q, IF x = q THEN vault[p].stamp ELSE NextVersion)], FALSE)
  /\ UNCHANGED <<rows, cache, writes, scan, held, faults, sup, link, subscribed, told>>

(* A folder with every note goes or comes back: one notice for them all. *)
EditFolder ==
  /\ MayBeEdited
  /\ \E there \in BOOLEAN :
       Edited([p \in Paths |->
                 NoteOf(NextVersion, there, IF there THEN vault[p].stamp ELSE NextVersion)], TRUE)
  /\ UNCHANGED <<rows, cache, writes, scan, held, faults, sup, link, subscribed, told>>

(* A tool of this server writes a note and then refreshes its row. *)
ToolWrites(p) ==
  /\ MayBeEdited
  /\ Edited([q \in {p} |-> NoteOf(NextVersion, TRUE, NextVersion)], FALSE)
  /\ IF QueueIsFull
     THEN cache' = MarkUncertain(cache) /\ UNCHANGED writes
     ELSE /\ writes' = Append(writes, [kind |-> "update", path |-> p, by |-> "tool"])
          /\ UNCHANGED cache
  /\ UNCHANGED <<rows, scan, held, faults, sup, link, subscribed, told>>

-----------------------------------------------------------------------------
(* The supervisor's methods, on pairs of its state and the cache. *)

(* A faulty timer that is set for notes only. *)
ScheduledForNotes(x) ==
  IF x[1].on /\ x[1].pump = "idle" /\ x[1].pending # {}
  THEN <<[x[1] EXCEPT !.pump = "timer"], x[2]>> ELSE x

(* schedule(). *)
Scheduled(x) ==
  IF x[1].on /\ x[1].pump = "idle" /\ (x[1].pending # {} \/ x[1].dirty)
  THEN <<[x[1] EXCEPT !.pump = "timer"], x[2]>> ELSE x

RequestReconciliation(x) ==
  Scheduled(<<[x[1] EXCEPT !.dirty = TRUE, !.moved = TRUE], MarkUncertain(x[2])>>)

(* receive(), for one note. *)
Hinted(x, p) ==
  LET y == <<x[1], MarkPending(x[2])>>
      z == IF p \notin y[1].pending /\ Cardinality(y[1].pending) >= MaxPending
           THEN RequestReconciliation(<<[y[1] EXCEPT !.pending = {}], y[2]>>) ELSE y
  IN  <<[z[1] EXCEPT !.pending = @ \cup {p}], z[2]>>

(* receive(): a folder asks for a reconciliation, notes are queued one by  *)
(* one; of a rename the old path comes first, here in either order.        *)
ReceivedFrom(x, n) ==
  IF n.folder THEN {RequestReconciliation(x)}
  ELSE {Scheduled(IF n.paths = {p} THEN Hinted(x, p)
                  ELSE Hinted(Hinted(x, p), CHOOSE q \in n.paths : q # p)) : p \in n.paths}

Receive(s) ==
  /\ link[s] = "ready" /\ transit[s] # <<>>
  /\ LET n == Head(transit[s])
     IN  /\ \E x \in ReceivedFrom(<<sup, cache>>, n) : sup' = x[1] /\ cache' = x[2]
         /\ told' = [p \in Paths |-> IF p \in n.paths /\ n.v > told[p] THEN n.v ELSE told[p]]
  /\ transit' = [transit EXCEPT ![s] = Tail(@)]
  /\ UNCHANGED <<vault, rows, writes, scan, held, faults, link, subscribed>>

-----------------------------------------------------------------------------
(* The cache's queue with the supervisor that waits for it. *)

(* flush() after its reconciliation: only the captured revision is covered. *)
Reconciled(ok) == [sup EXCEPT !.pump = "drain", !.dirty = ~ok \/ sup.moved]

(* The pass of the queue's head left the flags c behind. *)
PassEnds(c) ==
  LET next == Looped(c, Tail(writes))
      ok   == next[1].ready /\ ~next[1].error
  IN  /\ writes' = next[2]
      /\ IF next[1].run \/ sup.pump # "reconcile"
         THEN cache' = next[1] /\ UNCHANGED sup
         ELSE /\ cache' = IF ok THEN next[1] ELSE MarkUncertain(next[1])
              /\ sup' = Reconciled(ok)

ScanEnds ==
  /\ scan.on /\ scan' = NoScan
  /\ \/ ScanIsDone /\ UNCHANGED faults /\ PassEnds(Scanned)
     \/ ~scan.listed /\ Fault("list") /\ PassEnds(ScanAborted)
  /\ UNCHANGED <<vault, rows, held>> /\ UNCHANGED eventVars

Updating == writes # <<>> /\ Head(writes).kind = "update"

(* updateFileVerified() at the head of the queue reads its note ...        *)
UpdateReads ==
  /\ Updating /\ NothingHeld
  /\ held' = Holding(Head(writes).path)
  /\ UNCHANGED <<vault, rows, cache, writes, scan, faults, sup>> /\ UNCHANGED eventVars

(* A faulty flush that removes the note when its update returns. *)
AnsweredAndRemoved(job) ==
  IF job.by = "events" THEN [sup EXCEPT !.pump = "drain", !.pending = @ \ {job.path}] ELSE sup

(* The caller of the update at the head gets its answer. *)
Answered(job) == IF job.by = "events" THEN [sup EXCEPT !.pump = "drain"] ELSE sup

(* ... and stores it, ...                                                  *)
UpdateStores ==
  /\ Updating /\ ~NothingHeld
  /\ LET job == Head(writes)
     IN  /\ rows' = [rows EXCEPT ![job.path] = held[job.path]]
         /\ sup' = Answered(job)
  /\ held' = <<>> /\ writes' = Tail(writes)
  /\ UNCHANGED <<vault, cache, scan, faults>> /\ UNCHANGED eventVars

(* ... or fails to read it.                                                *)
UpdateFails ==
  /\ Updating /\ NothingHeld /\ Fault("read")
  /\ LET job == Head(writes)
         x   == <<Answered(job), MarkUncertain(cache)>>
         y   == IF job.by = "events" THEN RequestReconciliation(x) ELSE x
     IN  sup' = y[1] /\ cache' = y[2]
  /\ writes' = Tail(writes)
  /\ UNCHANGED <<vault, rows, scan, held>> /\ UNCHANGED eventVars

-----------------------------------------------------------------------------
(* flush(). *)

(* Reconciliations are spaced, so that notes may come first. *)
TimerFires ==
  /\ sup.pump = "timer"
  /\ \/ /\ sup.dirty
        /\ LET next == Refreshed(cache, writes, TRUE)
           IN  /\ cache' = next[1] /\ writes' = next[2]
               /\ sup' = [sup EXCEPT !.moved = FALSE,
                                     !.pump = IF next[1].run THEN "reconcile" ELSE "drain"]
     \/ /\ ~sup.dirty \/ sup.pending # {}
        /\ sup' = [sup EXCEPT !.pump = "drain"]
        /\ UNCHANGED <<cache, writes>>
  /\ UNCHANGED <<vault, rows, scan, held, faults>> /\ UNCHANGED eventVars

(* Remove before the await: a newer event for this note must stay queued.  *)
Taken(p) == [sup EXCEPT !.pending = @ \ {p}, !.drained = @ + 1]

TakeNext(p) ==
  /\ sup.pump = "drain" /\ p \in sup.pending /\ sup.drained < BatchSize
  /\ IF QueueIsFull
     THEN LET x == RequestReconciliation(<<Taken(p), MarkUncertain(cache)>>)
          IN  sup' = x[1] /\ cache' = x[2] /\ UNCHANGED writes
     ELSE /\ sup' = [Taken(p) EXCEPT !.pump = "update"]
          /\ writes' = Append(writes, [kind |-> "update", path |-> p, by |-> "events"])
          /\ UNCHANGED cache
  /\ UNCHANGED <<vault, rows, scan, held, faults>> /\ UNCHANGED eventVars

FlushEnds ==
  /\ sup.pump = "drain" /\ (sup.pending = {} \/ sup.drained = BatchSize)
  /\ LET c == IF ~sup.dirty /\ sup.pending = {} THEN Settle(cache) ELSE cache
         x == Scheduled(<<[sup EXCEPT !.pump = "idle", !.drained = 0], c>>)
     IN  sup' = x[1] /\ cache' = x[2]
  /\ UNCHANGED <<vault, rows, writes, scan, held, faults>> /\ UNCHANGED eventVars

-----------------------------------------------------------------------------
(* Supervision, streams, timers, tools, restarts. *)

(* The first build returned, or found that another caller runs it. *)
StartEvents ==
  /\ ~sup.on
  /\ sup' = [sup EXCEPT !.on = TRUE]
  /\ UNCHANGED <<vault, rows, cache, writes, scan, held, faults>> /\ UNCHANGED eventVars

(* streamLoop(): a subscription is made and its stream opened, ...         *)
Open(s) ==
  /\ sup.on /\ link[s] = "down"
  /\ link' = [link EXCEPT ![s] = "opening"]
  /\ subscribed' = [subscribed EXCEPT ![s] = TRUE]
  /\ UNCHANGED <<vault, rows, cache, writes, scan, held, faults, sup, transit, told>>

(* A faulty connection that trusts what was reconciled before it. *)
CoveredAlready(x) == x

(* onReady(): nothing is known of what happened before. *)
Covered(x) == RequestReconciliation(x)

(* ... the answer arrives, and what happened before it is unknown; ...     *)
StreamReady(s) ==
  /\ link[s] = "opening"
  /\ link' = [link EXCEPT ![s] = "ready"]
  /\ LET x == Covered(<<sup, cache>>) IN sup' = x[1] /\ cache' = x[2]
  /\ UNCHANGED <<vault, rows, writes, scan, held, faults, subscribed, transit, told>>

(* ... Local REST API stops serving it, with or without what it sent; ...  *)
StreamBreaks(s) ==
  /\ subscribed[s] /\ Fault("stream")
  /\ subscribed' = [subscribed EXCEPT ![s] = FALSE]
  /\ transit' \in {transit, [transit EXCEPT ![s] = <<>>]}
  /\ UNCHANGED <<vault, rows, cache, writes, scan, held, sup, link, told>>

(* ... and the client notices, by the end of it or by its silence. *)
StreamEnds(s) ==
  /\ ~subscribed[s] /\ transit[s] = <<>> /\ link[s] # "down"
  /\ LET x == IF link[s] = "ready" THEN RequestReconciliation(<<sup, cache>>) ELSE <<sup, cache>>
     IN  sup' = x[1] /\ cache' = x[2]
  /\ link' = [link EXCEPT ![s] = "down"]
  /\ UNCHANGED <<vault, rows, writes, scan, held, faults, subscribed, transit, told>>

AsksFor(force, c) ==
  LET next == Refreshed(c, writes, force)
  IN  /\ cache' = next[1] /\ writes' = next[2]
      /\ UNCHANGED <<vault, rows, scan, held, sup>> /\ UNCHANGED eventVars

(* The interval of startPeriodicRefresh(): longer than a pass, mostly. *)
Periodic ==
  /\ sup.on
  /\ IF cache.run THEN Fault("overlap") ELSE UNCHANGED faults
  /\ AsksFor(FALSE, cache)

(* buildVaultCache(), by a tool that needs the cache. *)
Build ==
  /\ ~scan.on /\ (~cache.ready \/ cache.error)
  /\ Fault("tool")
  /\ AsksFor(TRUE, cache)

(* rebuildFromSource(). *)
Rebuild == Fault("tool") /\ AsksFor(TRUE, [cache EXCEPT !.ready = FALSE])

(* The process ends and another one starts on its store. *)
Restart ==
  /\ Fault("restart")
  /\ LET c    == Loaded(cache.state)
         next == IF c.ready /\ ~c.error THEN <<c, <<>>>> ELSE Refreshed(c, <<>>, TRUE)
     IN  cache' = next[1] /\ writes' = next[2]
  /\ scan' = NoScan /\ held' = <<>> /\ sup' = NewSupervisor
  /\ link' = [s \in Streams |-> "down"]
  /\ subscribed' = [s \in Streams |-> FALSE]
  /\ transit' = [s \in Streams |-> <<>>]
  /\ UNCHANGED <<vault, rows, told>>

Scan ==
  /\ ScanStart \/ ScanList \/ \E p \in Paths : ScanNote(p) \/ ScanStore(p)
  /\ UNCHANGED sup /\ UNCHANGED eventVars

Edits == EditFolder \/ \E p \in Paths : EditNote(p) \/ ToolWrites(p) \/ \E q \in Paths : RenameNote(p, q)

Flush == TimerFires \/ FlushEnds \/ \E p \in Paths : TakeNext(p)

Update == UpdateReads \/ UpdateStores \/ UpdateFails

Next ==
  \/ Edits \/ Scan \/ ScanEnds \/ Update \/ Flush
  \/ StartEvents \/ Periodic \/ Build \/ Rebuild \/ Restart
  \/ \E s \in Streams :
       Open(s) \/ StreamReady(s) \/ Receive(s) \/ StreamBreaks(s) \/ StreamEnds(s)

Spec == Init /\ [][Next]_vars

(* Work in the process goes on, timers fire, and streams are retried. *)
FairSpec ==
  /\ Spec
  /\ WF_vars(Scan \/ ScanEnds \/ UpdateReads \/ UpdateStores)
  /\ WF_vars(Flush) /\ WF_vars(StartEvents) /\ WF_vars(Periodic)
  /\ \A s \in Streams : WF_vars(Open(s) \/ StreamReady(s) \/ Receive(s) \/ StreamEnds(s))

-----------------------------------------------------------------------------
(* Properties. *)

NotObserved == {p \in Paths : rows[p].v < told[p]}

(* The store is marked complete only while every note that a received      *)
(* event named was read again since: what a restarted process trusts does  *)
(* not rest on a hint that was taken from the stream and then forgotten,   *)
(* through overflow, a failed update, a full queue or a crash              *)
(* (eventSupervisor.ts receive() and flush(), service.ts settleEventWork()). *)
CompleteMeansObserved == cache.state = "complete" => NotObserved = {}

(* reconciledAndConnected of snapshot(). *)
Fresh ==
  /\ sup.on /\ Connected = Streams
  /\ ~sup.dirty /\ sup.pending = {} /\ sup.pump = "idle"

(* A supervisor that reports itself reconciled and connected is right: when *)
(* the streams really stand and nothing is in flight on them, every row is  *)
(* the note as it is in the vault, also after edits that left mtime and     *)
(* size alone and edits in the gap before a stream stood.                  *)
FreshReportIsTrue ==
  (Fresh /\ \A s \in Streams : subscribed[s] /\ transit[s] = <<>>) => \A p \in Paths : Current(p)

(* Once edits and failures end the cache holds the vault for good and says *)
(* that it is ready, over and over (every periodic pass closes it again).  *)
CacheConverges == <>[](\A p \in Paths : Current(p)) /\ []<>PubliclyReady

=============================================================================

------------------------------ MODULE VaultCache ------------------------------
(***************************************************************************)
(* The vault cache (vaultCache/service.ts): rows and a refresh state in    *)
(* SQLite, readiness flags in memory, and one queue through which scans    *)
(* and single-note updates write.  Methods without an await are operators  *)
(* on the record cache; a scan is cut where the code awaits its source.    *)
(***************************************************************************)
EXTENDS Naturals, Sequences, FiniteSets

CONSTANTS
  Paths,       \* Markdown notes that the cache selects
  MaxVersion,  \* bound on the edits of the vault
  MaxWrites,   \* bound of the write queue (1024 in the code)
  Faults,      \* what may disturb an instance
  MaxFaults    \* bound on such disturbances

ASSUME CacheAssumption ==
  /\ MaxVersion \in Nat /\ MaxWrites \in Nat \ {0} /\ MaxFaults \in Nat
  /\ Faults \subseteq {"read", "list", "stream", "overlap", "tool", "restart"}

VARIABLES
  vault,   \* per note: the version on disk, whether it exists, its mtime and size
  rows,    \* per note: what file_cache holds, or that it was seen to be absent
  cache,   \* refresh_state and the flags of the service
  writes,  \* work behind cacheWriteTail
  scan,    \* the scan at the head of that work, once it started
  held,    \* notes read and not yet stored by the work at the head
  faults   \* failures so far

cacheVars == <<vault, rows, cache, writes, scan, held, faults>>

Versions == 0 .. MaxVersion

Notes == [v : Versions, there : BOOLEAN, stamp : Versions]

RefreshStates ==
  {"none", "complete", "building", "uncertain", "pending-events", "incomplete"}

Caches ==
  [ state     : RefreshStates,  \* durable
    ready     : BOOLEAN,        \* isCacheReady
    error     : BOOLEAN,        \* lastRefreshError is set
    eventWork : BOOLEAN,        \* eventWorkPending
    requested : BOOLEAN,        \* refreshRequested
    force     : BOOLEAN,        \* forceRefreshRequested
    run       : BOOLEAN,        \* refreshRun is set
    doubted   : BOOLEAN ]       \* uncertaintyGeneration moved since the scan began

Work == [kind : {"refresh"}, force : BOOLEAN]
          \cup [kind : {"update"}, path : Paths, by : {"events", "tool"}]

NoScan == [on |-> FALSE, force |-> FALSE, listed |-> FALSE, todo |-> {}, failed |-> FALSE]

(* What a new process makes of the state that the last one left; without   *)
(* a state there are no rows either.                                       *)
Loaded(state) ==
  [ state |-> state, ready |-> state = "complete", error |-> state \notin {"complete", "none"},
    eventWork |-> FALSE, requested |-> FALSE, force |-> FALSE, run |-> FALSE,
    doubted |-> FALSE ]

-----------------------------------------------------------------------------
(* Methods of the service. *)

MarkUncertain(c) == [c EXCEPT !.error = TRUE, !.doubted = TRUE, !.state = "uncertain"]

(* A faulty mark that is kept in memory only. *)
MarkPendingInMemory(c) == [c EXCEPT !.eventWork = TRUE]

MarkPending(c) ==
  IF c.eventWork THEN c ELSE [c EXCEPT !.eventWork = TRUE, !.state = "pending-events"]

Settle(c) ==
  [c EXCEPT !.eventWork = FALSE,
            !.state = IF ~scan.on /\ ~c.run /\ c.ready /\ ~c.error THEN "complete" ELSE @]

PubliclyReady ==
  /\ cache.ready /\ ~cache.error /\ ~cache.eventWork
  /\ ~scan.on /\ ~cache.run /\ ~cache.requested

(* The loop of refreshCache(): one more pass, or the end of the run.  A    *)
(* full write queue ends the pass before it starts.  State is a pair of    *)
(* the cache and its work.                                                 *)
Looped(c, w) ==
  IF ~c.requested THEN <<[c EXCEPT !.run = FALSE], w>>
  ELSE LET next == [c EXCEPT !.requested = FALSE, !.force = FALSE]
       IN  IF Len(w) >= MaxWrites THEN <<[MarkUncertain(next) EXCEPT !.run = FALSE], w>>
           ELSE <<[next EXCEPT !.run = TRUE],
                  Append(w, [kind |-> "refresh", force |-> c.force])>>

(* refreshCache(): joins the run under way or starts one. *)
Refreshed(c, w, force) ==
  LET asked == [c EXCEPT !.requested = TRUE, !.force = @ \/ force]
  IN  IF c.run THEN <<asked, w>> ELSE Looped(asked, w)

(* A faulty bound that is one too high. *)
QueueIsOverfull == Len(writes) > MaxWrites

(* updateFileVerified() up to its await: a full queue is an answer.        *)
QueueIsFull == Len(writes) >= MaxWrites

(* Edits are numbered, so far up to m or below. *)
Reached(m) == \A p \in Paths : vault[p].v <= m

NextVersion == 1 + CHOOSE m \in Versions : /\ Reached(m)
                                           /\ \A n \in Versions : Reached(n) => m <= n

(* With the disturbances, edits stay below one bound. *)
MayBeEdited == NextVersion + faults <= MaxVersion

(* A failed read or listing, a broken stream, a restart; or what keeps the *)
(* cache busy, a request of a tool or a period that is too short.          *)
Fault(kind) ==
  /\ kind \in Faults /\ faults < MaxFaults /\ MayBeEdited
  /\ faults' = faults + 1

-----------------------------------------------------------------------------
(* performRefresh(). *)

Scanning == writes # <<>> /\ Head(writes).kind = "refresh"

(* A faulty scan that trusts its metadata also after a doubt. *)
MustReadAllAsAsked(job) == job.force \/ ~cache.ready

(* Doubts are not discharged by an mtime and size scan. *)
MustReadAll(job) ==
  \/ job.force
  \/ cache.error
  \/ ~cache.ready
  \/ cache.state \notin {"complete", "pending-events"}

ScanStart ==
  /\ Scanning /\ ~scan.on
  /\ LET force == MustReadAll(Head(writes))
     IN  /\ scan' = [NoScan EXCEPT !.on = TRUE, !.force = force]
         /\ cache' = [cache EXCEPT !.error = FALSE, !.ready = @ /\ ~force,
                                   !.state = "building", !.doubted = FALSE]
  /\ UNCHANGED <<vault, rows, writes, held, faults>>

(* The inventory: rows of notes that are gone are deleted.                 *)
ScanList ==
  /\ scan.on /\ ~scan.listed
  /\ rows' = [p \in Paths |-> IF vault[p].there THEN rows[p] ELSE vault[p]]
  /\ scan' = [scan EXCEPT !.listed = TRUE, !.todo = {p \in Paths : vault[p].there}]
  /\ UNCHANGED <<vault, cache, writes, held, faults>>

(* A row is kept when mtime and size did not move, unless all are reread. *)
MustRead(p) ==
  scan.force \/ ~rows[p].there \/ rows[p].stamp # vault[p].stamp

Holding(p) == [q \in DOMAIN held \cup {p} |-> IF q = p THEN vault[p] ELSE held[q]]

Released(p) == [q \in DOMAIN held \ {p} |-> held[q]]

(* A note of the inventory is read, skipped as unchanged, or fails: it is  *)
(* gone, or the read does.                                                 *)
ScanNote(p) ==
  /\ p \in scan.todo
  /\ \/ /\ vault[p].there
        /\ held' = IF MustRead(p) THEN Holding(p) ELSE held
        /\ scan' = [scan EXCEPT !.todo = @ \ {p}]
        /\ UNCHANGED faults
     \/ /\ IF vault[p].there THEN Fault("read") ELSE UNCHANGED faults
        /\ scan' = [scan EXCEPT !.todo = @ \ {p}, !.failed = TRUE]
        /\ UNCHANGED held
  /\ UNCHANGED <<vault, rows, cache, writes>>

(* upsertRow(), when the read has returned. *)
ScanStore(p) ==
  /\ scan.on /\ p \in DOMAIN held
  /\ rows' = [rows EXCEPT ![p] = held[p]]
  /\ held' = Released(p)
  /\ UNCHANGED <<vault, cache, writes, scan, faults>>

(* Every read of a row that began has been stored. *)
NothingHeld == DOMAIN held = {}

ScanIsDone == scan.on /\ scan.listed /\ scan.todo = {} /\ NothingHeld

(* A faulty end of the scan that forgets what arrived while it ran. *)
ScannedRegardless ==
  LET good == ~scan.failed
  IN  [cache EXCEPT !.error = ~good, !.ready = good,
                    !.state = IF good THEN "complete" ELSE "incomplete"]

(* The flags when every note was visited. *)
Scanned ==
  LET good == ~scan.failed /\ ~cache.doubted
  IN  [cache EXCEPT !.error = ~good, !.ready = good,
                    !.state = IF ~good THEN "incomplete"
                              ELSE IF cache.eventWork THEN "pending-events" ELSE "complete"]

(* The inventory could not be taken. *)
ScanAborted == [cache EXCEPT !.error = TRUE, !.ready = FALSE, !.state = "incomplete"]

(* The row says what the vault holds. *)
Current(p) == rows[p].v = vault[p].v /\ rows[p].there = vault[p].there

=============================================================================

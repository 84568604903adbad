--------------------------- MODULE CacheEventsProofs ---------------------------
(***************************************************************************)
(* The safety properties of the vault cache and its event supervisor, for  *)
(* any number of notes and streams and any bounds.                         *)
(***************************************************************************)
EXTENDS CacheEvents, WellFoundedInduction, TLAPS

-----------------------------------------------------------------------------
(* The invariant. *)

IsUpdate(job) == job.kind = "update" /\ job.by = "events"

(* A pass belongs to a run and an update of the supervisor to a flush that *)
(* waits for it, each alone of its kind in the queue.                      *)
Orderly(w, run, pump) ==
  /\ \A k \in DOMAIN w : w[k].kind = "refresh" => run
  /\ \A k, l \in DOMAIN w : w[k].kind = "refresh" /\ w[l].kind = "refresh" => k = l
  /\ \A k \in DOMAIN w : IsUpdate(w[k]) => pump = "update"
  /\ \A k, l \in DOMAIN w : IsUpdate(w[k]) /\ IsUpdate(w[l]) => k = l

(* What was read belongs to the work at the head.                          *)
QueueInv ==
  /\ Orderly(writes, cache.run, sup.pump)
  /\ scan.on => Scanning
  /\ ~NothingHeld /\ ~scan.on => Updating /\ DOMAIN held = {Head(writes).path}
  /\ scan.on /\ ~scan.listed => NothingHeld
  /\ scan.todo # {} => scan.on /\ scan.listed

(* Notices name what was edited; nobody knows of an edit to come.          *)
NoticeInv ==
  /\ \A p \in Paths : rows[p].v <= vault[p].v
  /\ \A p \in DOMAIN held : held[p].v <= vault[p].v
  /\ \A s \in Streams : \A k \in DOMAIN transit[s] :
       /\ \/ transit[s][k].folder /\ transit[s][k].paths = Paths
          \/ \E p, q \in Paths : transit[s][k].paths = {p, q}
       /\ \A p \in transit[s][k].paths : transit[s][k].v <= vault[p].v
  /\ \A p \in Paths : told[p] <= vault[p].v

(* The record r of a note does not show version w, or shows the newest one *)
(* wrongly.                                                                *)
Behind(r, p, w) ==
  \/ r.v < w
  \/ r.v = vault[p].v /\ r.there # vault[p].there

Shown(p) == {w \in Versions : w <= vault[p].v}

(* The note will be read by an update, or its edit is not known yet: the   *)
(* notice is on its way or was lost with a stream.                         *)
Gap == \E s \in Streams : link[s] # "ready" \/ ~subscribed[s]

InTransit(p) == \E s \in Streams : \E k \in DOMAIN transit[s] : p \in transit[s][k].paths

Unheard(p, w) == told[p] < w /\ (InTransit(p) \/ Gap)

Asked(p) ==
  \/ p \in sup.pending
  \/ \E k \in DOMAIN writes : IsUpdate(writes[k]) /\ writes[k].path = p

AskedAgain(p) ==
  \/ p \in sup.pending
  \/ \E k \in DOMAIN writes :
       /\ IsUpdate(writes[k]) /\ writes[k].path = p
       /\ k = 1 => NothingHeld

(* The pass under way or the next one will not end well without reading p. *)
Doubted(p) ==
  \/ ~scan.on /\ (cache.error \/ ~cache.ready)
  \/ scan.on /\ scan.force /\ (~scan.listed \/ p \in scan.todo)
  \/ scan.on /\ (scan.failed \/ cache.doubted)

(* ... or a later one of the same run.                                     *)
ForcedWork ==
  \E k \in DOMAIN writes :
    /\ writes[k].kind = "refresh" /\ writes[k].force
    /\ k = 1 => ~scan.on

Forced(p) == Doubted(p) \/ (cache.requested /\ cache.force) \/ ForcedWork

(* A row that is behind is known to be so: a reconciliation is due, an     *)
(* update is, or the supervisor has not heard of the edit.  What was read  *)
(* and not yet stored is the row to come.                                  *)
AwareInv ==
  \A p \in Paths : \A w \in Shown(p) :
    /\ Behind(rows[p], p, w) => sup.dirty \/ Asked(p) \/ Unheard(p, w)
    /\ p \in DOMAIN held /\ Behind(held[p], p, w) =>
         sup.dirty \/ AskedAgain(p) \/ Unheard(p, w)

(* A reconciliation that nothing disturbed will read what it has to.       *)
ReconcileInv ==
  sup.pump = "reconcile" /\ ~sup.moved =>
    \A p \in Paths : \A w \in Shown(p) :
      /\ Behind(rows[p], p, w) =>
           p \in sup.pending \/ Unheard(p, w) \/ Forced(p) \/ (scan.on /\ p \in DOMAIN held)
      /\ p \in DOMAIN held /\ Behind(held[p], p, w) =>
           p \in sup.pending \/ Unheard(p, w) \/ Forced(p)

(* The store says complete only of what was observed, and no scan will     *)
(* say so before it was.                                                   *)
CompleteInv ==
  /\ cache.eventWork => cache.state # "complete"
  /\ \A p \in Paths :
       /\ rows[p].v < told[p] =>
            /\ cache.state # "complete"
            /\ \/ cache.eventWork \/ Doubted(p)
               \/ scan.on /\ p \in DOMAIN held /\ held[p].v >= told[p]
       /\ p \in DOMAIN held /\ held[p].v < told[p] =>
            cache.state # "complete" /\ (cache.eventWork \/ Doubted(p))

SafeInv == QueueInv /\ NoticeInv /\ AwareInv /\ ReconcileInv /\ CompleteInv

CacheInv == TypeOK /\ SafeInv

-----------------------------------------------------------------------------
(* Types. *)

LEMMA LeastNumber ==
  ASSUME NEW S \in SUBSET Nat, S # {}
  PROVE  \E m \in S : \A n \in S : m <= n
<1>. DEFINE R == {ss \in Nat \X Nat : ss[1] < ss[2]}
<1>1. IsWellFoundedOn(R, Nat)
  BY NatLessThanWellFounded DEF OpToRel
<1>2. PICK m \in S : \A n \in S : ~ (<<n, m>> \in R)
  BY <1>1, WFMin
<1>3. \A n \in S : ~ (n < m)
  BY <1>2
<1>. QED
  BY <1>3

(* The next edit has a number of its own. *)
LEMMA NextVersionIsNew ==
  ASSUME vault \in [Paths -> Notes]
  PROVE  /\ NextVersion \in Nat
         /\ \A p \in Paths : vault[p].v < NextVersion
         /\ NextVersion <= MaxVersion => NextVersion \in Versions
<1>. DEFINE S == {n \in Versions : Reached(n)}
<1>1. MaxVersion \in Nat /\ Versions \subseteq Nat /\ MaxVersion \in Versions
  BY CacheAssumption DEF Versions
<1>2. Reached(MaxVersion)
  BY <1>1 DEF Reached, Notes, Versions
<1>3. S \in SUBSET Nat /\ S # {}
  BY <1>1, <1>2
<1>4. \E m \in S : \A n \in S : m <= n
  BY <1>3, LeastNumber
<1>5. \E m \in Versions : Reached(m) /\ \A n \in Versions : Reached(n) => m <= n
  BY <1>4
<1>6. PICK m \in Versions : NextVersion = 1 + m /\ Reached(m)
  BY <1>5 DEF NextVersion
<1>7. m \in Nat /\ \A p \in Paths : vault[p].v \in Nat /\ vault[p].v <= m
  BY <1>1, <1>6 DEF Reached, Notes
<1>. QED
  BY <1>1, <1>6, <1>7 DEF Versions

LEMMA EditIsNew ==
  ASSUME TypeOK, MayBeEdited
  PROVE  /\ NextVersion \in Versions
         /\ \A p \in Paths : vault[p].v < NextVersion
<1>1. NextVersion <= MaxVersion
  BY NextVersionIsNew, CacheAssumption DEF TypeOK, MayBeEdited
<1>. QED
  BY <1>1, NextVersionIsNew DEF TypeOK

(* The queue and the flags that run it. *)
Queues == {w \in Seq(Work) : Len(w) <= MaxWrites}

LEMMA AppendTypes ==
  ASSUME NEW w \in Queues, NEW job \in Work, Len(w) < MaxWrites
  PROVE  Append(w, job) \in Queues
  BY CacheAssumption DEF Queues

LEMMA FlagTypes ==
  ASSUME NEW c \in Caches
  PROVE  MarkUncertain(c) \in Caches /\ MarkPending(c) \in Caches
  BY DEF Caches, RefreshStates, MarkUncertain, MarkPending

LEMMA LoadedTypes ==
  ASSUME NEW state \in RefreshStates
  PROVE  Loaded(state) \in Caches
  BY DEF Caches, RefreshStates, Loaded

LEMMA LoopedTypes ==
  ASSUME NEW c \in Caches, NEW w \in Queues
  PROVE  Looped(c, w)[1] \in Caches /\ Looped(c, w)[2] \in Queues
<1>. DEFINE next == [c EXCEPT !.requested = FALSE, !.force = FALSE]
            job  == [kind |-> "refresh", force |-> c.force]
<1>1. [c EXCEPT !.run = FALSE] \in Caches
  BY DEF Caches
<1>2. [next EXCEPT !.run = TRUE] \in Caches
  BY DEF Caches
<1>3. [MarkUncertain(next) EXCEPT !.run = FALSE] \in Caches
  BY DEF Caches, MarkUncertain, RefreshStates
<1>4. job \in Work
  BY DEF Work, Caches
<1>5. Len(w) < MaxWrites => Append(w, job) \in Queues
  BY <1>4, CacheAssumption DEF Queues
<1>6. Len(w) \in Nat /\ MaxWrites \in Nat
  BY CacheAssumption DEF Queues
<1>7. CASE ~c.requested
  BY <1>1, <1>7 DEF Looped
<1>8. CASE c.requested /\ Len(w) >= MaxWrites
  BY <1>3, <1>8 DEF Looped
<1>9. CASE c.requested /\ ~(Len(w) >= MaxWrites)
  BY <1>2, <1>5, <1>6, <1>9 DEF Looped
<1>. QED
  BY <1>7, <1>8, <1>9

LEMMA RefreshedTypes ==
  ASSUME NEW c \in Caches, NEW w \in Queues, NEW force \in BOOLEAN
  PROVE  Refreshed(c, w, force)[1] \in Caches /\ Refreshed(c, w, force)[2] \in Queues
<1>. DEFINE asked == [c EXCEPT !.requested = TRUE, !.force = @ \/ force]
<1>1. asked \in Caches
  BY DEF Caches
<1>2. CASE c.run
  BY <1>1, <1>2 DEF Refreshed
<1>3. CASE ~c.run
  <2>1. Refreshed(c, w, force) = Looped(asked, w)
    BY <1>3 DEF Refreshed
  <2>. HIDE DEF asked
  <2>. QED
    BY <1>1, <2>1, LoopedTypes
<1>. QED
  BY <1>2, <1>3

(* The supervisor's methods. *)
Pairs == Supervisors \X Caches

LEMMA ScheduledTypes ==
  ASSUME NEW x \in Pairs
  PROVE  Scheduled(x) \in Pairs
<1>1. x[1] \in Supervisors /\ x[2] \in Caches /\ x = <<x[1], x[2]>>
  BY DEF Pairs
<1>2. [x[1] EXCEPT !.pump = "timer"] \in Supervisors
  BY <1>1 DEF Supervisors
<1>. QED
  BY <1>1, <1>2 DEF Scheduled, Pairs

LEMMA ReconciliationTypes ==
  ASSUME NEW x \in Pairs
  PROVE  RequestReconciliation(x) \in Pairs
<1>1. x[1] \in Supervisors /\ x[2] \in Caches
  BY DEF Pairs
<1>2. [x[1] EXCEPT !.dirty = TRUE, !.moved = TRUE] \in Supervisors
  BY <1>1 DEF Supervisors
<1>3. MarkUncertain(x[2]) \in Caches
  BY <1>1, FlagTypes
<1>4. <<[x[1] EXCEPT !.dirty = TRUE, !.moved = TRUE], MarkUncertain(x[2])>> \in Pairs
  BY <1>2, <1>3 DEF Pairs
<1>. QED
  BY <1>4, ScheduledTypes DEF RequestReconciliation

LEMMA HintedTypes ==
  ASSUME NEW x \in Pairs, NEW p \in Paths
  PROVE  Hinted(x, p) \in Pairs
<1>. DEFINE y == <<x[1], MarkPending(x[2])>>
            z == IF p \notin y[1].pending /\ Cardinality(y[1].pending) >= MaxPending
                 THEN RequestReconciliation(<<[y[1] EXCEPT !.pending = {}], y[2]>>) ELSE y
<1>1. x[1] \in Supervisors /\ x[2] \in Caches
  BY DEF Pairs
<1>2. y \in Pairs
  BY <1>1, FlagTypes DEF Pairs
<1>3. <<[y[1] EXCEPT !.pending = {}], y[2]>> \in Pairs
  BY <1>2 DEF Pairs, Supervisors
<1>4. z \in Pairs
  BY <1>2, <1>3, ReconciliationTypes
<1>5. Hinted(x, p) = <<[z[1] EXCEPT !.pending = @ \cup {p}], z[2]>>
  BY DEF Hinted
<1>. HIDE DEF z
<1>6. z[1] \in Supervisors /\ z[2] \in Caches
  BY <1>4 DEF Pairs
<1>7. [z[1] EXCEPT !.pending = @ \cup {p}] \in Supervisors
  BY <1>6 DEF Supervisors
<1>. QED
  BY <1>5, <1>6, <1>7 DEF Pairs

(* A notice that the vault sends. *)
Sensible(n) ==
  \/ n.folder /\ n.paths = Paths
  \/ \E p, q \in Paths : n.paths = {p, q}

LEMMA ReceivedTypes ==
  ASSUME NEW x \in Pairs, NEW n, Sensible(n), NEW y \in ReceivedFrom(x, n)
  PROVE  y \in Pairs
<1>1. CASE n.folder
  BY <1>1, ReconciliationTypes DEF ReceivedFrom
<1>2. CASE ~n.folder
  <2>1. PICK p \in n.paths :
          y = Scheduled(IF n.paths = {p} THEN Hinted(x, p)
                        ELSE Hinted(Hinted(x, p), CHOOSE q \in n.paths : q # p))
    BY <1>2 DEF ReceivedFrom
  <2>2. n.paths \subseteq Paths
    BY <1>2 DEF Sensible
  <2>3. Hinted(x, p) \in Pairs
    BY <2>1, <2>2, HintedTypes
  <2>4. CASE n.paths = {p}
    BY <2>1, <2>3, <2>4, ScheduledTypes
  <2>5. CASE n.paths # {p}
    <3>. DEFINE q == CHOOSE q \in n.paths : q # p
    <3>1. q \in Paths
      BY <2>1, <2>2, <2>5
    <3>2. Hinted(Hinted(x, p), q) \in Pairs
      BY <2>3, <3>1, HintedTypes
    <3>. QED
      BY <2>1, <2>5, <3>2, ScheduledTypes
  <2>. QED
    BY <2>4, <2>5
<1>. QED
  BY <1>1, <1>2

-----------------------------------------------------------------------------
(* Every step keeps the types. *)

VaultTypes == vault \in [Paths -> Notes] /\ rows \in [Paths -> Notes]

HeldTypes == DOMAIN held \subseteq Paths /\ \A p \in DOMAIN held : held[p] \in Notes

ScanTypes ==
  scan \in [on : BOOLEAN, force : BOOLEAN, listed : BOOLEAN, todo : SUBSET Paths, failed : BOOLEAN]

StreamTypes ==
  /\ link \in [Streams -> {"down", "opening", "ready"}]
  /\ subscribed \in [Streams -> BOOLEAN]
  /\ transit \in [Streams -> Seq(Notices)]
  /\ told \in [Paths -> Versions]

WorkTypes == cache \in Caches /\ writes \in Queues /\ sup \in Supervisors

LEMMA TypesAreParts ==
  TypeOK <=> /\ VaultTypes /\ HeldTypes /\ ScanTypes /\ StreamTypes /\ WorkTypes
             /\ faults \in 0 .. MaxFaults
  BY DEF TypeOK, VaultTypes, HeldTypes, ScanTypes, StreamTypes, WorkTypes, Queues

LEMMA FaultTypes ==
  ASSUME faults \in 0 .. MaxFaults, NEW kind, Fault(kind)
  PROVE  faults' \in 0 .. MaxFaults
  BY CacheAssumption DEF Fault

LEMMA EditTypes ==
  ASSUME TypeOK, Edits
  PROVE  TypeOK'
<1>1. MayBeEdited
  BY DEF Edits, EditFolder, EditNote, ToolWrites, RenameNote
<1>2. NextVersion \in Versions
  BY <1>1, EditIsNew
<1>3. \A p \in Paths : vault[p] \in Notes
  BY DEF TypeOK
<1>4. \A there \in BOOLEAN, stamp \in Versions : NoteOf(NextVersion, there, stamp) \in Notes
  BY <1>2 DEF NoteOf, Notes
<1>5. ASSUME NEW n \in Notices, Sent(n)
      PROVE  transit' \in [Streams -> Seq(Notices)]
  BY <1>5 DEF Sent, TypeOK
<1>6. ASSUME NEW changes, DOMAIN changes \subseteq Paths,
             \A p \in DOMAIN changes : changes[p] \in Notes,
             NEW folder \in BOOLEAN, Edited(changes, folder)
      PROVE  vault' \in [Paths -> Notes] /\ transit' \in [Streams -> Seq(Notices)]
  <2>1. [paths |-> DOMAIN changes, folder |-> folder, v |-> NextVersion] \in Notices
    BY <1>2, <1>6 DEF Notices
  <2>. QED
    BY <1>5, <1>3, <1>6, <2>1 DEF Edited
<1>7. CASE EditFolder
  <2>1. PICK there \in BOOLEAN :
          Edited([p \in Paths |->
                   NoteOf(NextVersion, there, IF there THEN vault[p].stamp ELSE NextVersion)], TRUE)
    BY <1>7 DEF EditFolder
  <2>2. \A p \in Paths : NoteOf(NextVersion, there, IF there THEN vault[p].stamp ELSE NextVersion) \in Notes
    BY <1>2, <1>3, <1>4 DEF Notes
  <2>3. vault' \in [Paths -> Notes] /\ transit' \in [Streams -> Seq(Notices)]
    BY <1>6, <2>1, <2>2
  <2>. QED
    BY <1>7, <2>3 DEF EditFolder, TypeOK
<1>8. ASSUME NEW p \in Paths, EditNote(p)
      PROVE  TypeOK'
  <2>1. PICK new \in EditsOf(p) : Edited([q \in {p} |-> new], FALSE)
    BY <1>8 DEF EditNote
  <2>2. new \in Notes
    BY <1>2, <1>3, <1>4 DEF EditsOf, Notes
  <2>3. vault' \in [Paths -> Notes] /\ transit' \in [Streams -> Seq(Notices)]
    BY <1>6, <2>1, <2>2
  <2>. QED
    BY <1>8, <2>3 DEF EditNote, TypeOK
<1>9. ASSUME NEW p \in Paths, ToolWrites(p)
      PROVE  TypeOK'
  <2>1. vault' \in [Paths -> Notes] /\ transit' \in [Streams -> Seq(Notices)]
    BY <1>2, <1>4, <1>6, <1>9 DEF ToolWrites
  <2>2. [kind |-> "update", path |-> p, by |-> "tool"] \in Work
    BY DEF Work
  <2>3. cache' \in Caches /\ writes' \in Seq(Work) /\ Len(writes') <= MaxWrites
    <3>1. CASE QueueIsFull
      BY <1>9, <3>1, FlagTypes DEF ToolWrites, TypeOK
    <3>2. CASE ~QueueIsFull
      <4>1. writes \in Queues /\ Len(writes) < MaxWrites
        BY <3>2, CacheAssumption DEF QueueIsFull, TypeOK, Queues
      <4>2. writes' \in Queues /\ cache' = cache
        BY <1>9, <2>2, <3>2, <4>1, AppendTypes DEF ToolWrites
      <4>. QED
        BY <4>2 DEF Queues, TypeOK
    <3>. QED
      BY <3>1, <3>2
  <2>. QED
    BY <1>9, <2>1, <2>3 DEF ToolWrites, TypeOK
<1>10. ASSUME NEW p \in Paths, NEW q \in Paths, RenameNote(p, q)
       PROVE  TypeOK'
  <2>1. Edited([x \in {p, q} |-> NoteOf(NextVersion, x = q, IF x = q THEN vault[p].stamp ELSE NextVersion)], FALSE)
    BY <1>10 DEF RenameNote
  <2>2. \A x \in {p, q} : NoteOf(NextVersion, x = q, IF x = q THEN vault[p].stamp ELSE NextVersion) \in Notes
    BY <1>2, <1>3, <1>4 DEF Notes
  <2>3. vault' \in [Paths -> Notes] /\ transit' \in [Streams -> Seq(Notices)]
    BY <1>6, <2>1, <2>2
  <2>. QED
    BY <1>10, <2>3 DEF RenameNote, TypeOK
<1>. QED
  BY <1>7, <1>8, <1>9, <1>10 DEF Edits

LEMMA ScanStepTypes ==
  ASSUME TypeOK, QueueInv, Scan
  PROVE  TypeOK'
<1>1. UNCHANGED <<sup, link, subscribed, transit, told, vault, writes>>
  BY DEF Scan, eventVars, ScanStart, ScanList, ScanNote, ScanStore
<1>2. CASE ScanStart
  <2>1. MustReadAll(Head(writes)) \in BOOLEAN
    BY <1>2 DEF ScanStart, Scanning, MustReadAll, TypeOK, Work
  <2>2. cache' \in Caches
    BY <1>2 DEF ScanStart, TypeOK, Caches, RefreshStates
  <2>3. ScanTypes'
    BY <1>2, <2>1 DEF ScanStart, ScanTypes, NoScan, MustReadAll
  <2>. QED
    BY <1>1, <1>2, <2>2, <2>3 DEF ScanStart, TypeOK, ScanTypes
<1>3. CASE ScanList
  <2>1. rows' \in [Paths -> Notes]
    BY <1>3 DEF ScanList, TypeOK
  <2>2. ScanTypes'
    BY <1>3 DEF ScanList, TypeOK, ScanTypes
  <2>. QED
    BY <1>1, <1>3, <2>1, <2>2 DEF ScanList, TypeOK, ScanTypes
<1>4. ASSUME NEW p \in Paths, ScanNote(p)
      PROVE  TypeOK'
  <2>1. \/ scan' = [scan EXCEPT !.todo = @ \ {p}]
        \/ scan' = [scan EXCEPT !.todo = @ \ {p}, !.failed = TRUE]
    BY <1>4 DEF ScanNote
  <2>2. ScanTypes'
    BY <2>1 DEF TypeOK, ScanTypes
  <2>3. held' = held \/ held' = Holding(p)
    BY <1>4 DEF ScanNote
  <2>4. HeldTypes'
    BY <2>3 DEF TypeOK, HeldTypes, Holding
  <2>5. faults' \in 0 .. MaxFaults
    BY <1>4, FaultTypes DEF ScanNote, TypeOK
  <2>. QED
    BY <1>1, <1>4, <2>2, <2>4, <2>5 DEF ScanNote, TypeOK, ScanTypes, HeldTypes
<1>5. ASSUME NEW p \in Paths, ScanStore(p)
      PROVE  TypeOK'
  <2>1. HeldTypes' /\ rows' \in [Paths -> Notes]
    BY <1>5 DEF ScanStore, TypeOK, HeldTypes, Released
  <2>. QED
    BY <1>1, <1>5, <2>1 DEF ScanStore, TypeOK, HeldTypes
<1>. QED
  BY <1>2, <1>3, <1>4, <1>5 DEF Scan

LEMMA TailTypes ==
  ASSUME WorkTypes, writes # <<>>
  PROVE  Tail(writes) \in Queues /\ Len(Tail(writes)) = Len(writes) - 1
  BY CacheAssumption DEF WorkTypes, Queues

LEMMA PassTypes ==
  ASSUME WorkTypes, writes # <<>>, NEW c \in Caches, PassEnds(c)
  PROVE  WorkTypes'
<1>. DEFINE next == Looped(c, Tail(writes))
            ok   == next[1].ready /\ ~next[1].error
<1>1. next[1] \in Caches /\ next[2] \in Queues
  BY LoopedTypes, TailTypes
<1>. HIDE DEF next
<1>2. /\ writes' = next[2]
      /\ IF next[1].run \/ sup.pump # "reconcile"
         THEN cache' = next[1] /\ UNCHANGED sup
         ELSE /\ cache' = IF ok THEN next[1] ELSE MarkUncertain(next[1])
              /\ sup' = Reconciled(ok)
  BY DEF PassEnds, next
<1>3. ok \in BOOLEAN
  BY <1>1 DEF Caches
<1>4. Reconciled(ok) \in Supervisors
  BY <1>3 DEF Reconciled, Supervisors, WorkTypes
<1>. QED
  BY <1>1, <1>2, <1>4, FlagTypes DEF WorkTypes

LEMMA ScanEndsTypes ==
  ASSUME TypeOK, QueueInv, ScanEnds
  PROVE  TypeOK'
<1>1. writes # <<>>
  BY DEF ScanEnds, QueueInv, Scanning
<1>2. WorkTypes
  BY TypesAreParts
<1>3. Scanned \in Caches /\ ScanAborted \in Caches
  BY DEF TypeOK, Scanned, ScanAborted, Caches, RefreshStates
<1>4. WorkTypes'
  BY <1>1, <1>2, <1>3, PassTypes DEF ScanEnds
<1>5. faults' \in 0 .. MaxFaults
  BY FaultTypes DEF ScanEnds, TypeOK
<1>6. ScanTypes'
  BY DEF ScanEnds, ScanTypes, NoScan
<1>. QED
  BY <1>4, <1>5, <1>6 DEF ScanEnds, eventVars, TypeOK, WorkTypes, ScanTypes, Queues

LEMMA AnsweredTypes ==
  ASSUME WorkTypes, NEW job
  PROVE  Answered(job) \in Supervisors
  BY DEF WorkTypes, Answered, Supervisors

LEMMA UpdateTypes ==
  ASSUME TypeOK, QueueInv, Update
  PROVE  TypeOK'
<1>1. WorkTypes /\ writes # <<>>
  BY TypesAreParts DEF Update, UpdateReads, UpdateStores, UpdateFails, Updating
<1>2. Head(writes) \in Work /\ Head(writes).kind = "update"
  BY <1>1 DEF WorkTypes, Queues, Update, UpdateReads, UpdateStores, UpdateFails, Updating
<1>3. Head(writes).path \in Paths
  BY <1>2 DEF Work
<1>4. CASE UpdateReads
  <2>1. HeldTypes'
    BY <1>3, <1>4 DEF UpdateReads, HeldTypes, Holding, TypeOK
  <2>. QED
    BY <1>4, <2>1 DEF UpdateReads, TypeOK, HeldTypes, eventVars
<1>5. CASE UpdateStores
  <2>1. held[Head(writes).path] \in Notes
    <3>1. ~scan.on
      BY <1>2 DEF QueueInv, Scanning
    <3>2. ~NothingHeld => Head(writes).path \in DOMAIN held
      BY <3>1 DEF QueueInv
    <3>. QED
      BY <1>5, <3>2 DEF UpdateStores, TypeOK
  <2>2. rows' \in [Paths -> Notes] /\ held' = <<>>
    BY <1>5, <2>1 DEF UpdateStores, TypeOK
  <2>3. sup' \in Supervisors /\ writes' \in Queues
    BY <1>1, <1>5, AnsweredTypes, TailTypes DEF UpdateStores
  <2>. QED
    BY <1>5, <2>2, <2>3 DEF UpdateStores, TypeOK, eventVars, Queues
<1>6. CASE UpdateFails
  <2>. DEFINE x == <<Answered(Head(writes)), MarkUncertain(cache)>>
  <2>1. x \in Pairs
    BY <1>1, AnsweredTypes, FlagTypes DEF Pairs, WorkTypes
  <2>2. RequestReconciliation(x) \in Pairs
    BY <2>1, ReconciliationTypes
  <2>3. sup' \in Supervisors /\ cache' \in Caches
    BY <1>6, <2>1, <2>2 DEF UpdateFails, Pairs
  <2>4. writes' \in Queues /\ faults' \in 0 .. MaxFaults
    BY <1>1, <1>6, TailTypes, FaultTypes DEF UpdateFails, TypeOK
  <2>. QED
    BY <1>6, <2>3, <2>4 DEF UpdateFails, TypeOK, eventVars, Queues
<1>. QED
  BY <1>4, <1>5, <1>6 DEF Update

LEMMA TakenTypes ==
  ASSUME sup \in Supervisors, NEW p \in Paths, sup.drained < BatchSize
  PROVE  Taken(p) \in Supervisors /\ [Taken(p) EXCEPT !.pump = "update"] \in Supervisors
<1>1. sup.drained \in 0 .. BatchSize /\ BatchSize \in Nat
  BY EventsAssumption DEF Supervisors
<1>2. sup.drained + 1 \in 0 .. BatchSize
  BY <1>1
<1>. QED
  BY <1>2 DEF Taken, Supervisors

LEMMA FlushTypes ==
  ASSUME TypeOK, Flush
  PROVE  TypeOK'
<1>1. WorkTypes /\ <<sup, cache>> \in Pairs
  BY TypesAreParts DEF WorkTypes, Pairs
<1>2. UNCHANGED <<vault, rows, scan, held, faults, link, subscribed, transit, told>>
  BY DEF Flush, TimerFires, FlushEnds, TakeNext, eventVars
<1>3. CASE TimerFires
  <2>. DEFINE next == Refreshed(cache, writes, TRUE)
  <2>1. next[1] \in Caches /\ next[2] \in Queues
    BY <1>1, RefreshedTypes DEF WorkTypes
  <2>. HIDE DEF next
  <2>2. \/ /\ cache' = next[1] /\ writes' = next[2]
           /\ sup' = [sup EXCEPT !.moved = FALSE,
                                 !.pump = IF next[1].run THEN "reconcile" ELSE "drain"]
        \/ sup' = [sup EXCEPT !.pump = "drain"] /\ UNCHANGED <<cache, writes>>
    BY <1>3 DEF TimerFires, next
  <2>3. sup' \in Supervisors
    BY <1>1, <2>2 DEF WorkTypes, Supervisors
  <2>4. WorkTypes'
    BY <1>1, <2>1, <2>2, <2>3 DEF WorkTypes
  <2>. QED
    BY <1>2, <2>4 DEF TypeOK, WorkTypes, Queues
<1>4. ASSUME NEW p \in Paths, TakeNext(p)
      PROVE  TypeOK'
  <2>1. Taken(p) \in Supervisors /\ [Taken(p) EXCEPT !.pump = "update"] \in Supervisors
    BY <1>4, TakenTypes DEF TakeNext, TypeOK
  <2>2. CASE QueueIsFull
    <3>1. <<Taken(p), MarkUncertain(cache)>> \in Pairs
      BY <2>1, FlagTypes DEF Pairs, TypeOK
    <3>2. RequestReconciliation(<<Taken(p), MarkUncertain(cache)>>) \in Pairs
      BY <3>1, ReconciliationTypes
    <3>3. sup' \in Supervisors /\ cache' \in Caches /\ UNCHANGED writes
      BY <1>4, <2>2, <3>2 DEF TakeNext, Pairs
    <3>. QED
      BY <1>2, <3>3 DEF TypeOK
  <2>3. CASE ~QueueIsFull
    <3>1. writes \in Queues /\ Len(writes) < MaxWrites
      BY <2>3, CacheAssumption DEF QueueIsFull, TypeOK, Queues
    <3>2. [kind |-> "update", path |-> p, by |-> "events"] \in Work
      BY DEF Work
    <3>3. writes' \in Queues /\ cache' = cache /\ sup' \in Supervisors
      BY <1>4, <2>1, <2>3, <3>1, <3>2, AppendTypes DEF TakeNext
    <3>. QED
      BY <1>2, <3>3 DEF TypeOK, Queues
  <2>. QED
    BY <2>2, <2>3
<1>5. CASE FlushEnds
  <2>. DEFINE c == IF ~sup.dirty /\ sup.pending = {} THEN Settle(cache) ELSE cache
              x == <<[sup EXCEPT !.pump = "idle", !.drained = 0], c>>
  <2>1. [sup EXCEPT !.pump = "idle", !.drained = 0] \in Supervisors
    <3>1. 0 \in 0 .. BatchSize
      BY EventsAssumption
    <3>. QED
      BY <3>1 DEF TypeOK, Supervisors
  <2>2. c \in Caches
    BY DEF TypeOK, Settle, Caches, RefreshStates
  <2>. HIDE DEF c
  <2>3. x \in Pairs
    BY <2>1, <2>2 DEF Pairs
  <2>4. Scheduled(x) \in Pairs
    BY <2>3, ScheduledTypes
  <2>5. sup' = Scheduled(x)[1] /\ cache' = Scheduled(x)[2] /\ UNCHANGED writes
    BY <1>5 DEF FlushEnds, c
  <2>. QED
    BY <1>2, <2>4, <2>5 DEF TypeOK, Pairs
<1>. QED
  BY <1>3, <1>4, <1>5 DEF Flush

LEMMA StreamTypesStep ==
  ASSUME TypeOK, NoticeInv, NEW s \in Streams,
         Open(s) \/ StreamReady(s) \/ Receive(s) \/ StreamBreaks(s) \/ StreamEnds(s)
  PROVE  TypeOK'
<1>1. <<sup, cache>> \in Pairs
  BY DEF TypeOK, Pairs
<1>2. RequestReconciliation(<<sup, cache>>) \in Pairs
  BY <1>1, ReconciliationTypes
<1>3. UNCHANGED <<vault, rows, writes, scan, held>>
  BY DEF Open, StreamReady, Receive, StreamBreaks, StreamEnds
<1>4. CASE Open(s)
  BY <1>3, <1>4 DEF Open, TypeOK
<1>5. CASE StreamReady(s)
  <2>1. sup' \in Supervisors /\ cache' \in Caches
    BY <1>2, <1>5 DEF StreamReady, Covered, Pairs
  <2>. QED
    BY <1>3, <1>5, <2>1 DEF StreamReady, TypeOK
<1>6. CASE Receive(s)
  <2>1. PICK x \in ReceivedFrom(<<sup, cache>>, Head(transit[s])) : sup' = x[1] /\ cache' = x[2]
    BY <1>6 DEF Receive
  <2>2. transit[s] \in Seq(Notices) /\ transit[s] # <<>>
    BY <1>6 DEF Receive, TypeOK
  <2>3. 1 \in DOMAIN transit[s] /\ Head(transit[s]) = transit[s][1]
    BY <2>2
  <2>4. Sensible(Head(transit[s]))
    BY <2>3 DEF NoticeInv, Sensible
  <2>5. x \in Pairs
    BY <1>1, <2>1, <2>4, ReceivedTypes
  <2>6. sup' \in Supervisors /\ cache' \in Caches
    BY <2>1, <2>5 DEF Pairs
  <2>7. Head(transit[s]) \in Notices /\ Tail(transit[s]) \in Seq(Notices)
    BY <2>2
  <2>8. told' \in [Paths -> Versions]
    BY <1>6, <2>7 DEF Receive, TypeOK, Notices
  <2>9. transit' \in [Streams -> Seq(Notices)]
    BY <1>6, <2>7 DEF Receive, TypeOK
  <2>. QED
    BY <1>3, <1>6, <2>6, <2>8, <2>9 DEF Receive, TypeOK
<1>7. CASE StreamBreaks(s)
  <2>1. faults' \in 0 .. MaxFaults
    BY <1>7, FaultTypes DEF StreamBreaks, TypeOK
  <2>2. <<>> \in Seq(Notices)
    OBVIOUS
  <2>3. [transit EXCEPT ![s] = <<>>] \in [Streams -> Seq(Notices)]
    BY <2>2 DEF TypeOK
  <2>4. transit' \in [Streams -> Seq(Notices)]
    BY <1>7, <2>3 DEF StreamBreaks, TypeOK
  <2>5. subscribed' \in [Streams -> BOOLEAN]
    BY <1>7 DEF StreamBreaks, TypeOK
  <2>. QED
    BY <1>3, <1>7, <2>1, <2>4, <2>5 DEF StreamBreaks, TypeOK
<1>8. CASE StreamEnds(s)
  <2>1. sup' \in Supervisors /\ cache' \in Caches
    BY <1>2, <1>8 DEF StreamEnds, Pairs, TypeOK
  <2>. QED
    BY <1>3, <1>8, <2>1 DEF StreamEnds, TypeOK
<1>. QED
  BY <1>4, <1>5, <1>6, <1>7, <1>8

(* Starts of the supervisor, refreshes that are asked for, and restarts.   *)
Others == StartEvents \/ Periodic \/ Build \/ Rebuild \/ Restart

LEMMA OtherTypes ==
  ASSUME TypeOK, Others
  PROVE  TypeOK'
<1>1. ASSUME NEW c \in Caches, NEW force \in BOOLEAN, AsksFor(force, c)
      PROVE  WorkTypes'
  <2>1. WorkTypes
    BY TypesAreParts
  <2>2. Refreshed(c, writes, force)[1] \in Caches /\ Refreshed(c, writes, force)[2] \in Queues
    BY <2>1, RefreshedTypes DEF WorkTypes
  <2>. QED
    BY <1>1, <2>1, <2>2 DEF AsksFor, WorkTypes
<1>2. ASSUME NEW c \in Caches, NEW force \in BOOLEAN, AsksFor(force, c), faults' \in 0 .. MaxFaults
      PROVE  TypeOK'
  <2>1. WorkTypes'
    BY <1>1, <1>2
  <2>. QED
    BY <1>2, <2>1 DEF AsksFor, TypeOK, WorkTypes, Queues, eventVars
<1>3. CASE StartEvents
  BY <1>3 DEF StartEvents, TypeOK, Supervisors, eventVars
<1>4. CASE Periodic
  <2>1. faults' \in 0 .. MaxFaults
    BY <1>4, FaultTypes DEF Periodic, TypeOK
  <2>2. AsksFor(FALSE, cache) /\ cache \in Caches
    BY <1>4 DEF Periodic, TypeOK
  <2>. QED
    BY <1>2, <2>1, <2>2
<1>5. CASE Build
  BY <1>2, <1>5, FaultTypes DEF Build, TypeOK
<1>6. CASE Rebuild
  <2>1. [cache EXCEPT !.ready = FALSE] \in Caches
    BY DEF TypeOK, Caches
  <2>. QED
    BY <1>2, <1>6, <2>1, FaultTypes DEF Rebuild, TypeOK
<1>7. CASE Restart
  <2>. DEFINE c    == Loaded(cache.state)
              next == IF c.ready /\ ~c.error THEN <<c, <<>>>> ELSE Refreshed(c, <<>>, TRUE)
  <2>1. c \in Caches
    BY LoadedTypes DEF TypeOK, Caches
  <2>2. <<>> \in Queues
    BY CacheAssumption DEF Queues
  <2>. HIDE DEF c
  <2>3. next[1] \in Caches /\ next[2] \in Queues
    BY <2>1, <2>2, RefreshedTypes
  <2>4. cache' \in Caches /\ writes' \in Queues
    BY <1>7, <2>3 DEF Restart, c
  <2>5. NewSupervisor \in Supervisors
    BY EventsAssumption DEF NewSupervisor, Supervisors
  <2>6. faults' \in 0 .. MaxFaults
    BY <1>7, FaultTypes DEF Restart, TypeOK
  <2>7. HeldTypes' /\ ScanTypes'
    BY <1>7 DEF Restart, HeldTypes, ScanTypes, NoScan
  <2>8. /\ transit' \in [Streams -> Seq(Notices)] /\ subscribed' \in [Streams -> BOOLEAN]
        /\ link' \in [Streams -> {"down", "opening", "ready"}]
    BY <1>7 DEF Restart
  <2>. QED
    BY <1>7, <2>4, <2>5, <2>6, <2>7, <2>8 DEF Restart, TypeOK, HeldTypes, ScanTypes, Queues
<1>. QED
  BY <1>3, <1>4, <1>5, <1>6, <1>7 DEF Others

LEMMA TypeStep ==
  ASSUME TypeOK, QueueInv, NoticeInv, [Next]_vars
  PROVE  TypeOK'
<1>1. CASE UNCHANGED vars
  BY <1>1 DEF vars, TypeOK
<1>. QED
  BY <1>1, EditTypes, ScanStepTypes, ScanEndsTypes, UpdateTypes, FlushTypes, StreamTypesStep,
     OtherTypes DEF Next, Others

-----------------------------------------------------------------------------
(* The queue stays orderly. *)

LEMMA AppendedJobs ==
  ASSUME NEW w \in Queues, NEW job \in Work
  PROVE  /\ DOMAIN w = 1 .. Len(w) /\ Len(w) \in Nat
         /\ DOMAIN Append(w, job) = 1 .. Len(w) + 1
         /\ \A k \in 1 .. Len(w) : Append(w, job)[k] = w[k]
         /\ Append(w, job)[Len(w) + 1] = job
         /\ w # <<>> => Head(Append(w, job)) = Head(w)
         /\ Append(w, job) # <<>>
<1>1. w \in Seq(Work) /\ Len(w) \in Nat /\ DOMAIN w = 1 .. Len(w)
  BY DEF Queues
<1>2. Append(w, job) \in Seq(Work) /\ Len(Append(w, job)) = Len(w) + 1
  BY <1>1
<1>3. DOMAIN Append(w, job) = 1 .. Len(w) + 1 /\ Append(w, job) # <<>>
  BY <1>1, <1>2
<1>4. \A k \in 1 .. Len(w) : Append(w, job)[k] = w[k]
  BY <1>1
<1>5. Append(w, job)[Len(w) + 1] = job
  BY <1>1
<1>6. w # <<>> => Head(Append(w, job)) = Head(w)
  BY <1>1, <1>2, <1>4
<1>. QED
  BY <1>1, <1>3, <1>4, <1>5, <1>6, Zenon

LEMMA TailJobs ==
  ASSUME NEW w \in Queues, w # <<>>
  PROVE  /\ DOMAIN w = 1 .. Len(w) /\ Len(w) \in Nat \ {0}
         /\ Tail(w) \in Queues
         /\ DOMAIN Tail(w) = 1 .. Len(w) - 1
         /\ \A k \in 1 .. Len(w) - 1 : Tail(w)[k] = w[k + 1]
         /\ Head(w) = w[1]
  BY CacheAssumption DEF Queues

LEMMA OrderlyRefresh ==
  ASSUME NEW w \in Queues, NEW force \in BOOLEAN, NEW pump, Orderly(w, FALSE, pump)
  PROVE  Orderly(Append(w, [kind |-> "refresh", force |-> force]), TRUE, pump)
<1>. DEFINE job == [kind |-> "refresh", force |-> force]
<1>1. job \in Work /\ job.kind = "refresh"
  BY DEF Work
<1>2. /\ DOMAIN w = 1 .. Len(w) /\ Len(w) \in Nat
      /\ DOMAIN Append(w, job) = 1 .. Len(w) + 1
      /\ \A k \in 1 .. Len(w) : Append(w, job)[k] = w[k]
      /\ Append(w, job)[Len(w) + 1] = job
  BY <1>1, AppendedJobs
<1>. HIDE DEF job
<1>. QED
  BY <1>1, <1>2 DEF Orderly, IsUpdate

LEMMA OrderlyToolUpdate ==
  ASSUME NEW w \in Queues, NEW p \in Paths, NEW run \in BOOLEAN, NEW pump, Orderly(w, run, pump)
  PROVE  Orderly(Append(w, [kind |-> "update", path |-> p, by |-> "tool"]), run, pump)
<1>. DEFINE job == [kind |-> "update", path |-> p, by |-> "tool"]
<1>1. job \in Work /\ job.kind = "update" /\ ~IsUpdate(job)
  BY DEF Work, IsUpdate
<1>2. /\ DOMAIN w = 1 .. Len(w) /\ Len(w) \in Nat
      /\ DOMAIN Append(w, job) = 1 .. Len(w) + 1
      /\ \A k \in 1 .. Len(w) : Append(w, job)[k] = w[k]
      /\ Append(w, job)[Len(w) + 1] = job
  BY <1>1, AppendedJobs
<1>. HIDE DEF job
<1>3. Orderly(Append(w, job), run, pump)
  BY <1>1, <1>2 DEF Orderly
<1>. QED
  BY <1>3 DEF job

LEMMA OrderlyEventUpdate ==
  ASSUME NEW w \in Queues, NEW p \in Paths, NEW run \in BOOLEAN, NEW pump, pump # "update",
         Orderly(w, run, pump)
  PROVE  Orderly(Append(w, [kind |-> "update", path |-> p, by |-> "events"]), run, "update")
<1>. DEFINE job == [kind |-> "update", path |-> p, by |-> "events"]
<1>1. job \in Work /\ job.kind = "update"
  BY DEF Work
<1>2. /\ DOMAIN w = 1 .. Len(w) /\ Len(w) \in Nat
      /\ DOMAIN Append(w, job) = 1 .. Len(w) + 1
      /\ \A k \in 1 .. Len(w) : Append(w, job)[k] = w[k]
      /\ Append(w, job)[Len(w) + 1] = job
  BY <1>1, AppendedJobs
<1>. HIDE DEF job
<1>. QED
  BY <1>1, <1>2 DEF Orderly

(* The end of the head frees what it kept. *)
LEMMA OrderlyTail ==
  ASSUME NEW w \in Queues, w # <<>>, NEW run \in BOOLEAN, NEW pump, Orderly(w, run, pump)
  PROVE  /\ Orderly(Tail(w), run, pump)
         /\ Head(w).kind = "refresh" => Orderly(Tail(w), FALSE, pump)
         /\ IsUpdate(Head(w)) => \A other : Orderly(Tail(w), run, other)
<1>1. /\ DOMAIN w = 1 .. Len(w) /\ Len(w) \in Nat \ {0}
      /\ DOMAIN Tail(w) = 1 .. Len(w) - 1
      /\ \A k \in 1 .. Len(w) - 1 : Tail(w)[k] = w[k + 1]
      /\ Head(w) = w[1]
  BY TailJobs
<1>2. \A k \in 1 .. Len(w) - 1 : k + 1 \in 1 .. Len(w) /\ k + 1 # 1
  BY <1>1
<1>3. 1 \in 1 .. Len(w)
  BY <1>1
<1>4. Orderly(Tail(w), run, pump)
  BY <1>1, <1>2 DEF Orderly
<1>5. Head(w).kind = "refresh" => \A k \in 1 .. Len(w) - 1 : Tail(w)[k].kind # "refresh"
  BY <1>1, <1>2, <1>3 DEF Orderly
<1>6. IsUpdate(Head(w)) => \A k \in 1 .. Len(w) - 1 : ~IsUpdate(Tail(w)[k])
  BY <1>1, <1>2, <1>3 DEF Orderly
<1>. QED
  BY <1>1, <1>4, <1>5, <1>6 DEF Orderly

LEMMA LoopedOrderly ==
  ASSUME NEW c \in Caches, NEW w \in Queues, NEW pump, Orderly(w, FALSE, pump)
  PROVE  Orderly(Looped(c, w)[2], Looped(c, w)[1].run, pump)
<1>. DEFINE next == [c EXCEPT !.requested = FALSE, !.force = FALSE]
            job  == [kind |-> "refresh", force |-> c.force]
<1>1. CASE ~c.requested
  BY <1>1 DEF Looped, Caches
<1>2. CASE c.requested /\ Len(w) >= MaxWrites
  BY <1>2 DEF Looped, MarkUncertain, Caches
<1>3. CASE c.requested /\ ~(Len(w) >= MaxWrites)
  <2>1. Orderly(Append(w, job), TRUE, pump)
    BY OrderlyRefresh DEF Caches
  <2>2. Looped(c, w) = <<[next EXCEPT !.run = TRUE], Append(w, job)>>
    BY <1>3 DEF Looped
  <2>3. [next EXCEPT !.run = TRUE].run = TRUE
    BY DEF Caches
  <2>. HIDE DEF next, job
  <2>4. Looped(c, w)[1] = [next EXCEPT !.run = TRUE] /\ Looped(c, w)[2] = Append(w, job)
    BY <2>2
  <2>. QED
    BY <2>1, <2>3, <2>4, Zenon
<1>. QED
  BY <1>1, <1>2, <1>3

LEMMA RefreshedOrderly ==
  ASSUME NEW c \in Caches, NEW w \in Queues, NEW force \in BOOLEAN, NEW pump,
         Orderly(w, c.run, pump)
  PROVE  Orderly(Refreshed(c, w, force)[2], Refreshed(c, w, force)[1].run, pump)
<1>. DEFINE asked == [c EXCEPT !.requested = TRUE, !.force = @ \/ force]
<1>1. asked \in Caches /\ asked.run = c.run
  BY DEF Caches
<1>2. CASE c.run
  BY <1>1, <1>2 DEF Refreshed
<1>3. CASE ~c.run
  <2>1. Refreshed(c, w, force) = Looped(asked, w)
    BY <1>3 DEF Refreshed
  <2>2. Orderly(w, FALSE, pump)
    BY <1>3 DEF Caches
  <2>. HIDE DEF asked
  <2>. QED
    BY <1>1, <2>1, <2>2, LoopedOrderly
<1>. QED
  BY <1>2, <1>3

(* The loop leaves the head of the queue in place.                         *)
LEMMA LoopedHead ==
  ASSUME NEW c \in Caches, NEW w \in Queues, w # <<>>
  PROVE  Looped(c, w)[2] # <<>> /\ Head(Looped(c, w)[2]) = Head(w)
<1>. DEFINE job == [kind |-> "refresh", force |-> c.force]
<1>1. job \in Work
  BY DEF Work, Caches
<1>2. Append(w, job) # <<>> /\ Head(Append(w, job)) = Head(w)
  BY <1>1, AppendedJobs
<1>. QED
  BY <1>2 DEF Looped

LEMMA RefreshedHead ==
  ASSUME NEW c \in Caches, NEW w \in Queues, NEW force \in BOOLEAN, w # <<>>
  PROVE  Refreshed(c, w, force)[2] # <<>> /\ Head(Refreshed(c, w, force)[2]) = Head(w)
<1>. DEFINE asked == [c EXCEPT !.requested = TRUE, !.force = @ \/ force]
<1>1. asked \in Caches
  BY DEF Caches
<1>2. CASE c.run
  BY <1>2 DEF Refreshed
<1>3. CASE ~c.run
  <2>1. Refreshed(c, w, force) = Looped(asked, w)
    BY <1>3 DEF Refreshed
  <2>. HIDE DEF asked
  <2>. QED
    BY <1>1, <2>1, LoopedHead
<1>. QED
  BY <1>2, <1>3

-----------------------------------------------------------------------------
(* What the supervisor's methods do to its state x[1] and the cache x[2].  *)

(* A reconciliation is due, and a scan that is under way will not do. *)
Alert(x) ==
  /\ x[1].dirty /\ x[1].moved
  /\ x[2].error /\ x[2].doubted /\ x[2].state = "uncertain"

(* The methods leave the runs of the cache and what waits for them alone. *)
Carried(x, y) ==
  /\ y \in Pairs
  /\ y[2].run = x[2].run /\ y[2].requested = x[2].requested
  /\ y[2].force = x[2].force /\ y[2].ready = x[2].ready
  /\ x[2].eventWork => y[2].eventWork
  /\ y[1].pump = x[1].pump \/ (x[1].pump = "idle" /\ y[1].pump = "timer")

(* Notes P are queued, and the cache says that event work is pending. *)
Heard(x, y, P) ==
  /\ y[1].dirty = x[1].dirty /\ y[1].moved = x[1].moved
  /\ y[1].pending = x[1].pending \cup P
  /\ y[2].error = x[2].error /\ y[2].doubted = x[2].doubted
  /\ y[2].eventWork
  /\ y[2].state = IF x[2].eventWork THEN x[2].state ELSE "pending-events"

LEMMA ScheduledEffect ==
  ASSUME NEW x \in Pairs
  PROVE  LET y == Scheduled(x)
         IN  /\ Carried(x, y) /\ y[2] = x[2]
             /\ y[1].dirty = x[1].dirty /\ y[1].moved = x[1].moved
             /\ y[1].pending = x[1].pending
<1>1. x[1] \in Supervisors /\ x = <<x[1], x[2]>>
  BY DEF Pairs
<1>2. Scheduled(x) \in Pairs
  BY ScheduledTypes
<1>3. CASE Scheduled(x) = x
  <2>1. Carried(x, x)
    BY DEF Carried
  <2>. QED
    BY <1>3, <2>1
<1>4. CASE x[1].pump = "idle" /\ Scheduled(x) = <<[x[1] EXCEPT !.pump = "timer"], x[2]>>
  <2>. DEFINE s == [x[1] EXCEPT !.pump = "timer"]
  <2>1. /\ s.pump = "timer" /\ s.dirty = x[1].dirty /\ s.moved = x[1].moved
        /\ s.pending = x[1].pending
    BY <1>1 DEF Supervisors
  <2>2. Scheduled(x)[1] = s /\ Scheduled(x)[2] = x[2]
    BY <1>4
  <2>. HIDE DEF s
  <2>. QED
    BY <1>2, <1>4, <2>1, <2>2 DEF Carried
<1>. QED
  BY <1>3, <1>4 DEF Scheduled

LEMMA ReconciliationEffect ==
  ASSUME NEW x \in Pairs
  PROVE  LET y == RequestReconciliation(x)
         IN  Carried(x, y) /\ Alert(y) /\ y[1].pending = x[1].pending
<1>. DEFINE s == [x[1] EXCEPT !.dirty = TRUE, !.moved = TRUE]
            c == MarkUncertain(x[2])
            z == <<s, c>>
<1>1. x[1] \in Supervisors /\ x[2] \in Caches
  BY DEF Pairs
<1>2. s \in Supervisors /\ s.dirty /\ s.moved /\ s.pump = x[1].pump /\ s.pending = x[1].pending
  BY <1>1 DEF Supervisors
<1>3. c \in Caches
  BY <1>1, FlagTypes
<1>4. /\ c.error /\ c.doubted /\ c.state = "uncertain"
      /\ c.run = x[2].run /\ c.requested = x[2].requested
      /\ c.force = x[2].force /\ c.ready = x[2].ready /\ c.eventWork = x[2].eventWork
  BY <1>1 DEF Caches, MarkUncertain
<1>5. RequestReconciliation(x) = Scheduled(z)
  BY DEF RequestReconciliation
<1>. HIDE DEF s, c
<1>6. z \in Pairs /\ z[1] = s /\ z[2] = c
  BY <1>2, <1>3 DEF Pairs
<1>. HIDE DEF z
<1>7. /\ Carried(z, Scheduled(z)) /\ Scheduled(z)[2] = c
      /\ Scheduled(z)[1].dirty = s.dirty /\ Scheduled(z)[1].moved = s.moved
      /\ Scheduled(z)[1].pending = s.pending
  BY <1>6, ScheduledEffect
<1>. QED
  BY <1>2, <1>4, <1>5, <1>6, <1>7 DEF Carried, Alert

Noted(x, p) == <<[x[1] EXCEPT !.pending = @ \cup {p}], x[2]>>

LEMMA NotedEffect ==
  ASSUME NEW x \in Pairs, NEW p \in Paths
  PROVE  /\ Carried(x, Noted(x, p)) /\ Noted(x, p)[2] = x[2]
         /\ Noted(x, p)[1].dirty = x[1].dirty /\ Noted(x, p)[1].moved = x[1].moved
         /\ Noted(x, p)[1].pending = x[1].pending \cup {p}
<1>. DEFINE s == [x[1] EXCEPT !.pending = @ \cup {p}]
<1>1. x[1] \in Supervisors /\ x[2] \in Caches
  BY DEF Pairs
<1>2. /\ s \in Supervisors /\ s.pump = x[1].pump /\ s.dirty = x[1].dirty
      /\ s.moved = x[1].moved /\ s.pending = x[1].pending \cup {p}
  BY <1>1 DEF Supervisors
<1>3. Noted(x, p) = <<s, x[2]>>
  BY DEF Noted
<1>. HIDE DEF s
<1>. QED
  BY <1>1, <1>2, <1>3 DEF Carried, Pairs

LEMMA HintedEffect ==
  ASSUME NEW x \in Pairs, NEW p \in Paths
  PROVE  LET y == Hinted(x, p)
         IN  Carried(x, y) /\ y[2].eventWork /\ (Heard(x, y, {p}) \/ Alert(y))
<1>. DEFINE y == <<x[1], MarkPending(x[2])>>
            u == <<[x[1] EXCEPT !.pending = {}], MarkPending(x[2])>>
            full == p \notin x[1].pending /\ Cardinality(x[1].pending) >= MaxPending
            z == IF full THEN RequestReconciliation(u) ELSE y
            r == Noted(z, p)
<1>1. x[1] \in Supervisors /\ x[2] \in Caches
  BY DEF Pairs
<1>2. MarkPending(x[2]) \in Caches
  BY <1>1, FlagTypes
<1>3. LET c == MarkPending(x[2])
      IN  /\ c.run = x[2].run /\ c.requested = x[2].requested
          /\ c.force = x[2].force /\ c.ready = x[2].ready /\ c.eventWork
          /\ c.error = x[2].error /\ c.doubted = x[2].doubted
          /\ c.state = IF x[2].eventWork THEN x[2].state ELSE "pending-events"
  BY <1>1 DEF MarkPending, Caches
<1>4. Hinted(x, p) = r
  BY DEF Hinted, Noted
<1>5. \A v \in Pairs :
        /\ Carried(v, Noted(v, p)) /\ Noted(v, p)[2] = v[2]
        /\ Noted(v, p)[1].dirty = v[1].dirty /\ Noted(v, p)[1].moved = v[1].moved
        /\ Noted(v, p)[1].pending = v[1].pending \cup {p}
  BY NotedEffect
<1>6. CASE full
  <2>1. [x[1] EXCEPT !.pending = {}] \in Supervisors /\ [x[1] EXCEPT !.pending = {}].pump = x[1].pump
    BY <1>1 DEF Supervisors
  <2>2. u \in Pairs /\ u[2] = MarkPending(x[2]) /\ u[1].pump = x[1].pump
    BY <1>2, <2>1 DEF Pairs
  <2>. HIDE DEF u
  <2>3. Carried(u, RequestReconciliation(u)) /\ Alert(RequestReconciliation(u))
    BY <2>2, ReconciliationEffect
  <2>4. z = RequestReconciliation(u)
    BY <1>6
  <2>. HIDE DEF z
  <2>5. z \in Pairs
    BY <2>3, <2>4 DEF Carried
  <2>6. /\ Carried(z, r) /\ r[2] = z[2]
        /\ r[1].dirty = z[1].dirty /\ r[1].moved = z[1].moved
    BY <1>5, <2>5
  <2>. HIDE DEF r
  <2>7. Alert(r)
    BY <2>3, <2>4, <2>6 DEF Alert
  <2>8. Carried(x, r) /\ r[2].eventWork
    BY <1>3, <2>2, <2>3, <2>4, <2>6 DEF Carried
  <2>. QED
    BY <1>4, <2>7, <2>8
<1>7. CASE ~full
  <2>1. z = y
    BY <1>7
  <2>2. y \in Pairs /\ y[1] = x[1] /\ y[2] = MarkPending(x[2])
    BY <1>1, <1>2 DEF Pairs
  <2>. HIDE DEF y, z
  <2>3. /\ Carried(z, r) /\ r[2] = z[2]
        /\ r[1].dirty = z[1].dirty /\ r[1].moved = z[1].moved
        /\ r[1].pending = z[1].pending \cup {p}
    BY <1>5, <2>1, <2>2
  <2>. HIDE DEF r
  <2>4. Carried(x, r) /\ Heard(x, r, {p})
    BY <1>3, <2>1, <2>2, <2>3 DEF Carried, Heard
  <2>. QED
    BY <1>4, <2>4 DEF Heard
<1>. QED
  BY <1>6, <1>7

LEMMA ReceivedEffect ==
  ASSUME NEW x \in Pairs, NEW n, Sensible(n), NEW y \in ReceivedFrom(x, n)
  PROVE  Carried(x, y) /\ (Alert(y) \/ Heard(x, y, n.paths))
<1>1. CASE n.folder
  BY <1>1, ReconciliationEffect DEF ReceivedFrom
<1>2. CASE ~n.folder
  <2>1. PICK p \in n.paths :
          y = Scheduled(IF n.paths = {p} THEN Hinted(x, p)
                        ELSE Hinted(Hinted(x, p), CHOOSE q \in n.paths : q # p))
    BY <1>2 DEF ReceivedFrom
  <2>. DEFINE u == Hinted(x, p)
  <2>2. n.paths \subseteq Paths
    BY <1>2 DEF Sensible
  <2>3. Carried(x, u) /\ u[2].eventWork /\ (Heard(x, u, {p}) \/ Alert(u))
    BY <2>1, <2>2, HintedEffect
  <2>. HIDE DEF u
  <2>4. u \in Pairs
    BY <2>3 DEF Carried
  <2>5. CASE n.paths = {p}
    <3>1. y = Scheduled(u)
      BY <2>1, <2>5 DEF u
    <3>2. /\ Carried(u, y) /\ y[2] = u[2] /\ y[1].dirty = u[1].dirty
          /\ y[1].moved = u[1].moved /\ y[1].pending = u[1].pending
      BY <2>4, <3>1, ScheduledEffect
    <3>. QED
      BY <2>3, <2>5, <3>2 DEF Carried, Heard, Alert
  <2>6. CASE n.paths # {p}
    <3>. DEFINE q == CHOOSE q \in n.paths : q # p
                v == Hinted(u, q)
    <3>1. q \in n.paths /\ q # p
      BY <2>1, <2>6
    <3>2. n.paths = {p, q}
      BY <1>2, <2>1, <3>1 DEF Sensible
    <3>3. y = Scheduled(v)
      BY <2>1, <2>6 DEF u
    <3>. HIDE DEF q
    <3>4. Carried(u, v) /\ v[2].eventWork /\ (Heard(u, v, {q}) \/ Alert(v))
      BY <2>2, <2>4, <3>1, HintedEffect
    <3>. HIDE DEF v
    <3>5. v \in Pairs
      BY <3>4 DEF Carried
    <3>6. /\ Carried(v, y) /\ y[2] = v[2] /\ y[1].dirty = v[1].dirty
          /\ y[1].moved = v[1].moved /\ y[1].pending = v[1].pending
      BY <3>3, <3>5, ScheduledEffect
    <3>7. Carried(x, v)
      BY <2>3, <3>4 DEF Carried
    <3>8. Alert(v) \/ Heard(x, v, n.paths)
      BY <2>3, <3>2, <3>4 DEF Heard, Alert
    <3>. QED
      BY <3>6, <3>7, <3>8 DEF Carried, Heard, Alert
  <2>. QED
    BY <2>5, <2>6
<1>. QED
  BY <1>1, <1>2

-----------------------------------------------------------------------------
(* What the loop of the cache does to its flags and its queue.             *)

(* Nothing of a doubt is lost, and the store is not called complete. *)
Doubting(c, d) ==
  /\ d.ready = c.ready /\ d.eventWork = c.eventWork
  /\ c.error => d.error
  /\ c.doubted => d.doubted
  /\ d.state = c.state \/ d.state = "uncertain"

LEMMA LoopedEffect ==
  ASSUME NEW c \in Caches, NEW w \in Queues
  PROVE  LET d == Looped(c, w)[1]
             v == Looped(c, w)[2]
         IN  /\ Doubting(c, d)
             /\ d.run => c.requested /\ v = Append(w, [kind |-> "refresh", force |-> c.force])
             /\ ~d.run => v = w
             /\ c.requested /\ ~d.run => d.error /\ d.doubted
<1>. DEFINE next == [c EXCEPT !.requested = FALSE, !.force = FALSE]
            job  == [kind |-> "refresh", force |-> c.force]
<1>1. CASE ~c.requested
  <2>. DEFINE d == [c EXCEPT !.run = FALSE]
  <2>1. Doubting(c, d) /\ ~d.run
    BY DEF Caches, Doubting
  <2>2. Looped(c, w) = <<d, w>>
    BY <1>1 DEF Looped
  <2>. HIDE DEF d
  <2>. QED
    BY <1>1, <2>1, <2>2
<1>2. CASE c.requested /\ Len(w) >= MaxWrites
  <2>. DEFINE d == [MarkUncertain(next) EXCEPT !.run = FALSE]
  <2>1. Doubting(c, d) /\ ~d.run /\ d.error /\ d.doubted
    BY DEF Caches, Doubting, MarkUncertain
  <2>2. Looped(c, w) = <<d, w>>
    BY <1>2 DEF Looped
  <2>. HIDE DEF d
  <2>. QED
    BY <1>2, <2>1, <2>2
<1>3. CASE c.requested /\ ~(Len(w) >= MaxWrites)
  <2>. DEFINE d == [next EXCEPT !.run = TRUE]
  <2>1. Doubting(c, d) /\ d.run
    BY DEF Caches, Doubting
  <2>2. Looped(c, w) = <<d, Append(w, job)>>
    BY <1>3 DEF Looped
  <2>. HIDE DEF d
  <2>. QED
    BY <1>3, <2>1, <2>2
<1>. QED
  BY <1>1, <1>2, <1>3

(* A request with the flags c and the queue w leaves d and v behind. *)
RefreshedTo(c, w, force, d, v) ==
  /\ Doubting(c, d)
  /\ c.run => d.run /\ v = w /\ d.requested /\ (c.force \/ force => d.force)
  /\ ~c.run /\ d.run =>
       \E wanted \in BOOLEAN :
         /\ c.force \/ force => wanted
         /\ v = Append(w, [kind |-> "refresh", force |-> wanted])
  /\ ~d.run => v = w /\ d.error /\ d.doubted

LEMMA RefreshedEffect ==
  ASSUME NEW c \in Caches, NEW w \in Queues, NEW force \in BOOLEAN
  PROVE  RefreshedTo(c, w, force, Refreshed(c, w, force)[1], Refreshed(c, w, force)[2])
<1>. DEFINE asked == [c EXCEPT !.requested = TRUE, !.force = @ \/ force]
<1>1. /\ asked \in Caches /\ asked.run = c.run /\ asked.requested
      /\ Doubting(c, asked)
      /\ c.force \/ force => asked.force
      /\ asked.force \in BOOLEAN
  BY DEF Caches, Doubting
<1>2. CASE c.run
  <2>1. Refreshed(c, w, force) = <<asked, w>>
    BY <1>2 DEF Refreshed
  <2>. HIDE DEF asked
  <2>2. asked.run
    BY <1>1, <1>2
  <2>. QED
    BY <1>1, <1>2, <2>1, <2>2 DEF RefreshedTo
<1>3. CASE ~c.run
  <2>1. Refreshed(c, w, force) = Looped(asked, w)
    BY <1>3 DEF Refreshed
  <2>. HIDE DEF asked
  <2>. DEFINE d == Looped(asked, w)[1]
              v == Looped(asked, w)[2]
  <2>2. /\ Doubting(asked, d)
        /\ d.run => v = Append(w, [kind |-> "refresh", force |-> asked.force])
        /\ ~d.run => v = w
        /\ ~d.run => d.error /\ d.doubted
    BY <1>1, LoopedEffect
  <2>. HIDE DEF d, v
  <2>3. Doubting(c, d)
    BY <1>1, <2>2 DEF Doubting
  <2>4. /\ ~c.run /\ d.run =>
             \E wanted \in BOOLEAN :
               /\ c.force \/ force => wanted
               /\ v = Append(w, [kind |-> "refresh", force |-> wanted])
    BY <1>1, <2>2
  <2>. QED
    BY <1>3, <2>1, <2>2, <2>3, <2>4 DEF d, v, RefreshedTo
<1>. QED
  BY <1>2, <1>3

-----------------------------------------------------------------------------
(* What keeps the invariant while rows and held notes stand.               *)

(* What a step makes of a record it leaves alone: nothing, or an edit that *)
(* nobody knows of.                                                        *)
Unsurprising ==
  \A p \in Paths : \A w \in Shown(p)' : \A r \in Notes :
    r.v <= vault[p].v /\ Behind(r, p, w)' => (w \in Shown(p) /\ Behind(r, p, w)) \/ Unheard(p, w)'

(* An edit that nobody knows of stays so or is queued. *)
Expected ==
  \A p \in Paths : \A w \in Versions : Unheard(p, w) => Unheard(p, w)' \/ p \in sup'.pending

LEMMA StillVault ==
  ASSUME UNCHANGED <<vault, told, link, subscribed, transit>>
  PROVE  Unsurprising /\ Expected
<1>1. \A p \in Paths : \A w \in Versions : Unheard(p, w)' <=> Unheard(p, w)
  BY DEF Unheard, InTransit, Gap
<1>2. \A p \in Paths : Shown(p)' = Shown(p)
  BY DEF Shown
<1>3. \A p \in Paths : \A w, r : Behind(r, p, w)' <=> Behind(r, p, w)
  BY DEF Behind
<1>. QED
  BY <1>1, <1>2, <1>3 DEF Unsurprising, Expected

LEMMA RecordTypes ==
  ASSUME TypeOK
  PROVE  /\ \A p \in Paths : rows[p] \in Notes
         /\ \A p \in Paths : p \in DOMAIN held => held[p] \in Notes
         /\ \A p \in Paths : Shown(p) \subseteq Versions
  BY DEF TypeOK, Shown

LEMMA NumberTypes ==
  ASSUME TypeOK
  PROVE  /\ \A p \in Paths : vault[p].v \in Nat /\ rows[p].v \in Nat /\ told[p] \in Nat
         /\ \A p \in DOMAIN held : p \in Paths /\ held[p].v \in Nat
  BY CacheAssumption DEF TypeOK, Notes, Versions

LEMMA AwareKept ==
  ASSUME TypeOK, NoticeInv, AwareInv, Unsurprising, Expected,
         rows' = rows, held' = held,
         sup.dirty => sup'.dirty,
         \A p \in Paths : Asked(p) => Asked(p)',
         \A p \in Paths : AskedAgain(p) => AskedAgain(p)'
  PROVE  AwareInv'
<1>. SUFFICES ASSUME NEW p \in Paths, NEW w \in Shown(p)'
              PROVE  /\ Behind(rows[p], p, w)' => sup'.dirty \/ Asked(p)' \/ Unheard(p, w)'
                     /\ p \in DOMAIN held /\ Behind(held[p], p, w)' =>
                          sup'.dirty \/ AskedAgain(p)' \/ Unheard(p, w)'
  BY DEF AwareInv
<1>1. p \in sup'.pending => Asked(p)' /\ AskedAgain(p)'
  BY DEF Asked, AskedAgain
<1>2. Unheard(p, w) /\ w \in Shown(p) => Unheard(p, w)' \/ (Asked(p)' /\ AskedAgain(p)')
  BY <1>1 DEF Expected, Shown
<1>3. ASSUME NEW r \in Notes, r.v <= vault[p].v, Behind(r, p, w)'
      PROVE  (w \in Shown(p) /\ Behind(r, p, w)) \/ Unheard(p, w)'
  BY <1>3 DEF Unsurprising
<1>4. rows[p] \in Notes /\ rows[p].v <= vault[p].v
  BY RecordTypes DEF NoticeInv
<1>5. p \in DOMAIN held => held[p] \in Notes /\ held[p].v <= vault[p].v
  BY RecordTypes DEF NoticeInv
<1>6. w \in Shown(p) =>
        /\ Behind(rows[p], p, w) => sup.dirty \/ Asked(p) \/ Unheard(p, w)
        /\ p \in DOMAIN held /\ Behind(held[p], p, w) =>
             sup.dirty \/ AskedAgain(p) \/ Unheard(p, w)
  BY DEF AwareInv
<1>7. Behind(rows[p], p, w)' => (w \in Shown(p) /\ Behind(rows[p], p, w)) \/ Unheard(p, w)'
  BY <1>4 DEF Unsurprising, Behind
<1>8. p \in DOMAIN held /\ Behind(held[p], p, w)' =>
        (w \in Shown(p) /\ Behind(held[p], p, w)) \/ Unheard(p, w)'
  BY <1>5 DEF Unsurprising, Behind
<1>. QED
  BY <1>2, <1>6, <1>7, <1>8

LEMMA ReconcileKept ==
  ASSUME TypeOK, NoticeInv, ReconcileInv, Unsurprising, Expected,
         rows' = rows, held' = held,
         sup'.pump = "reconcile" /\ ~sup'.moved =>
           /\ sup.pump = "reconcile" /\ ~sup.moved
           /\ sup.pending \subseteq sup'.pending
           /\ scan.on => scan'.on
           /\ \A p \in Paths : Forced(p) => Forced(p)'
  PROVE  ReconcileInv'
<1>. SUFFICES ASSUME sup'.pump = "reconcile", ~sup'.moved,
                     NEW p \in Paths, NEW w \in Shown(p)'
              PROVE  /\ Behind(rows[p], p, w)' =>
                          \/ p \in sup'.pending \/ Unheard(p, w)' \/ Forced(p)'
                          \/ scan'.on /\ p \in DOMAIN held
                     /\ p \in DOMAIN held /\ Behind(held[p], p, w)' =>
                          p \in sup'.pending \/ Unheard(p, w)' \/ Forced(p)'
  BY DEF ReconcileInv
<1>1. /\ sup.pump = "reconcile" /\ ~sup.moved
      /\ p \in sup.pending => p \in sup'.pending
      /\ scan.on => scan'.on
      /\ Forced(p) => Forced(p)'
  OBVIOUS
<1>2. Unheard(p, w) /\ w \in Shown(p) => Unheard(p, w)' \/ p \in sup'.pending
  BY DEF Expected, Shown
<1>4. rows[p] \in Notes /\ rows[p].v <= vault[p].v
  BY RecordTypes DEF NoticeInv
<1>5. p \in DOMAIN held => held[p] \in Notes /\ held[p].v <= vault[p].v
  BY RecordTypes DEF NoticeInv
<1>6. w \in Shown(p) =>
        /\ Behind(rows[p], p, w) =>
             p \in sup.pending \/ Unheard(p, w) \/ Forced(p) \/ (scan.on /\ p \in DOMAIN held)
        /\ p \in DOMAIN held /\ Behind(held[p], p, w) =>
             p \in sup.pending \/ Unheard(p, w) \/ Forced(p)
  BY <1>1 DEF ReconcileInv
<1>7. Behind(rows[p], p, w)' => (w \in Shown(p) /\ Behind(rows[p], p, w)) \/ Unheard(p, w)'
  BY <1>4 DEF Unsurprising, Behind
<1>8. p \in DOMAIN held /\ Behind(held[p], p, w)' =>
        (w \in Shown(p) /\ Behind(held[p], p, w)) \/ Unheard(p, w)'
  BY <1>5 DEF Unsurprising, Behind
<1>. QED
  BY <1>1, <1>2, <1>6, <1>7, <1>8

LEMMA CompleteKept ==
  ASSUME CompleteInv, rows' = rows, held' = held, told' = told,
         cache'.eventWork = cache.eventWork,
         cache.state # "complete" => cache'.state # "complete",
         scan.on => scan'.on,
         \A p \in Paths : Doubted(p) => Doubted(p)'
  PROVE  CompleteInv'
<1>. SUFFICES ASSUME NEW p \in Paths
              PROVE  /\ cache'.eventWork => cache'.state # "complete"
                     /\ rows[p].v < told[p] =>
                          /\ cache'.state # "complete"
                          /\ \/ cache'.eventWork \/ Doubted(p)'
                             \/ scan'.on /\ p \in DOMAIN held /\ held[p].v >= told[p]
                     /\ p \in DOMAIN held /\ held[p].v < told[p] =>
                          cache'.state # "complete" /\ (cache'.eventWork \/ Doubted(p)')
  BY DEF CompleteInv
<1>1. /\ cache.eventWork => cache.state # "complete"
      /\ rows[p].v < told[p] =>
           /\ cache.state # "complete"
           /\ \/ cache.eventWork \/ Doubted(p)
              \/ scan.on /\ p \in DOMAIN held /\ held[p].v >= told[p]
      /\ p \in DOMAIN held /\ held[p].v < told[p] =>
           cache.state # "complete" /\ (cache.eventWork \/ Doubted(p))
  BY DEF CompleteInv
<1>2. Doubted(p) => Doubted(p)'
  OBVIOUS
<1>. QED
  BY <1>1, <1>2

(* Doubts stay when the flags keep theirs. *)
LEMMA DoubtsKept ==
  ASSUME Doubting(cache, cache'), scan' = scan
  PROVE  \A p \in Paths : Doubted(p) => Doubted(p)'
  BY DEF Doubting, Doubted

(* After an alert nothing more is claimed. *)
LEMMA Disturbed ==
  ASSUME Alert(<<sup', cache'>>)
  PROVE  AwareInv' /\ ReconcileInv' /\ CompleteInv'
<1>1. /\ sup'.dirty /\ sup'.moved
      /\ cache'.error /\ cache'.doubted /\ cache'.state = "uncertain"
  BY DEF Alert
<1>2. \A p \in Paths : Doubted(p)'
  BY <1>1 DEF Doubted
<1>3. AwareInv'
  BY <1>1 DEF AwareInv
<1>4. ReconcileInv'
  BY <1>1 DEF ReconcileInv
<1>5. CompleteInv'
  BY <1>1, <1>2 DEF CompleteInv
<1>. QED
  BY <1>3, <1>4, <1>5

-----------------------------------------------------------------------------
(* Edits of the vault. *)

(* Notice n is sent of the notes that change. *)
Announced(n) ==
  /\ n \in Notices /\ Sensible(n) /\ n.v = NextVersion
  /\ \A p \in n.paths : vault'[p].v = NextVersion
  /\ \A p \in Paths : p \notin n.paths => vault'[p] = vault[p]
  /\ Sent(n)

(* Only a tool's write adds work for the cache, or a doubt. *)
ToolWork ==
  \/ UNCHANGED <<cache, writes>>
  \/ cache' = MarkUncertain(cache) /\ UNCHANGED writes
  \/ /\ ~QueueIsFull /\ UNCHANGED cache
     /\ \E p \in Paths : writes' = Append(writes, [kind |-> "update", path |-> p, by |-> "tool"])

LEMMA EditEffect ==
  ASSUME TypeOK, Edits
  PROVE  /\ \E n \in Notices : Announced(n)
         /\ UNCHANGED <<rows, scan, held, sup, link, subscribed, told>>
         /\ ToolWork
<1>1. MayBeEdited
  BY DEF Edits, EditFolder, EditNote, ToolWrites, RenameNote
<1>2. NextVersion \in Versions
  BY <1>1, EditIsNew
<1>3. ASSUME NEW changes, DOMAIN changes \subseteq Paths,
             \A p \in DOMAIN changes : changes[p].v = NextVersion,
             NEW folder \in BOOLEAN, Edited(changes, folder),
             (folder /\ DOMAIN changes = Paths) \/ \E p, q \in Paths : DOMAIN changes = {p, q}
      PROVE  \E n \in Notices : Announced(n)
  <2>. DEFINE n == [paths |-> DOMAIN changes, folder |-> folder, v |-> NextVersion]
  <2>1. n \in Notices
    BY <1>2, <1>3 DEF Notices
  <2>2. Sensible(n)
    BY <1>3 DEF Sensible
  <2>3. Sent(n) /\ vault' = [p \in Paths |-> IF p \in DOMAIN changes THEN changes[p] ELSE vault[p]]
    BY <1>3 DEF Edited
  <2>. QED
    BY <1>3, <2>1, <2>2, <2>3 DEF Announced
<1>4. \A v, there, stamp : NoteOf(v, there, stamp).v = v
  BY DEF NoteOf
<1>5. CASE EditFolder
  <2>1. PICK there \in BOOLEAN :
          Edited([p \in Paths |->
                   NoteOf(NextVersion, there, IF there THEN vault[p].stamp ELSE NextVersion)], TRUE)
    BY <1>5 DEF EditFolder
  <2>2. \E n \in Notices : Announced(n)
    BY <1>3, <1>4, <2>1
  <2>. QED
    BY <1>5, <2>2 DEF EditFolder, ToolWork
<1>6. ASSUME NEW p \in Paths, EditNote(p)
      PROVE  /\ \E n \in Notices : Announced(n)
             /\ UNCHANGED <<rows, scan, held, sup, link, subscribed, told>> /\ ToolWork
  <2>1. PICK new \in EditsOf(p) : Edited([q \in {p} |-> new], FALSE)
    BY <1>6 DEF EditNote
  <2>2. new.v = NextVersion
    <3>1. \E there, stamp : new = NoteOf(NextVersion, there, stamp)
      BY DEF EditsOf
    <3>. QED
      BY <1>4, <3>1
  <2>. DEFINE changes == [q \in {p} |-> new]
  <2>3. DOMAIN changes = {p, p} /\ \A q \in DOMAIN changes : changes[q].v = NextVersion
    BY <2>2
  <2>. HIDE DEF changes
  <2>4. \E n \in Notices : Announced(n)
    BY <1>3, <2>1, <2>3 DEF changes
  <2>. QED
    BY <1>6, <2>4 DEF EditNote, ToolWork
<1>7. ASSUME NEW p \in Paths, ToolWrites(p)
      PROVE  /\ \E n \in Notices : Announced(n)
             /\ UNCHANGED <<rows, scan, held, sup, link, subscribed, told>> /\ ToolWork
  <2>. DEFINE changes == [q \in {p} |-> NoteOf(NextVersion, TRUE, NextVersion)]
  <2>1. DOMAIN changes = {p, p} /\ \A q \in DOMAIN changes : changes[q].v = NextVersion
    BY <1>4
  <2>2. Edited(changes, FALSE)
    BY <1>7 DEF ToolWrites
  <2>. HIDE DEF changes
  <2>3. \E n \in Notices : Announced(n)
    BY <1>3, <2>1, <2>2
  <2>4. ToolWork
    BY <1>7 DEF ToolWrites, ToolWork
  <2>. QED
    BY <1>7, <2>3, <2>4 DEF ToolWrites
<1>8. ASSUME NEW p \in Paths, NEW q \in Paths, RenameNote(p, q)
      PROVE  /\ \E n \in Notices : Announced(n)
             /\ UNCHANGED <<rows, scan, held, sup, link, subscribed, told>> /\ ToolWork
  <2>. DEFINE changes == [x \in {p, q} |-> NoteOf(NextVersion, x = q, IF x = q THEN vault[p].stamp ELSE NextVersion)]
  <2>1. DOMAIN changes = {p, q} /\ \A x \in DOMAIN changes : changes[x].v = NextVersion
    BY <1>4
  <2>2. Edited(changes, FALSE)
    BY <1>8 DEF RenameNote
  <2>. HIDE DEF changes
  <2>3. \E n \in Notices : Announced(n)
    BY <1>3, <2>1, <2>2
  <2>. QED
    BY <1>8, <2>3 DEF RenameNote, ToolWork
<1>. QED
  BY <1>5, <1>6, <1>7, <1>8 DEF Edits

(* A notice is appended to a stream or finds no subscriber. *)
LEMMA SentEffect ==
  ASSUME TypeOK, NEW n \in Notices, Sent(n)
  PROVE  /\ \A s \in Streams : \A k \in DOMAIN transit[s] :
              k \in DOMAIN transit'[s] /\ transit'[s][k] = transit[s][k]
         /\ \A s \in Streams : \A k \in DOMAIN transit'[s] :
              (k \in DOMAIN transit[s] /\ transit'[s][k] = transit[s][k]) \/ transit'[s][k] = n
         /\ \/ \E s \in Streams : ~subscribed[s]
            \/ \E s \in Streams : \E k \in DOMAIN transit'[s] : transit'[s][k] = n
<1>1. PICK s \in Streams :
        transit' = IF subscribed[s] THEN [transit EXCEPT ![s] = Append(@, n)] ELSE transit
  BY DEF Sent
<1>2. CASE ~subscribed[s]
  BY <1>1, <1>2
<1>3. CASE subscribed[s]
  <2>1. /\ transit \in [Streams -> Seq(Notices)]
        /\ transit' = [transit EXCEPT ![s] = Append(transit[s], n)]
    BY <1>1, <1>3 DEF TypeOK
  <2>2. \A r \in Streams : r # s => transit'[r] = transit[r]
    BY <2>1
  <2>3. transit'[s] = Append(transit[s], n) /\ transit[s] \in Seq(Notices)
    BY <2>1
  <2>4. /\ DOMAIN transit[s] = 1 .. Len(transit[s]) /\ Len(transit[s]) \in Nat
        /\ DOMAIN transit'[s] = 1 .. Len(transit[s]) + 1
        /\ \A k \in 1 .. Len(transit[s]) : transit'[s][k] = transit[s][k]
        /\ transit'[s][Len(transit[s]) + 1] = n
    BY <2>3
  <2>5. \A k \in DOMAIN transit[s] :
          k \in DOMAIN transit'[s] /\ transit'[s][k] = transit[s][k]
    BY <2>4
  <2>6. \A k \in DOMAIN transit'[s] :
          (k \in DOMAIN transit[s] /\ transit'[s][k] = transit[s][k]) \/ transit'[s][k] = n
    BY <2>4
  <2>7. \E k \in DOMAIN transit'[s] : transit'[s][k] = n
    BY <2>4
  <2>. QED
    BY <2>2, <2>5, <2>6, <2>7
<1>. QED
  BY <1>2, <1>3

(* What waits goes on to wait while the queue only grows.                  *)
Extends(w, v) == \A k \in DOMAIN w : k \in DOMAIN v /\ v[k] = w[k]

LEMMA AppendExtends ==
  ASSUME NEW w \in Queues, NEW job \in Work
  PROVE  Extends(w, Append(w, job))
  BY AppendedJobs DEF Extends

LEMMA AskedKept ==
  ASSUME Extends(writes, writes'), NothingHeld => NothingHeld', sup.pending \subseteq sup'.pending
  PROVE  \A p \in Paths : (Asked(p) => Asked(p)') /\ (AskedAgain(p) => AskedAgain(p)')
  BY DEF Extends, Asked, AskedAgain

LEMMA ForcedWorkKept ==
  ASSUME Extends(writes, writes'), scan' = scan
  PROVE  ForcedWork => ForcedWork'
  BY DEF Extends, ForcedWork

LEMMA WorkFacts ==
  ASSUME TypeOK
  PROVE  writes \in Queues /\ cache \in Caches /\ sup \in Supervisors
  BY DEF TypeOK, Queues

(* What an edit adds to the queue. *)
LEMMA ToolWorkEffect ==
  ASSUME TypeOK, ToolWork
  PROVE  /\ Doubting(cache, cache') /\ cache'.run = cache.run
         /\ cache'.requested = cache.requested /\ cache'.force = cache.force
         /\ Extends(writes, writes')
         /\ writes # <<>> => writes' # <<>> /\ Head(writes') = Head(writes)
         /\ \A pump : Orderly(writes, cache.run, pump) => Orderly(writes', cache.run, pump)
<1>1. writes \in Queues /\ cache \in Caches
  BY WorkFacts
<1>2. CASE UNCHANGED <<cache, writes>>
  BY <1>2 DEF Doubting, Extends
<1>3. CASE cache' = MarkUncertain(cache) /\ UNCHANGED writes
  <2>1. /\ Doubting(cache, MarkUncertain(cache)) /\ MarkUncertain(cache).run = cache.run
        /\ MarkUncertain(cache).requested = cache.requested
        /\ MarkUncertain(cache).force = cache.force
    BY <1>1 DEF Doubting, MarkUncertain, Caches
  <2>. QED
    BY <1>3, <2>1 DEF Extends
<1>4. CASE UNCHANGED cache /\ \E p \in Paths :
             writes' = Append(writes, [kind |-> "update", path |-> p, by |-> "tool"])
  <2>1. PICK p \in Paths : writes' = Append(writes, [kind |-> "update", path |-> p, by |-> "tool"])
    BY <1>4
  <2>2. [kind |-> "update", path |-> p, by |-> "tool"] \in Work
    BY DEF Work
  <2>3. Extends(writes, writes')
    BY <1>1, <2>1, <2>2, AppendExtends
  <2>4. writes # <<>> => writes' # <<>> /\ Head(writes') = Head(writes)
    BY <1>1, <2>1, <2>2, AppendedJobs
  <2>5. cache.run \in BOOLEAN
    BY <1>1 DEF Caches
  <2>6. \A pump : Orderly(writes, cache.run, pump) => Orderly(writes', cache.run, pump)
    BY <1>1, <2>1, <2>5, OrderlyToolUpdate
  <2>. QED
    BY <1>4, <2>3, <2>4, <2>6 DEF Doubting
<1>. QED
  BY <1>2, <1>3, <1>4 DEF ToolWork

LEMMA HeadsKept ==
  ASSUME QueueInv, UNCHANGED <<held, scan>>,
         writes # <<>> => writes' # <<>> /\ Head(writes') = Head(writes),
         Orderly(writes', cache'.run, sup'.pump)
  PROVE  QueueInv'
  BY DEF QueueInv, Scanning, Updating, NothingHeld

LEMMA EditQueue ==
  ASSUME TypeOK, QueueInv, Edits
  PROVE  QueueInv'
<1>1. UNCHANGED <<scan, held, sup>> /\ ToolWork
  BY EditEffect
<1>2. /\ cache'.run = cache.run
      /\ writes # <<>> => writes' # <<>> /\ Head(writes') = Head(writes)
      /\ Orderly(writes, cache.run, sup.pump) => Orderly(writes', cache.run, sup.pump)
  BY <1>1, ToolWorkEffect
<1>. QED
  BY <1>1, <1>2, HeadsKept DEF QueueInv

LEMMA EditNotices ==
  ASSUME TypeOK, NoticeInv, Edits
  PROVE  NoticeInv'
<1>1. UNCHANGED <<rows, held, told>>
  BY EditEffect
<1>2. PICK n \in Notices : Announced(n)
  BY EditEffect
<1>3. \A p \in Paths : vault[p].v < NextVersion
  BY EditIsNew DEF Edits, EditFolder, EditNote, ToolWrites, RenameNote
<1>4. NextVersion \in Nat /\ n.paths \subseteq Paths /\ n.v = NextVersion
  BY <1>2, NextVersionIsNew DEF TypeOK, Announced, Notices
<1>5. \A p \in Paths : vault[p].v \in Nat /\ rows[p].v \in Nat /\ told[p] \in Nat
  BY CacheAssumption DEF TypeOK, Notes, Versions
<1>6. \A p \in Paths : vault'[p].v = vault[p].v \/ (p \in n.paths /\ vault'[p].v = NextVersion)
  BY <1>2 DEF Announced
<1>7. \A p \in Paths : \A m \in Nat : m <= vault[p].v => m <= vault'[p].v
  BY <1>3, <1>4, <1>5, <1>6
<1>8. \A p \in DOMAIN held : p \in Paths /\ held[p].v \in Nat
  BY CacheAssumption DEF TypeOK, Notes, Versions
<1>9. \A s \in Streams : \A k \in DOMAIN transit'[s] :
        (k \in DOMAIN transit[s] /\ transit'[s][k] = transit[s][k]) \/ transit'[s][k] = n
  BY <1>2, SentEffect DEF Announced
<1>10. \A s \in Streams : \A k \in DOMAIN transit[s] : transit[s][k].v \in Nat /\ transit[s][k].paths \subseteq Paths
  <2>1. \A m \in Notices : m.v \in Nat /\ m.paths \subseteq Paths
    BY CacheAssumption DEF Notices, Versions
  <2>2. \A s \in Streams : transit[s] \in Seq(Notices)
    BY DEF TypeOK
  <2>3. \A s \in Streams : \A k \in DOMAIN transit[s] : transit[s][k] \in Notices
    BY <2>2
  <2>. QED
    BY <2>1, <2>3
<1>11. ASSUME NEW s \in Streams, NEW k \in DOMAIN transit'[s]
       PROVE  /\ \/ transit'[s][k].folder /\ transit'[s][k].paths = Paths
                 \/ \E p, q \in Paths : transit'[s][k].paths = {p, q}
              /\ \A p \in transit'[s][k].paths : transit'[s][k].v <= vault'[p].v
  <2>1. CASE transit'[s][k] = n
    BY <1>2, <1>4, <2>1 DEF Announced, Sensible
  <2>2. CASE k \in DOMAIN transit[s] /\ transit'[s][k] = transit[s][k]
    BY <1>7, <1>10, <2>2 DEF NoticeInv
  <2>. QED
    BY <1>9, <2>1, <2>2
<1>12. /\ \A p \in Paths : rows'[p].v <= vault'[p].v /\ told'[p] <= vault'[p].v
       /\ \A p \in DOMAIN held' : held'[p].v <= vault'[p].v
  BY <1>1, <1>5, <1>7, <1>8 DEF NoticeInv
<1>. QED
  BY <1>11, <1>12 DEF NoticeInv

(* The edit is newer than all that was heard, and its notice is on its way *)
(* unless a stream is not served.                                          *)
LEMMA EditIsUnknown ==
  ASSUME TypeOK, NoticeInv, Edits
  PROVE  Unsurprising /\ Expected
<1>1. UNCHANGED <<told, link, subscribed>>
  BY EditEffect
<1>2. PICK n \in Notices : Announced(n)
  BY EditEffect
<1>3. \A p \in Paths : vault[p].v < NextVersion
  BY EditIsNew DEF Edits, EditFolder, EditNote, ToolWrites, RenameNote
<1>4. NextVersion \in Nat
  BY NextVersionIsNew DEF TypeOK
<1>5. \A p \in Paths : vault[p].v \in Nat /\ told[p] \in Nat
  BY CacheAssumption DEF TypeOK, Notes, Versions
<1>6. /\ \A s \in Streams : \A k \in DOMAIN transit[s] :
           k \in DOMAIN transit'[s] /\ transit'[s][k] = transit[s][k]
      /\ \/ \E s \in Streams : ~subscribed[s]
         \/ \E s \in Streams : \E k \in DOMAIN transit'[s] : transit'[s][k] = n
  BY <1>2, SentEffect DEF Announced
<1>7. \A p \in n.paths : InTransit(p)' \/ Gap'
  BY <1>1, <1>6 DEF InTransit, Gap
<1>8. Expected
  BY <1>1, <1>6 DEF Expected, Unheard, InTransit, Gap
<1>9. ASSUME NEW p \in Paths, NEW w \in Shown(p)', NEW r \in Notes, r.v <= vault[p].v,
             Behind(r, p, w)'
      PROVE  (w \in Shown(p) /\ Behind(r, p, w)) \/ Unheard(p, w)'
  <2>0. w \in Nat /\ r.v \in Nat /\ w \in Versions /\ w <= vault'[p].v
    BY <1>9, CacheAssumption DEF Shown, Notes, Versions
  <2>1. CASE p \notin n.paths
    <3>1. vault'[p] = vault[p]
      BY <1>2, <2>1 DEF Announced
    <3>. QED
      BY <1>9, <3>1 DEF Shown, Behind
  <2>2. CASE p \in n.paths
    <3>1. vault'[p].v = NextVersion
      BY <1>2, <2>2 DEF Announced
    <3>2. r.v # vault'[p].v
      BY <1>3, <1>4, <1>5, <1>9, <2>0, <3>1
    <3>3. r.v < w
      BY <1>9, <3>2 DEF Behind
    <3>4. CASE w <= vault[p].v
      BY <2>0, <3>3, <3>4 DEF Shown, Behind
    <3>5. CASE vault[p].v < w
      <4>1. told[p] < w /\ told' = told
        BY <1>1, <1>5, <2>0, <3>5 DEF NoticeInv
      <4>. QED
        BY <1>7, <2>2, <4>1 DEF Unheard
    <3>. QED
      BY <1>5, <2>0, <3>4, <3>5
  <2>. QED
    BY <2>1, <2>2
<1>10. Unsurprising
  BY <1>9 DEF Unsurprising
<1>. QED
  BY <1>8, <1>10

LEMMA EditStep ==
  ASSUME CacheInv, Edits
  PROVE  SafeInv'
<1>1. TypeOK /\ QueueInv /\ NoticeInv /\ AwareInv /\ ReconcileInv /\ CompleteInv
  BY DEF CacheInv, SafeInv
<1>2. UNCHANGED <<rows, scan, held, sup, told>> /\ ToolWork
  BY <1>1, EditEffect
<1>3. Unsurprising /\ Expected
  BY <1>1, EditIsUnknown
<1>4. /\ Doubting(cache, cache')
      /\ cache'.requested = cache.requested /\ cache'.force = cache.force
      /\ Extends(writes, writes')
  BY <1>1, <1>2, ToolWorkEffect
<1>5. \A p \in Paths : (Asked(p) => Asked(p)') /\ (AskedAgain(p) => AskedAgain(p)')
  BY <1>2, <1>4, AskedKept DEF NothingHeld
<1>6. \A p \in Paths : Doubted(p) => Doubted(p)'
  BY <1>2, <1>4, DoubtsKept
<1>7. \A p \in Paths : Forced(p) => Forced(p)'
  BY <1>2, <1>4, <1>6, ForcedWorkKept DEF Forced
<1>8. AwareInv'
  BY <1>1, <1>2, <1>3, <1>5, AwareKept
<1>9. ReconcileInv'
  BY <1>1, <1>2, <1>3, <1>7, ReconcileKept
<1>10. cache'.eventWork = cache.eventWork /\ (cache.state # "complete" => cache'.state # "complete")
  BY <1>4 DEF Doubting
<1>11. CompleteInv'
  BY <1>1, <1>2, <1>6, <1>10, CompleteKept
<1>. QED
  BY <1>1, <1>8, <1>9, <1>11, EditQueue, EditNotices DEF SafeInv

-----------------------------------------------------------------------------
(* The scan at the head of the queue. *)

LEMMA NothingNew ==
  ASSUME UNCHANGED <<writes, held, sup>>
  PROVE  \A p \in Paths : (Asked(p) => Asked(p)') /\ (AskedAgain(p) => AskedAgain(p)')
  BY DEF Asked, AskedAgain, NothingHeld

LEMMA ScanStartStep ==
  ASSUME CacheInv, ScanStart, UNCHANGED <<sup, link, subscribed, transit, told>>
  PROVE  SafeInv'
<1>1. TypeOK /\ QueueInv /\ NoticeInv /\ AwareInv /\ ReconcileInv /\ CompleteInv
  BY DEF CacheInv, SafeInv
<1>2. UNCHANGED <<vault, rows, writes, held>> /\ Scanning /\ ~scan.on
  BY DEF ScanStart
<1>3. DEFINE force == MustReadAll(Head(writes))
<1>4. /\ scan'.on /\ scan'.force = force /\ ~scan'.listed /\ scan'.todo = {}
      /\ scan' = [NoScan EXCEPT !.on = TRUE, !.force = force]
  BY DEF ScanStart, NoScan
<1>5. /\ cache'.state = "building" /\ cache'.run = cache.run
      /\ cache'.requested = cache.requested /\ cache'.force = cache.force
      /\ cache'.eventWork = cache.eventWork
  BY <1>1 DEF ScanStart, TypeOK, Caches
<1>6. cache.error \/ ~cache.ready \/ Head(writes).force => force
  BY DEF MustReadAll
<1>. HIDE DEF force
<1>7. NothingHeld
  BY <1>1, <1>2 DEF QueueInv, Scanning, Updating
<1>8. QueueInv'
  BY <1>1, <1>2, <1>4, <1>5, <1>7 DEF QueueInv, Scanning, Updating, NothingHeld
<1>9. NoticeInv'
  BY <1>1, <1>2 DEF NoticeInv
<1>10. Unsurprising /\ Expected
  BY <1>2, StillVault
<1>11. AwareInv'
  BY <1>1, <1>2, <1>10, NothingNew, AwareKept
<1>12. \A p \in Paths : Doubted(p) => Doubted(p)'
  BY <1>2, <1>4, <1>6 DEF Doubted
<1>13. \A p \in Paths : ForcedWork => ForcedWork' \/ Doubted(p)'
  <2>1. ASSUME NEW k \in DOMAIN writes, writes[k].kind = "refresh", writes[k].force, k = 1
        PROVE  force
    BY <1>1, <1>6, <2>1 DEF TypeOK
  <2>. QED
    BY <1>2, <1>4, <2>1 DEF ForcedWork, Doubted
<1>14. \A p \in Paths : Forced(p) => Forced(p)'
  BY <1>5, <1>12, <1>13 DEF Forced
<1>15. ReconcileInv'
  BY <1>1, <1>2, <1>10, <1>14, ReconcileKept
<1>16. CompleteInv'
  BY <1>1, <1>2, <1>5, <1>12, CompleteKept
<1>. QED
  BY <1>8, <1>9, <1>11, <1>15, <1>16 DEF SafeInv

LEMMA ScanListStep ==
  ASSUME CacheInv, ScanList, UNCHANGED <<sup, link, subscribed, transit, told>>
  PROVE  SafeInv'
<1>1. TypeOK /\ QueueInv /\ NoticeInv /\ AwareInv /\ ReconcileInv /\ CompleteInv
  BY DEF CacheInv, SafeInv
<1>2. UNCHANGED <<vault, cache, writes, held>> /\ scan.on /\ ~scan.listed
  BY DEF ScanList
<1>3. /\ scan'.on /\ scan'.listed /\ scan'.force = scan.force /\ scan'.failed = scan.failed
      /\ \A p \in Paths : p \in scan'.todo <=> vault[p].there
  BY <1>2 DEF ScanList, TypeOK, CacheInv
<1>4. \A p \in Paths : rows'[p] = IF vault[p].there THEN rows[p] ELSE vault[p]
  BY DEF ScanList
<1>5. NothingHeld /\ DOMAIN held = {}
  BY <1>1, <1>2 DEF QueueInv, NothingHeld
<1>6. QueueInv'
  BY <1>1, <1>2, <1>3, <1>5 DEF QueueInv, Scanning, NothingHeld
<1>7. NoticeInv'
  <2>1. \A p \in Paths : rows'[p].v <= vault[p].v
    BY <1>1, <1>4, NumberTypes DEF NoticeInv
  <2>. QED
    BY <1>1, <1>2, <2>1 DEF NoticeInv
<1>8. \A p \in Paths : \A w \in Shown(p) : ~Behind(vault[p], p, w)
  BY <1>1, CacheAssumption DEF Shown, Behind, TypeOK, Notes, Versions
<1>9. \A p \in Paths : /\ Shown(p)' = Shown(p)
                       /\ \A w : Unheard(p, w)' <=> Unheard(p, w)
                       /\ \A r, w : Behind(r, p, w)' <=> Behind(r, p, w)
  BY <1>2 DEF Shown, Unheard, InTransit, Gap, Behind
<1>10. \A p \in Paths : \A w \in Shown(p) :
         Behind(rows'[p], p, w) => vault[p].there /\ rows'[p] = rows[p]
  BY <1>4, <1>8
<1>11. AwareInv'
  <2>. SUFFICES ASSUME NEW p \in Paths, NEW w \in Shown(p), Behind(rows'[p], p, w)
                PROVE  sup.dirty \/ Asked(p)' \/ Unheard(p, w)
    BY <1>2, <1>5, <1>9 DEF AwareInv, Behind
  <2>. QED
    BY <1>1, <1>2, <1>10, NothingNew DEF AwareInv
<1>12. \A p \in Paths : vault[p].there => (Doubted(p) => Doubted(p)')
  BY <1>2, <1>3 DEF Doubted
<1>13. \A p \in Paths : vault[p].there => (Forced(p) => Forced(p)')
  BY <1>2, <1>3, <1>12 DEF Forced, ForcedWork
<1>14. ReconcileInv'
  <2>. SUFFICES ASSUME sup.pump = "reconcile", ~sup.moved,
                       NEW p \in Paths, NEW w \in Shown(p), Behind(rows'[p], p, w)
                PROVE  p \in sup.pending \/ Unheard(p, w) \/ Forced(p)'
    BY <1>2, <1>5, <1>9 DEF ReconcileInv, Behind
  <2>. QED
    BY <1>1, <1>5, <1>10, <1>13 DEF ReconcileInv
<1>15. CompleteInv'
  <2>1. \A p \in Paths : rows'[p].v < told[p] => vault[p].there /\ rows'[p] = rows[p]
    BY <1>1, <1>4, CacheAssumption DEF NoticeInv, TypeOK, Notes, Versions
  <2>. QED
    BY <1>1, <1>2, <1>5, <1>12, <2>1 DEF CompleteInv
<1>. QED
  BY <1>6, <1>7, <1>11, <1>14, <1>15 DEF SafeInv

(* While the scan is on, the head is no update.                            *)
LEMMA ScanAlone ==
  ASSUME QueueInv, scan.on
  PROVE  \A k \in DOMAIN writes : k = 1 => ~IsUpdate(writes[k])
  BY DEF QueueInv, Scanning, IsUpdate

LEMMA AskedWhileScanning ==
  ASSUME QueueInv, scan.on, UNCHANGED <<writes, sup>>
  PROVE  \A p \in Paths : /\ Asked(p) => Asked(p)'
                          /\ AskedAgain(p) => AskedAgain(p)'
                          /\ Asked(p) => AskedAgain(p)
  BY ScanAlone DEF Asked, AskedAgain

LEMMA SameNotices ==
  ASSUME NoticeInv, UNCHANGED <<vault, transit, told>>,
         \A p \in Paths : rows'[p].v <= vault[p].v,
         \A p \in DOMAIN held' : held'[p].v <= vault[p].v
  PROVE  NoticeInv'
  BY DEF NoticeInv

LEMMA SameSight ==
  ASSUME UNCHANGED <<vault, link, subscribed, transit, told>>
  PROVE  \A p \in Paths : /\ Shown(p)' = Shown(p)
                          /\ \A w : Unheard(p, w)' <=> Unheard(p, w)
                          /\ \A r, w : Behind(r, p, w)' <=> Behind(r, p, w)
  BY DEF Shown, Unheard, InTransit, Gap, Behind

LEMMA VaultIsCurrent ==
  ASSUME TypeOK
  PROVE  \A p \in Paths : \A w \in Shown(p) : ~Behind(vault[p], p, w)
  BY NumberTypes, CacheAssumption DEF Shown, Behind, Versions

LEMMA ScanNoteStep ==
  ASSUME CacheInv, NEW q \in Paths, ScanNote(q), UNCHANGED <<sup, link, subscribed, transit, told>>
  PROVE  SafeInv'
<1>1. TypeOK /\ QueueInv /\ NoticeInv /\ AwareInv /\ ReconcileInv /\ CompleteInv
  BY DEF CacheInv, SafeInv
<1>2. UNCHANGED <<vault, rows, cache, writes>> /\ q \in scan.todo
  BY DEF ScanNote
<1>3. scan.on /\ scan.listed
  BY <1>1, <1>2 DEF QueueInv
<1>4. /\ scan'.on /\ scan'.listed /\ scan'.force = scan.force
      /\ scan'.todo = scan.todo \ {q} /\ (scan.failed => scan'.failed)
  BY <1>1, <1>3 DEF ScanNote, TypeOK
(* The note is held, or was not to be read, or is missed.                  *)
<1>5. \/ held' = Holding(q)
      \/ held' = held /\ ~scan.force
      \/ held' = held /\ scan'.failed
  BY <1>1 DEF ScanNote, MustRead, TypeOK
<1>6. \A p \in Paths : p # q =>
        /\ p \in DOMAIN held' <=> p \in DOMAIN held
        /\ p \in DOMAIN held => held'[p] = held[p]
  BY <1>5 DEF Holding
<1>7. \/ q \in DOMAIN held' /\ held'[q] = vault[q]
      \/ held' = held /\ ~scan.force
      \/ held' = held /\ scan'.failed
  BY <1>5 DEF Holding
<1>8. DOMAIN held' \subseteq Paths
  BY <1>1, <1>5 DEF TypeOK, Holding
<1>. HIDE <1>5
<1>9. QueueInv'
  BY <1>1, <1>2, <1>3, <1>4 DEF QueueInv, Scanning
<1>10. NoticeInv'
  <2>1. \A p \in DOMAIN held' : held'[p].v <= vault[p].v
    BY <1>1, <1>6, <1>7, <1>8, NumberTypes DEF NoticeInv
  <2>. QED
    BY <1>1, <1>2, <2>1, SameNotices DEF NoticeInv
<1>11. \A p \in Paths : /\ Shown(p)' = Shown(p)
                        /\ \A w : Unheard(p, w)' <=> Unheard(p, w)
                        /\ \A r, w : Behind(r, p, w)' <=> Behind(r, p, w)
  BY <1>2, SameSight
<1>12. \A p \in Paths : \A w \in Shown(p) :
         p \in DOMAIN held' /\ Behind(held'[p], p, w) => p \in DOMAIN held /\ held'[p] = held[p]
  BY <1>1, <1>6, <1>7, VaultIsCurrent
<1>13. AwareInv'
  <2>1. \A p \in Paths : /\ Asked(p) => Asked(p)'
                         /\ AskedAgain(p) => AskedAgain(p)'
    BY <1>1, <1>2, <1>3, AskedWhileScanning
  <2>. SUFFICES ASSUME NEW p \in Paths, NEW w \in Shown(p)
                PROVE  /\ Behind(rows[p], p, w) => sup.dirty \/ Asked(p)' \/ Unheard(p, w)
                       /\ p \in DOMAIN held' /\ Behind(held'[p], p, w) =>
                            sup.dirty \/ AskedAgain(p)' \/ Unheard(p, w)
    BY <1>2, <1>11 DEF AwareInv, Behind
  <2>. QED
    BY <1>1, <1>12, <2>1 DEF AwareInv
<1>14. \A p \in Paths : Doubted(p) =>
         \/ Doubted(p)'
         \/ p \in DOMAIN held' /\ held'[p] = vault[p]
  BY <1>2, <1>3, <1>4, <1>7 DEF Doubted
<1>15. \A p \in Paths : Forced(p) =>
         \/ Forced(p)'
         \/ p \in DOMAIN held' /\ held'[p] = vault[p]
  BY <1>2, <1>3, <1>4, <1>14 DEF Forced, ForcedWork
<1>16. \A p \in Paths : p \in DOMAIN held => p \in DOMAIN held'
  BY <1>6, <1>7
<1>17. ReconcileInv'
  <2>. SUFFICES ASSUME sup.pump = "reconcile", ~sup.moved, NEW p \in Paths, NEW w \in Shown(p)
                PROVE  /\ Behind(rows[p], p, w) =>
                            p \in sup.pending \/ Unheard(p, w) \/ Forced(p)' \/ p \in DOMAIN held'
                       /\ p \in DOMAIN held' /\ Behind(held'[p], p, w) =>
                            p \in sup.pending \/ Unheard(p, w) \/ Forced(p)'
    BY <1>2, <1>4, <1>11 DEF ReconcileInv, Behind
  <2>1. /\ Behind(rows[p], p, w) =>
             p \in sup.pending \/ Unheard(p, w) \/ Forced(p) \/ (scan.on /\ p \in DOMAIN held)
        /\ p \in DOMAIN held /\ Behind(held[p], p, w) =>
             p \in sup.pending \/ Unheard(p, w) \/ Forced(p)
    BY <1>1 DEF ReconcileInv
  <2>2. ~Behind(vault[p], p, w)
    BY <1>1, VaultIsCurrent
  <2>. QED
    BY <1>12, <1>15, <1>16, <2>1, <2>2
<1>18. CompleteInv'
  <2>. SUFFICES ASSUME NEW p \in Paths
                PROVE  /\ cache.eventWork => cache.state # "complete"
                       /\ rows[p].v < told[p] =>
                            /\ cache.state # "complete"
                            /\ \/ cache.eventWork \/ Doubted(p)'
                               \/ p \in DOMAIN held' /\ held'[p].v >= told[p]
                       /\ p \in DOMAIN held' /\ held'[p].v < told[p] =>
                            cache.state # "complete" /\ (cache.eventWork \/ Doubted(p)')
    BY <1>2, <1>4 DEF CompleteInv
  <2>1. /\ cache.eventWork => cache.state # "complete"
        /\ rows[p].v < told[p] =>
             /\ cache.state # "complete"
             /\ \/ cache.eventWork \/ Doubted(p)
                \/ scan.on /\ p \in DOMAIN held /\ held[p].v >= told[p]
        /\ p \in DOMAIN held /\ held[p].v < told[p] =>
             cache.state # "complete" /\ (cache.eventWork \/ Doubted(p))
    BY <1>1 DEF CompleteInv
  <2>2. vault[p].v >= told[p] /\ ~(vault[p].v < told[p])
    BY <1>1, NumberTypes DEF NoticeInv
  <2>3. p \in DOMAIN held' => held'[p] = vault[p] \/ (p \in DOMAIN held /\ held'[p] = held[p])
    BY <1>6, <1>7
  <2>4. p \in DOMAIN held =>
          p \in DOMAIN held' /\ (held'[p] = held[p] \/ held'[p] = vault[p])
    BY <1>6, <1>7
  <2>. QED
    BY <1>14, <2>1, <2>2, <2>3, <2>4
<1>. QED
  BY <1>9, <1>10, <1>13, <1>17, <1>18 DEF SafeInv

LEMMA ScanStoreStep ==
  ASSUME CacheInv, NEW q \in Paths, ScanStore(q), UNCHANGED <<sup, link, subscribed, transit, told>>
  PROVE  SafeInv'
<1>1. TypeOK /\ QueueInv /\ NoticeInv /\ AwareInv /\ ReconcileInv /\ CompleteInv
  BY DEF CacheInv, SafeInv
<1>2. UNCHANGED <<vault, cache, writes, scan>> /\ scan.on /\ q \in DOMAIN held
  BY DEF ScanStore
<1>3. /\ rows'[q] = held[q]
      /\ \A p \in Paths : p # q => rows'[p] = rows[p]
  BY <1>1 DEF ScanStore, TypeOK
<1>4. /\ DOMAIN held' = DOMAIN held \ {q}
      /\ \A p \in DOMAIN held' : held'[p] = held[p]
  BY DEF ScanStore, Released
<1>5. QueueInv'
  BY <1>1, <1>2, <1>4 DEF QueueInv, Scanning, NothingHeld
<1>6. NoticeInv'
  <2>1. \A p \in Paths : rows'[p].v <= vault[p].v
    BY <1>1, <1>2, <1>3 DEF NoticeInv
  <2>2. \A p \in DOMAIN held' : held'[p].v <= vault[p].v
    BY <1>1, <1>4 DEF NoticeInv
  <2>. QED
    BY <1>1, <1>2, <2>1, <2>2, SameNotices
<1>7. \A p \in Paths : /\ Shown(p)' = Shown(p)
                       /\ \A w : Unheard(p, w)' <=> Unheard(p, w)
                       /\ \A r, w : Behind(r, p, w)' <=> Behind(r, p, w)
  BY <1>2, SameSight
<1>8. \A p \in Paths : /\ Asked(p) => Asked(p)'
                       /\ AskedAgain(p) => AskedAgain(p)'
                       /\ AskedAgain(p) => Asked(p)
  BY <1>1, <1>2, AskedWhileScanning DEF Asked, AskedAgain
<1>9. AwareInv'
  <2>. SUFFICES ASSUME NEW p \in Paths, NEW w \in Shown(p)
                PROVE  /\ Behind(rows'[p], p, w) => sup.dirty \/ Asked(p)' \/ Unheard(p, w)
                       /\ p \in DOMAIN held' /\ Behind(held'[p], p, w) =>
                            sup.dirty \/ AskedAgain(p)' \/ Unheard(p, w)
    BY <1>7 DEF AwareInv, Behind
  <2>1. /\ Behind(rows[p], p, w) => sup.dirty \/ Asked(p) \/ Unheard(p, w)
        /\ p \in DOMAIN held /\ Behind(held[p], p, w) =>
             sup.dirty \/ AskedAgain(p) \/ Unheard(p, w)
    BY <1>1 DEF AwareInv
  <2>. QED
    BY <1>2, <1>3, <1>4, <1>8, <2>1
<1>10. \A p \in Paths : (Forced(p)' <=> Forced(p)) /\ (Doubted(p)' <=> Doubted(p))
  BY <1>2 DEF Forced, ForcedWork, Doubted
<1>11. ReconcileInv'
  <2>. SUFFICES ASSUME sup.pump = "reconcile", ~sup.moved, NEW p \in Paths, NEW w \in Shown(p)
                PROVE  /\ Behind(rows'[p], p, w) =>
                            p \in sup.pending \/ Unheard(p, w) \/ Forced(p) \/ p \in DOMAIN held'
                       /\ p \in DOMAIN held' /\ Behind(held'[p], p, w) =>
                            p \in sup.pending \/ Unheard(p, w) \/ Forced(p)
    BY <1>2, <1>7, <1>10 DEF ReconcileInv, Behind
  <2>1. /\ Behind(rows[p], p, w) =>
             p \in sup.pending \/ Unheard(p, w) \/ Forced(p) \/ (scan.on /\ p \in DOMAIN held)
        /\ p \in DOMAIN held /\ Behind(held[p], p, w) =>
             p \in sup.pending \/ Unheard(p, w) \/ Forced(p)
    BY <1>1 DEF ReconcileInv
  <2>. QED
    BY <1>2, <1>3, <1>4, <2>1
<1>12. CompleteInv'
  <2>. SUFFICES ASSUME NEW p \in Paths
                PROVE  /\ cache.eventWork => cache.state # "complete"
                       /\ rows'[p].v < told[p] =>
                            /\ cache.state # "complete"
                            /\ \/ cache.eventWork \/ Doubted(p)
                               \/ p \in DOMAIN held' /\ held'[p].v >= told[p]
                       /\ p \in DOMAIN held' /\ held'[p].v < told[p] =>
                            cache.state # "complete" /\ (cache.eventWork \/ Doubted(p))
    BY <1>2, <1>10 DEF CompleteInv
  <2>. QED
    BY <1>1, <1>2, <1>3, <1>4 DEF CompleteInv
<1>. QED
  BY <1>5, <1>6, <1>9, <1>11, <1>12 DEF SafeInv

LEMMA ScanStep ==
  ASSUME CacheInv, Scan
  PROVE  SafeInv'
<1>1. UNCHANGED <<sup, link, subscribed, transit, told>>
  BY DEF Scan, eventVars
<1>. QED
  BY <1>1, ScanStartStep, ScanListStep, ScanNoteStep, ScanStoreStep DEF Scan

-----------------------------------------------------------------------------
(* The end of a scan, with the supervisor that waits for it. *)

LEMMA OrderlyOther ==
  ASSUME NEW w, NEW run, NEW pump, pump # "update", Orderly(w, run, pump)
  PROVE  \A other : Orderly(w, run, other)
  BY DEF Orderly

(* Who waits behind the head waits in the tail. *)
LEMMA TailWaits ==
  ASSUME NEW w \in Queues, w # <<>>
  PROVE  /\ Tail(w) \in Queues
         /\ \A k \in DOMAIN w : k = 1 \/ \E l \in DOMAIN Tail(w) : Tail(w)[l] = w[k]
         /\ Head(w) = w[1] /\ 1 \in DOMAIN w
<1>1. /\ DOMAIN w = 1 .. Len(w) /\ Len(w) \in Nat \ {0}
      /\ DOMAIN Tail(w) = 1 .. Len(w) - 1
      /\ \A k \in 1 .. Len(w) - 1 : Tail(w)[k] = w[k + 1]
      /\ Head(w) = w[1] /\ Tail(w) \in Queues
  BY TailJobs
<1>2. ASSUME NEW k \in DOMAIN w, k # 1
      PROVE  \E l \in DOMAIN Tail(w) : Tail(w)[l] = w[k]
  <2>1. k - 1 \in 1 .. Len(w) - 1 /\ (k - 1) + 1 = k
    BY <1>1, <1>2
  <2>2. Tail(w)[k - 1] = w[k]
    BY <1>1, <2>1
  <2>. QED
    BY <1>1, <2>1, <2>2
<1>. QED
  BY <1>1, <1>2

LEMMA LoopedQueue ==
  ASSUME NEW c \in Caches, NEW w \in Queues
  PROVE  Looped(c, w)[2] \in Queues /\ Extends(w, Looped(c, w)[2])
<1>1. [kind |-> "refresh", force |-> c.force] \in Work
  BY DEF Work, Caches
<1>2. Looped(c, w)[2] = w \/ Looped(c, w)[2] = Append(w, [kind |-> "refresh", force |-> c.force])
  BY LoopedEffect
<1>3. Extends(w, w)
  BY DEF Extends
<1>4. Extends(w, Append(w, [kind |-> "refresh", force |-> c.force]))
  BY <1>1, AppendExtends
<1>. QED
  BY <1>2, <1>3, <1>4, LoopedTypes

(* The loop's step in the flags d and the queue v; the flush goes on when  *)
(* it waited for the run and the run is over.                              *)
PassEffect(c, d, v) ==
  /\ writes' = v /\ Doubting(c, cache') /\ cache'.run = d.run /\ cache'.requested = d.requested
  /\ sup'.pending = sup.pending /\ (d.error => cache'.error)
  /\ \/ (d.run \/ sup.pump # "reconcile") /\ sup' = sup /\ cache' = d
     \/ /\ ~d.run /\ sup.pump = "reconcile" /\ sup'.pump = "drain"
        /\ sup'.dirty \/ (d.ready /\ ~d.error /\ ~sup.moved)

LEMMA PassEndsEffect ==
  ASSUME TypeOK, writes # <<>>, NEW c \in Caches, PassEnds(c)
  PROVE  LET d == Looped(c, Tail(writes))[1]
             v == Looped(c, Tail(writes))[2]
         IN  PassEffect(c, d, v)
<1>. DEFINE next == Looped(c, Tail(writes))
            d    == next[1]
            v    == next[2]
            ok   == d.ready /\ ~d.error
<1>1. Tail(writes) \in Queues
  BY TailJobs, WorkFacts
<1>2. d \in Caches /\ Doubting(c, d)
  BY <1>1, LoopedTypes, LoopedEffect
<1>3. /\ writes' = v
      /\ IF d.run \/ sup.pump # "reconcile"
         THEN cache' = d /\ UNCHANGED sup
         ELSE /\ cache' = IF ok THEN d ELSE MarkUncertain(d)
              /\ sup' = Reconciled(ok)
  BY DEF PassEnds
<1>. HIDE DEF d, v
<1>4. /\ Doubting(d, MarkUncertain(d)) /\ MarkUncertain(d).run = d.run
      /\ MarkUncertain(d).requested = d.requested /\ MarkUncertain(d).error
  BY <1>2 DEF Doubting, MarkUncertain, Caches
<1>5. Doubting(c, MarkUncertain(d))
  BY <1>2, <1>4 DEF Doubting
<1>6. /\ Reconciled(ok).pump = "drain" /\ Reconciled(ok).pending = sup.pending
      /\ Reconciled(ok).dirty \/ (ok /\ ~sup.moved)
  BY WorkFacts DEF Reconciled, Supervisors
<1>. HIDE DEF ok
<1>7. PassEffect(c, d, v)
  <2>1. CASE d.run \/ sup.pump # "reconcile"
    BY <1>2, <1>3, <2>1 DEF PassEffect
  <2>2. CASE ~(d.run \/ sup.pump # "reconcile")
    <3>1. cache' = d \/ cache' = MarkUncertain(d)
      BY <1>3, <2>2
    <3>2. /\ Doubting(c, cache') /\ cache'.run = d.run /\ cache'.requested = d.requested
          /\ d.error => cache'.error
      BY <1>2, <1>4, <1>5, <3>1
    <3>3. sup' = Reconciled(ok)
      BY <1>3, <2>2
    <3>4. sup'.dirty \/ (d.ready /\ ~d.error /\ ~sup.moved)
      BY <1>6, <3>3 DEF ok
    <3>. QED
      BY <1>3, <1>6, <2>2, <3>2, <3>3, <3>4 DEF PassEffect
  <2>. QED
    BY <2>1, <2>2
<1>. QED
  BY <1>7 DEF d, v

(* A pass ends with the flags c, which remember every doubt.               *)
PassFlags(c) ==
  /\ c.eventWork = cache.eventWork /\ c.requested = cache.requested /\ c.force = cache.force
  /\ \A p \in Paths : Doubted(p) => c.error
  /\ c.eventWork \/ c.error => c.state # "complete"

LEMMA ScanEndsEffect ==
  ASSUME TypeOK, QueueInv, ScanEnds
  PROVE  /\ UNCHANGED <<vault, rows, held, link, subscribed, transit, told>>
         /\ scan.on /\ scan' = NoScan /\ DOMAIN held = {}
         /\ \E c \in Caches : PassEnds(c) /\ PassFlags(c)
<1>1. UNCHANGED <<vault, rows, held, link, subscribed, transit, told>> /\ scan.on /\ scan' = NoScan
  BY DEF ScanEnds, eventVars
<1>2. cache \in Caches
  BY WorkFacts
<1>3. CASE ScanIsDone /\ PassEnds(Scanned)
  <2>1. Scanned \in Caches
    BY <1>2 DEF Scanned, Caches, RefreshStates
  <2>2. DOMAIN held = {} /\ scan.listed /\ scan.todo = {}
    BY <1>3 DEF ScanIsDone, NothingHeld
  <2>3. /\ Scanned.eventWork = cache.eventWork /\ Scanned.requested = cache.requested
        /\ Scanned.force = cache.force
        /\ scan.failed \/ cache.doubted => Scanned.error
        /\ Scanned.eventWork \/ Scanned.error => Scanned.state # "complete"
    BY <1>2 DEF Scanned, Caches
  <2>4. \A p \in Paths : Doubted(p) => Scanned.error
    BY <1>1, <2>2, <2>3 DEF Doubted
  <2>. QED
    BY <1>1, <1>3, <2>1, <2>2, <2>3, <2>4 DEF PassFlags
<1>4. CASE ~scan.listed /\ PassEnds(ScanAborted)
  <2>1. ScanAborted \in Caches
    BY <1>2 DEF ScanAborted, Caches, RefreshStates
  <2>2. DOMAIN held = {}
    BY <1>1, <1>4 DEF QueueInv, NothingHeld
  <2>3. /\ ScanAborted.eventWork = cache.eventWork /\ ScanAborted.requested = cache.requested
        /\ ScanAborted.force = cache.force /\ ScanAborted.error
        /\ ScanAborted.state # "complete"
    BY <1>2 DEF ScanAborted, Caches
  <2>. QED
    BY <1>1, <1>4, <2>1, <2>2, <2>3 DEF PassFlags
<1>. QED
  BY <1>1, <1>3, <1>4 DEF ScanEnds

LEMMA ScanEndsStep ==
  ASSUME CacheInv, ScanEnds
  PROVE  SafeInv'
<1>1. TypeOK /\ QueueInv /\ NoticeInv /\ AwareInv /\ ReconcileInv /\ CompleteInv
  BY DEF CacheInv, SafeInv
<1>2. /\ UNCHANGED <<vault, rows, held, link, subscribed, transit, told>>
      /\ scan.on /\ scan' = NoScan /\ ~scan'.on /\ DOMAIN held = {}
  BY <1>1, ScanEndsEffect DEF NoScan
<1>3. PICK c \in Caches : PassEnds(c) /\ PassFlags(c)
  BY <1>1, ScanEndsEffect
<1>4. writes \in Queues /\ writes # <<>> /\ Head(writes).kind = "refresh"
  BY <1>1, <1>2, WorkFacts DEF QueueInv, Scanning
<1>5. /\ Tail(writes) \in Queues
      /\ \A k \in DOMAIN writes : k = 1 \/ \E l \in DOMAIN Tail(writes) : Tail(writes)[l] = writes[k]
      /\ Head(writes) = writes[1] /\ 1 \in DOMAIN writes
  BY <1>4, TailWaits
<1>. DEFINE d == Looped(c, Tail(writes))[1]
            v == Looped(c, Tail(writes))[2]
<1>6. PassEffect(c, d, v)
  BY <1>1, <1>3, <1>4, PassEndsEffect
<1>7. /\ Doubting(c, d)
      /\ d.run => c.requested /\ v = Append(Tail(writes), [kind |-> "refresh", force |-> c.force])
      /\ c.requested /\ ~d.run => d.error /\ d.doubted
  BY <1>5, LoopedEffect
<1>8. Extends(Tail(writes), v)
  BY <1>5, LoopedQueue
<1>9. Orderly(v, d.run, sup.pump)
  <2>1. Orderly(Tail(writes), FALSE, sup.pump)
    BY <1>1, <1>4, OrderlyTail DEF QueueInv, TypeOK, Caches
  <2>. QED
    BY <1>5, <2>1, LoopedOrderly
<1>10. d.run /\ c.force => \E k \in DOMAIN v : v[k].kind = "refresh" /\ v[k].force
  <2>. DEFINE job == [kind |-> "refresh", force |-> c.force]
  <2>1. job \in Work /\ job.kind = "refresh" /\ (c.force => job.force)
    BY DEF Work, Caches
  <2>. HIDE DEF job
  <2>2. /\ Len(Tail(writes)) \in Nat
        /\ DOMAIN Append(Tail(writes), job) = 1 .. Len(Tail(writes)) + 1
        /\ Append(Tail(writes), job)[Len(Tail(writes)) + 1] = job
    BY <1>5, <2>1, AppendedJobs
  <2>3. Len(Tail(writes)) + 1 \in DOMAIN Append(Tail(writes), job)
    BY <2>2
  <2>4. d.run => v = Append(Tail(writes), job)
    BY <1>7 DEF job
  <2>. QED
    BY <2>1, <2>2, <2>3, <2>4
<1>. HIDE DEF d, v
<1>11. \A k \in DOMAIN writes : k = 1 \/ \E l \in DOMAIN writes' : writes'[l] = writes[k]
  BY <1>5, <1>6, <1>8 DEF Extends, PassEffect
<1>12. QueueInv'
  <2>1. Orderly(writes', cache'.run, sup'.pump)
    BY <1>6, <1>9, OrderlyOther DEF PassEffect
  <2>. QED
    BY <1>2, <2>1 DEF QueueInv, NoScan, NothingHeld
<1>13. NoticeInv'
  BY <1>1, <1>2 DEF NoticeInv
<1>14. \A p \in Paths : /\ Shown(p)' = Shown(p)
                        /\ \A w : Unheard(p, w)' <=> Unheard(p, w)
                        /\ \A r, w : Behind(r, p, w)' <=> Behind(r, p, w)
  BY <1>2, SameSight
<1>15. \A p \in Paths : Asked(p) => Asked(p)'
  BY <1>1, <1>2, <1>6, <1>11, ScanAlone DEF Asked, PassEffect
(* Who was behind and forced is in doubt, or a forced pass was appended.   *)
<1>16. ASSUME NEW p \in Paths, Forced(p)
       PROVE  d.error \/ (d.run /\ ForcedWork')
  <2>1. CASE Doubted(p)
    BY <1>3, <1>7, <2>1 DEF PassFlags, Doubting
  <2>2. CASE cache.requested /\ cache.force
    <3>1. c.requested /\ c.force
      BY <1>3, <2>2 DEF PassFlags
    <3>2. d.run => ForcedWork'
      BY <1>2, <1>6, <1>10, <3>1 DEF ForcedWork, PassEffect
    <3>. QED
      BY <1>7, <3>1, <3>2
  <2>3. CASE ForcedWork
    <3>1. PICK k \in DOMAIN writes : writes[k].kind = "refresh" /\ k # 1
      BY <1>2, <2>3 DEF ForcedWork
    <3>. QED
      BY <1>1, <1>4, <1>5, <3>1 DEF QueueInv, Orderly
  <2>. QED
    BY <1>16, <2>1, <2>2, <2>3 DEF Forced
<1>17. \A p \in Paths : Forced(p) => Forced(p)'
  BY <1>2, <1>6, <1>16 DEF Forced, Doubted, PassEffect
<1>18. \A p \in Paths : \A w \in Shown(p) :
         /\ Behind(rows[p], p, w) => sup.dirty \/ Asked(p) \/ Unheard(p, w)
         /\ sup.pump = "reconcile" /\ ~sup.moved /\ Behind(rows[p], p, w) =>
              p \in sup.pending \/ Unheard(p, w) \/ Forced(p)
  BY <1>1, <1>2 DEF AwareInv, ReconcileInv
<1>19. AwareInv'
  <2>. SUFFICES ASSUME NEW p \in Paths, NEW w \in Shown(p), Behind(rows[p], p, w)
                PROVE  sup'.dirty \/ Asked(p)' \/ Unheard(p, w)
    BY <1>2, <1>14 DEF AwareInv, Behind
  <2>1. CASE sup' = sup
    BY <1>15, <1>18, <2>1
  <2>2. CASE sup.pump = "reconcile" /\ ~d.run /\ ~sup.moved /\ ~d.error
    <3>1. p \in sup'.pending \/ Unheard(p, w)
      BY <1>6, <1>16, <1>18, <2>2 DEF PassEffect
    <3>. QED
      BY <3>1 DEF Asked
  <2>. QED
    BY <1>6, <2>1, <2>2 DEF PassEffect
<1>20. ReconcileInv'
  <2>. SUFFICES ASSUME sup'.pump = "reconcile", ~sup'.moved,
                       NEW p \in Paths, NEW w \in Shown(p), Behind(rows[p], p, w)
                PROVE  p \in sup'.pending \/ Unheard(p, w) \/ Forced(p)'
    BY <1>2, <1>14 DEF ReconcileInv, Behind
  <2>1. sup' = sup
    BY <1>6 DEF PassEffect
  <2>. QED
    BY <1>17, <1>18, <2>1
<1>21. CompleteInv'
  <2>1. \A p \in Paths : rows[p].v < told[p] => cache.eventWork \/ Doubted(p)
    BY <1>1, <1>2 DEF CompleteInv
  <2>2. \A p \in Paths : rows[p].v < told[p] => c.eventWork \/ c.error
    BY <1>3, <2>1 DEF PassFlags
  <2>3. c.eventWork \/ c.error => cache'.state # "complete" /\ (cache'.eventWork \/ cache'.error)
    BY <1>3, <1>6 DEF PassFlags, PassEffect, Doubting
  <2>4. cache'.eventWork => cache'.state # "complete"
    BY <1>3, <1>6 DEF PassFlags, PassEffect, Doubting
  <2>5. \A p \in Paths : cache'.error => Doubted(p)'
    BY <1>2 DEF Doubted
  <2>6. \A p \in Paths : p \notin DOMAIN held'
    BY <1>2
  <2>7. \A p \in Paths : rows'[p].v < told'[p] =>
          cache'.state # "complete" /\ (cache'.eventWork \/ Doubted(p)')
    BY <1>2, <2>2, <2>3, <2>5
  <2>. QED
    BY <2>4, <2>6, <2>7 DEF CompleteInv
<1>. QED
  BY <1>12, <1>13, <1>19, <1>20, <1>21 DEF SafeInv

-----------------------------------------------------------------------------
(* Single-note updates at the head of the queue. *)

LEMMA NoScanWhileUpdating ==
  ASSUME QueueInv, Updating
  PROVE  ~scan.on
  BY DEF QueueInv, Scanning, Updating

LEMMA UpdateReadsStep ==
  ASSUME CacheInv, UpdateReads
  PROVE  SafeInv'
<1>1. TypeOK /\ QueueInv /\ NoticeInv /\ AwareInv /\ ReconcileInv /\ CompleteInv
  BY DEF CacheInv, SafeInv
<1>2. UNCHANGED <<vault, rows, cache, writes, scan, sup, link, subscribed, transit, told>>
  BY DEF UpdateReads, eventVars
<1>. DEFINE q == Head(writes).path
<1>3. DOMAIN held = {} /\ DOMAIN held' = {q} /\ held'[q] = vault[q]
  BY DEF UpdateReads, NothingHeld, Holding
<1>4. ~scan.on /\ Updating
  BY <1>1, NoScanWhileUpdating DEF UpdateReads
<1>5. q \in Paths
  BY <1>1, <1>4 DEF Updating, TypeOK, Work
<1>6. \A p \in Paths : /\ Shown(p)' = Shown(p)
                       /\ \A w : Unheard(p, w)' <=> Unheard(p, w)
                       /\ \A r, w : Behind(r, p, w)' <=> Behind(r, p, w)
  BY <1>2, SameSight
<1>7. \A p \in Paths : /\ Asked(p)' <=> Asked(p)
                       /\ Forced(p)' <=> Forced(p)
                       /\ Doubted(p)' <=> Doubted(p)
  BY <1>2 DEF Asked, Forced, ForcedWork, Doubted
<1>8. ASSUME NEW p \in DOMAIN held'
      PROVE  p \in Paths /\ held'[p] = vault[p] /\ \A w \in Shown(p) : ~Behind(held'[p], p, w)
  BY <1>1, <1>3, <1>5, VaultIsCurrent
<1>9. QueueInv'
  BY <1>1, <1>2, <1>3, <1>4 DEF QueueInv, Updating, NothingHeld
<1>. HIDE DEF q
<1>10. NoticeInv'
  <2>1. \A p \in DOMAIN held' : held'[p].v <= vault[p].v
    BY <1>1, <1>8, NumberTypes
  <2>. QED
    BY <1>1, <1>2, <2>1, SameNotices DEF NoticeInv
<1>11. AwareInv'
  <2>1. \A p \in Paths : \A w \in Shown(p) :
          Behind(rows[p], p, w) => sup.dirty \/ Asked(p) \/ Unheard(p, w)
    BY <1>1 DEF AwareInv
  <2>. SUFFICES ASSUME NEW p \in Paths, NEW w \in Shown(p)
                PROVE  /\ Behind(rows[p], p, w) => sup.dirty \/ Asked(p)' \/ Unheard(p, w)
                       /\ p \in DOMAIN held' => ~Behind(held'[p], p, w)
    BY <1>2, <1>6 DEF AwareInv, Behind
  <2>. QED
    BY <1>7, <1>8, <2>1
<1>12. ReconcileInv'
  <2>. SUFFICES ASSUME sup.pump = "reconcile", ~sup.moved, NEW p \in Paths, NEW w \in Shown(p)
                PROVE  /\ Behind(rows[p], p, w) =>
                            p \in sup.pending \/ Unheard(p, w) \/ Forced(p)'
                       /\ p \in DOMAIN held' => ~Behind(held'[p], p, w)
    BY <1>2, <1>6 DEF ReconcileInv, Behind
  <2>1. Behind(rows[p], p, w) => p \in sup.pending \/ Unheard(p, w) \/ Forced(p)
    BY <1>1, <1>4 DEF ReconcileInv
  <2>. QED
    BY <1>7, <1>8, <2>1
<1>13. CompleteInv'
  <2>1. \A p \in Paths : rows[p].v < told[p] =>
          cache.state # "complete" /\ (cache.eventWork \/ Doubted(p))
    BY <1>1, <1>4 DEF CompleteInv
  <2>2. \A p \in DOMAIN held' : ~(held'[p].v < told[p])
    BY <1>1, <1>8, NumberTypes DEF NoticeInv
  <2>3. cache.eventWork => cache.state # "complete"
    BY <1>1 DEF CompleteInv
  <2>. QED
    BY <1>2, <1>7, <2>1, <2>2, <2>3 DEF CompleteInv
<1>. QED
  BY <1>9, <1>10, <1>11, <1>12, <1>13 DEF SafeInv

(* What the answer to an update makes of the supervisor. *)
LEMMA AnsweredEffect ==
  ASSUME TypeOK, NEW job
  PROVE  /\ Answered(job).dirty = sup.dirty /\ Answered(job).moved = sup.moved
         /\ Answered(job).pending = sup.pending
         /\ job.by = "events" => Answered(job).pump = "drain"
         /\ job.by # "events" => Answered(job) = sup
  BY WorkFacts DEF Answered, Supervisors

(* The head leaves, and its caller goes on. *)
LEMMA UpdateLeaves ==
  ASSUME TypeOK, QueueInv, Updating, writes' = Tail(writes), scan' = scan, DOMAIN held' = {},
         cache'.run = cache.run,
         \/ IsUpdate(Head(writes))
         \/ sup'.pump = sup.pump
  PROVE  QueueInv'
<1>1. ~scan.on /\ writes \in Queues /\ writes # <<>>
  BY NoScanWhileUpdating, WorkFacts DEF Updating
<1>2. Orderly(writes, cache.run, sup.pump) /\ cache.run \in BOOLEAN
  BY WorkFacts DEF QueueInv, Caches
<1>3. Orderly(Tail(writes), cache.run, sup'.pump)
  BY <1>1, <1>2, OrderlyTail
<1>. QED
  BY <1>1, <1>3 DEF QueueInv, NothingHeld

(* Who waits is not the head, or the head was for this note. *)
LEMMA UpdateLeavesAsked ==
  ASSUME TypeOK, QueueInv, Updating, writes' = Tail(writes), DOMAIN held' = {}, ~NothingHeld,
         sup'.pending = sup.pending
  PROVE  \A p \in Paths : /\ AskedAgain(p) => Asked(p)'
                          /\ p # Head(writes).path => (Asked(p) => Asked(p)')
<1>1. writes \in Queues /\ writes # <<>>
  BY WorkFacts DEF Updating
<1>2. /\ \A k \in DOMAIN writes : k = 1 \/ \E l \in DOMAIN writes' : writes'[l] = writes[k]
      /\ Head(writes) = writes[1]
  BY <1>1, TailWaits
<1>. QED
  BY <1>2 DEF Asked, AskedAgain

LEMMA UpdateLeavesForced ==
  ASSUME TypeOK, QueueInv, Updating, writes' = Tail(writes), scan' = scan, cache' = cache
  PROVE  \A p \in Paths : /\ Forced(p) => Forced(p)'
                          /\ Doubted(p) => Doubted(p)'
<1>1. ~scan.on /\ writes \in Queues /\ writes # <<>> /\ Head(writes).kind # "refresh"
  BY NoScanWhileUpdating, WorkFacts DEF Updating
<1>2. /\ \A k \in DOMAIN writes : k = 1 \/ \E l \in DOMAIN writes' : writes'[l] = writes[k]
      /\ Head(writes) = writes[1]
  BY <1>1, TailWaits
<1>3. ForcedWork => ForcedWork'
  BY <1>1, <1>2 DEF ForcedWork
<1>4. \A p \in Paths : Doubted(p) => Doubted(p)'
  BY DEF Doubted
<1>. QED
  BY <1>3, <1>4 DEF Forced

LEMMA UpdateStoresStep ==
  ASSUME CacheInv, UpdateStores
  PROVE  SafeInv'
<1>1. TypeOK /\ QueueInv /\ NoticeInv /\ AwareInv /\ ReconcileInv /\ CompleteInv
  BY DEF CacheInv, SafeInv
<1>2. /\ UNCHANGED <<vault, cache, scan, link, subscribed, transit, told>>
      /\ Updating /\ ~NothingHeld /\ writes' = Tail(writes) /\ DOMAIN held' = {}
      /\ sup' = Answered(Head(writes))
  BY DEF UpdateStores, eventVars
<1>. DEFINE q == Head(writes).path
<1>3. ~scan.on /\ DOMAIN held = {q} /\ q \in Paths
  BY <1>1, <1>2, NoScanWhileUpdating DEF QueueInv, TypeOK
<1>4. rows'[q] = held[q] /\ \A p \in Paths : p # q => rows'[p] = rows[p]
  BY <1>1, <1>3 DEF UpdateStores, TypeOK
<1>5. /\ sup'.dirty = sup.dirty /\ sup'.moved = sup.moved /\ sup'.pending = sup.pending
      /\ Head(writes).by = "events" => sup'.pump = "drain"
      /\ Head(writes).by # "events" => sup' = sup
  BY <1>1, <1>2, AnsweredEffect
<1>6. QueueInv'
  BY <1>1, <1>2, <1>5, UpdateLeaves DEF Updating, IsUpdate
<1>7. \A p \in Paths : /\ AskedAgain(p) => Asked(p)'
                       /\ p # q => (Asked(p) => Asked(p)')
  BY <1>1, <1>2, <1>5, UpdateLeavesAsked
<1>8. \A p \in Paths : /\ Forced(p) => Forced(p)'
                       /\ Doubted(p) => Doubted(p)'
  BY <1>1, <1>2, UpdateLeavesForced
<1>9. \A p \in Paths : /\ Shown(p)' = Shown(p)
                       /\ \A w : Unheard(p, w)' <=> Unheard(p, w)
                       /\ \A r, w : Behind(r, p, w)' <=> Behind(r, p, w)
  BY <1>2, SameSight
<1>. HIDE DEF q
<1>10. NoticeInv'
  <2>1. \A p \in Paths : rows'[p].v <= vault[p].v
    BY <1>1, <1>3, <1>4 DEF NoticeInv
  <2>. QED
    BY <1>1, <1>2, <2>1, SameNotices
<1>11. AwareInv'
  <2>. SUFFICES ASSUME NEW p \in Paths, NEW w \in Shown(p), Behind(rows'[p], p, w)
                PROVE  sup.dirty \/ Asked(p)' \/ Unheard(p, w)
    BY <1>2, <1>5, <1>9 DEF AwareInv, Behind
  <2>1. /\ Behind(rows[p], p, w) => sup.dirty \/ Asked(p) \/ Unheard(p, w)
        /\ p \in DOMAIN held /\ Behind(held[p], p, w) =>
             sup.dirty \/ AskedAgain(p) \/ Unheard(p, w)
    BY <1>1 DEF AwareInv
  <2>. QED
    BY <1>3, <1>4, <1>7, <2>1
<1>12. ReconcileInv'
  <2>. SUFFICES ASSUME sup'.pump = "reconcile", ~sup.moved,
                       NEW p \in Paths, NEW w \in Shown(p), Behind(rows'[p], p, w)
                PROVE  p \in sup.pending \/ Unheard(p, w) \/ Forced(p)'
    BY <1>2, <1>5, <1>9 DEF ReconcileInv, Behind
  <2>1. sup.pump = "reconcile"
    BY <1>5
  <2>2. /\ Behind(rows[p], p, w) => p \in sup.pending \/ Unheard(p, w) \/ Forced(p)
        /\ p \in DOMAIN held /\ Behind(held[p], p, w) =>
             p \in sup.pending \/ Unheard(p, w) \/ Forced(p)
    BY <1>1, <1>3, <2>1 DEF ReconcileInv
  <2>. QED
    BY <1>3, <1>4, <1>8, <2>2
<1>13. CompleteInv'
  <2>1. \A p \in Paths : rows'[p].v < told[p] =>
          cache.state # "complete" /\ (cache.eventWork \/ Doubted(p)')
    BY <1>1, <1>3, <1>4, <1>8 DEF CompleteInv
  <2>2. cache.eventWork => cache.state # "complete"
    BY <1>1 DEF CompleteInv
  <2>. QED
    BY <1>2, <2>1, <2>2 DEF CompleteInv
<1>. QED
  BY <1>6, <1>10, <1>11, <1>12, <1>13 DEF SafeInv

LEMMA UpdateFailsStep ==
  ASSUME CacheInv, UpdateFails
  PROVE  SafeInv'
<1>1. TypeOK /\ QueueInv /\ NoticeInv /\ AwareInv /\ ReconcileInv /\ CompleteInv
  BY DEF CacheInv, SafeInv
<1>. DEFINE job == Head(writes)
            x   == <<Answered(job), MarkUncertain(cache)>>
            y   == IF job.by = "events" THEN RequestReconciliation(x) ELSE x
<1>2. /\ UNCHANGED <<vault, rows, scan, held, link, subscribed, transit, told>>
      /\ Updating /\ writes' = Tail(writes) /\ DOMAIN held' = {} /\ DOMAIN held = {}
      /\ sup' = y[1] /\ cache' = y[2]
  BY DEF UpdateFails, eventVars, NothingHeld
<1>3. ~scan.on /\ job \in Work /\ job.kind = "update"
  BY <1>1, <1>2, NoScanWhileUpdating DEF Updating, TypeOK
<1>4. Answered(job) \in Supervisors /\ MarkUncertain(cache) \in Caches
  BY <1>1, WorkFacts, AnsweredTypes, FlagTypes DEF WorkTypes
<1>5. /\ MarkUncertain(cache).error /\ MarkUncertain(cache).state = "uncertain"
      /\ MarkUncertain(cache).run = cache.run
  BY <1>1, WorkFacts DEF MarkUncertain, Caches
<1>. HIDE DEF job
<1>6. NoticeInv'
  BY <1>1, <1>2 DEF NoticeInv
<1>7. CASE job.by = "events"
  <2>1. x \in Pairs /\ x[1].pump = "drain" /\ x[2].run = cache.run
    BY <1>1, <1>4, <1>5, <1>7, AnsweredEffect DEF Pairs
  <2>. HIDE DEF x
  <2>2. Carried(x, RequestReconciliation(x)) /\ Alert(RequestReconciliation(x))
    BY <2>1, ReconciliationEffect
  <2>3. sup' = RequestReconciliation(x)[1] /\ cache' = RequestReconciliation(x)[2]
    BY <1>2, <1>7
  <2>4. Alert(<<sup', cache'>>)
    BY <2>2, <2>3 DEF Alert
  <2>5. cache'.run = cache.run
    BY <2>1, <2>2, <2>3 DEF Carried
  <2>6. IsUpdate(Head(writes))
    BY <1>3, <1>7 DEF IsUpdate, job
  <2>7. QueueInv'
    BY <1>1, <1>2, <2>5, <2>6, UpdateLeaves
  <2>. QED
    BY <1>6, <2>4, <2>7, Disturbed DEF SafeInv
<1>8. CASE job.by # "events"
  <2>1. sup' = sup /\ cache' = MarkUncertain(cache)
    BY <1>1, <1>2, <1>8, AnsweredEffect
  <2>2. cache'.error /\ cache'.state = "uncertain" /\ cache'.run = cache.run
    BY <1>5, <2>1
  <2>3. QueueInv'
    BY <1>1, <1>2, <2>1, <2>2, UpdateLeaves
  <2>4. writes \in Queues /\ writes # <<>>
    BY <1>1, <1>2, WorkFacts DEF Updating
  <2>5. /\ \A k \in DOMAIN writes : k = 1 \/ \E l \in DOMAIN writes' : writes'[l] = writes[k]
        /\ Head(writes) = writes[1]
    BY <1>2, <2>4, TailWaits
  <2>6. \A p \in Paths : Asked(p) => Asked(p)'
    BY <1>8, <2>1, <2>5 DEF Asked, IsUpdate, job
  <2>7. \A p \in Paths : Doubted(p)' /\ Forced(p)'
    BY <1>2, <1>3, <2>2 DEF Doubted, Forced
  <2>8. \A p \in Paths : p \notin DOMAIN held'
    BY <1>2
  <2>9. Unsurprising /\ Expected
    BY <1>2, StillVault
  <2>10. \A p \in Paths : AskedAgain(p) => AskedAgain(p)'
    BY <1>2, <1>8, <2>1, <2>5 DEF AskedAgain, IsUpdate, job, NothingHeld
  <2>11. AwareInv'
    BY <1>1, <1>2, <2>1, <2>6, <2>9, <2>10, AwareKept
  <2>12. ReconcileInv'
    BY <2>7 DEF ReconcileInv
  <2>13. CompleteInv'
    BY <2>2, <2>7 DEF CompleteInv
  <2>. QED
    BY <1>6, <2>3, <2>11, <2>12, <2>13 DEF SafeInv
<1>. QED
  BY <1>7, <1>8

LEMMA UpdateStep ==
  ASSUME CacheInv, Update
  PROVE  SafeInv'
  BY UpdateReadsStep, UpdateStoresStep, UpdateFailsStep DEF Update

-----------------------------------------------------------------------------
(* Requests for a refresh. *)

LEMMA RefreshedQueue ==
  ASSUME NEW c \in Caches, NEW w \in Queues, NEW force \in BOOLEAN
  PROVE  Extends(w, Refreshed(c, w, force)[2])
<1>. DEFINE v == Refreshed(c, w, force)[2]
<1>1. v = w \/ \E wanted \in BOOLEAN : v = Append(w, [kind |-> "refresh", force |-> wanted])
  <2>. DEFINE d == Refreshed(c, w, force)[1]
  <2>1. RefreshedTo(c, w, force, d, v)
    BY RefreshedEffect
  <2>. HIDE DEF d, v
  <2>. QED
    BY <2>1 DEF RefreshedTo
<1>. HIDE DEF v
<1>2. \A wanted \in BOOLEAN : [kind |-> "refresh", force |-> wanted] \in Work
  BY DEF Work
<1>3. Extends(w, w)
  BY DEF Extends
<1>4. \A wanted \in BOOLEAN : Extends(w, Append(w, [kind |-> "refresh", force |-> wanted]))
  BY <1>2, AppendExtends
<1>5. Extends(w, v)
  BY <1>1, <1>3, <1>4
<1>. QED
  BY <1>5 DEF v

(* The cache is asked, with the flags c, in place of its own, that doubt   *)
(* as much: what was forced stays so, and all is when the request says so. *)
LEMMA RefreshedForced ==
  ASSUME TypeOK, QueueInv, NEW c \in Caches, NEW force \in BOOLEAN,
         \A p \in Paths : Doubted(p) => (scan.on \/ c.error \/ ~c.ready),
         c.run = cache.run, cache.doubted => c.doubted, cache.requested = c.requested,
         cache.force => c.force,
         cache' = Refreshed(c, writes, force)[1], writes' = Refreshed(c, writes, force)[2],
         scan' = scan
  PROVE  /\ \A p \in Paths : Doubted(p) => Doubted(p)'
         /\ cache'.run => \A p \in Paths : (Forced(p) \/ force) => Forced(p)'
         /\ \A p \in Paths : Forced(p) => Forced(p)'
<1>1. writes \in Queues
  BY WorkFacts
<1>2. /\ Doubting(c, cache')
      /\ c.run => cache'.run /\ writes' = writes /\ cache'.requested /\ (c.force \/ force => cache'.force)
      /\ ~c.run /\ cache'.run =>
           \E wanted \in BOOLEAN :
             /\ c.force \/ force => wanted
             /\ writes' = Append(writes, [kind |-> "refresh", force |-> wanted])
      /\ ~cache'.run => writes' = writes /\ cache'.error /\ cache'.doubted
  <2>1. RefreshedTo(c, writes, force, cache', writes')
    BY <1>1, RefreshedEffect
  <2>. QED
    BY <2>1 DEF RefreshedTo
<1>3. Extends(writes, writes')
  BY <1>1, RefreshedQueue
<1>4. \A p \in Paths : Doubted(p) => Doubted(p)'
  BY <1>2 DEF Doubted, Doubting
<1>5. ForcedWork => ForcedWork'
  BY <1>3, ForcedWorkKept
<1>6. ASSUME c.run, NEW p \in Paths, (cache.requested /\ cache.force) \/ force
      PROVE  Forced(p)'
  BY <1>2, <1>6 DEF Forced
<1>7. ASSUME ~c.run, cache'.run, c.force \/ force
      PROVE  ForcedWork'
  <2>1. PICK wanted \in BOOLEAN :
          wanted /\ writes' = Append(writes, [kind |-> "refresh", force |-> wanted])
    BY <1>2, <1>7
  <2>. DEFINE job == [kind |-> "refresh", force |-> wanted]
  <2>2. job \in Work /\ job.kind = "refresh" /\ job.force
    BY <2>1 DEF Work
  <2>3. writes' = Append(writes, job)
    BY <2>1
  <2>. HIDE DEF job
  <2>4. /\ Len(writes) \in Nat
        /\ DOMAIN writes' = 1 .. Len(writes) + 1
        /\ writes'[Len(writes) + 1] = job
    BY <1>1, <2>2, <2>3, AppendedJobs
  <2>5. Len(writes) + 1 \in DOMAIN writes'
    BY <2>4
  <2>6. ~scan.on
    BY <1>1, <1>7, TailWaits DEF QueueInv, Scanning, Orderly
  <2>. QED
    BY <2>2, <2>4, <2>5, <2>6 DEF ForcedWork
<1>8. ASSUME ~cache'.run, NEW p \in Paths
      PROVE  Doubted(p)'
  BY <1>2, <1>8 DEF Doubted
<1>9. \A p \in Paths : Doubted(p)' \/ ForcedWork' => Forced(p)'
  BY DEF Forced
<1>10. cache'.run => \A p \in Paths : (Forced(p) \/ force) => Forced(p)'
  BY <1>4, <1>5, <1>6, <1>7, <1>9 DEF Forced
<1>11. \A p \in Paths : Forced(p) => Forced(p)'
  BY <1>8, <1>9, <1>10
<1>. QED
  BY <1>4, <1>10, <1>11

(* The cache is asked with its own flags, or with a readiness taken back.  *)
LEMMA AsksStep ==
  ASSUME CacheInv, NEW force \in BOOLEAN, NEW c \in {cache, [cache EXCEPT !.ready = FALSE]},
         AsksFor(force, c)
  PROVE  SafeInv'
<1>1. TypeOK /\ QueueInv /\ NoticeInv /\ AwareInv /\ ReconcileInv /\ CompleteInv
  BY DEF CacheInv, SafeInv
<1>2. /\ c \in Caches /\ c.run = cache.run /\ c.requested = cache.requested
      /\ c.force = cache.force /\ c.error = cache.error /\ c.doubted = cache.doubted
      /\ c.eventWork = cache.eventWork /\ c.state = cache.state
      /\ ~cache.ready => ~c.ready
  BY <1>1, WorkFacts DEF Caches
<1>3. /\ UNCHANGED <<vault, rows, scan, held, sup, link, subscribed, transit, told>>
      /\ cache' = Refreshed(c, writes, force)[1] /\ writes' = Refreshed(c, writes, force)[2]
  BY DEF AsksFor, eventVars
<1>4. writes \in Queues
  BY <1>1, WorkFacts
<1>5. RefreshedTo(c, writes, force, cache', writes')
  BY <1>2, <1>3, <1>4, RefreshedEffect
<1>6. cache'.eventWork = cache.eventWork /\ (cache.state # "complete" => cache'.state # "complete")
  BY <1>2, <1>5 DEF RefreshedTo, Doubting
<1>7. Extends(writes, writes')
  BY <1>2, <1>3, <1>4, RefreshedQueue
<1>8. QueueInv'
  <2>1. Orderly(writes', cache'.run, sup.pump)
    BY <1>1, <1>2, <1>3, <1>4, RefreshedOrderly DEF QueueInv
  <2>2. writes # <<>> => writes' # <<>> /\ Head(writes') = Head(writes)
    BY <1>2, <1>3, <1>4, RefreshedHead
  <2>. QED
    BY <1>1, <1>3, <2>1, <2>2, HeadsKept
<1>9. /\ \A p \in Paths : Doubted(p) => Doubted(p)'
      /\ \A p \in Paths : Forced(p) => Forced(p)'
  <2>1. \A p \in Paths : Doubted(p) => (scan.on \/ c.error \/ ~c.ready)
    BY <1>2 DEF Doubted
  <2>. QED
    BY <1>1, <1>2, <1>3, <2>1, RefreshedForced
<1>10. \A p \in Paths : (Asked(p) => Asked(p)') /\ (AskedAgain(p) => AskedAgain(p)')
  BY <1>3, <1>7, AskedKept DEF NothingHeld
<1>11. Unsurprising /\ Expected
  BY <1>3, StillVault
<1>12. NoticeInv'
  BY <1>1, <1>3 DEF NoticeInv
<1>13. AwareInv'
  BY <1>1, <1>3, <1>10, <1>11, AwareKept
<1>14. ReconcileInv'
  BY <1>1, <1>3, <1>9, <1>11, ReconcileKept
<1>15. CompleteInv'
  BY <1>1, <1>3, <1>6, <1>9, CompleteKept
<1>. QED
  BY <1>8, <1>12, <1>13, <1>14, <1>15 DEF SafeInv

-----------------------------------------------------------------------------
(* flush(). *)

LEMMA TimerFiresStep ==
  ASSUME CacheInv, TimerFires
  PROVE  SafeInv'
<1>1. TypeOK /\ QueueInv /\ NoticeInv /\ AwareInv /\ ReconcileInv /\ CompleteInv
  BY DEF CacheInv, SafeInv
<1>2. UNCHANGED <<vault, rows, scan, held, link, subscribed, transit, told>> /\ sup.pump = "timer"
  BY DEF TimerFires, eventVars
<1>3. writes \in Queues /\ cache \in Caches /\ sup \in Supervisors
  BY <1>1, WorkFacts
<1>4. \A pump : Orderly(writes, cache.run, pump)
  BY <1>1, <1>2, OrderlyOther DEF QueueInv
<1>5. Unsurprising /\ Expected
  BY <1>2, StillVault
<1>6. NoticeInv'
  BY <1>1, <1>2 DEF NoticeInv
<1>7. CASE sup' = [sup EXCEPT !.pump = "drain"] /\ UNCHANGED <<cache, writes>>
  <2>1. sup'.pump = "drain" /\ sup'.dirty = sup.dirty /\ sup'.pending = sup.pending
    BY <1>3, <1>7 DEF Supervisors
  <2>2. QueueInv'
    BY <1>1, <1>2, <1>4, <1>7, HeadsKept
  <2>3. \A p \in Paths : /\ Asked(p) => Asked(p)'
                         /\ AskedAgain(p) => AskedAgain(p)'
                         /\ Doubted(p) => Doubted(p)'
    BY <1>2, <1>7, <2>1 DEF Asked, AskedAgain, NothingHeld, Doubted
  <2>4. AwareInv'
    BY <1>1, <1>2, <1>5, <2>1, <2>3, AwareKept
  <2>5. ReconcileInv'
    BY <2>1 DEF ReconcileInv
  <2>6. CompleteInv'
    BY <1>1, <1>2, <1>7, <2>3, CompleteKept
  <2>. QED
    BY <1>6, <2>2, <2>4, <2>5, <2>6 DEF SafeInv
<1>8. CASE /\ sup.dirty
           /\ cache' = Refreshed(cache, writes, TRUE)[1] /\ writes' = Refreshed(cache, writes, TRUE)[2]
           /\ sup' = [sup EXCEPT !.moved = FALSE,
                                 !.pump = IF cache'.run THEN "reconcile" ELSE "drain"]
  <2>1. sup'.dirty /\ (sup'.pump = "reconcile" => cache'.run)
    BY <1>3, <1>8 DEF Supervisors
  <2>2. RefreshedTo(cache, writes, TRUE, cache', writes')
    BY <1>3, <1>8, RefreshedEffect
  <2>3. cache'.eventWork = cache.eventWork /\ (cache.state # "complete" => cache'.state # "complete")
    BY <2>2 DEF RefreshedTo, Doubting
  <2>4. QueueInv'
    <3>1. Orderly(writes', cache'.run, sup'.pump)
      BY <1>3, <1>4, <1>8, RefreshedOrderly
    <3>2. writes # <<>> => writes' # <<>> /\ Head(writes') = Head(writes)
      BY <1>3, <1>8, RefreshedHead
    <3>. QED
      BY <1>1, <1>2, <3>1, <3>2, HeadsKept
  <2>5. /\ \A p \in Paths : Doubted(p) => Doubted(p)'
        /\ cache'.run => \A p \in Paths : Forced(p)'
    <3>1. \A p \in Paths : Doubted(p) => (scan.on \/ cache.error \/ ~cache.ready)
      BY DEF Doubted
    <3>. QED
      BY <1>1, <1>2, <1>3, <1>8, <3>1, RefreshedForced
  <2>6. AwareInv'
    BY <2>1 DEF AwareInv
  <2>7. ReconcileInv'
    BY <2>1, <2>5 DEF ReconcileInv
  <2>8. CompleteInv'
    BY <1>1, <1>2, <2>3, <2>5, CompleteKept
  <2>. QED
    BY <1>6, <2>4, <2>6, <2>7, <2>8 DEF SafeInv
<1>. QED
  BY <1>7, <1>8 DEF TimerFires

LEMMA FlushEndsStep ==
  ASSUME CacheInv, FlushEnds
  PROVE  SafeInv'
<1>1. TypeOK /\ QueueInv /\ NoticeInv /\ AwareInv /\ ReconcileInv /\ CompleteInv
  BY DEF CacheInv, SafeInv
<1>2. UNCHANGED <<vault, rows, writes, scan, held, link, subscribed, transit, told>> /\ sup.pump = "drain"
  BY DEF FlushEnds, eventVars
<1>3. cache \in Caches /\ sup \in Supervisors
  BY <1>1, WorkFacts
<1>. DEFINE settled == ~sup.dirty /\ sup.pending = {}
            s == [sup EXCEPT !.pump = "idle", !.drained = 0]
            c == IF settled THEN Settle(cache) ELSE cache
            x == <<s, c>>
<1>4. /\ s \in Supervisors /\ s.pump = "idle" /\ s.dirty = sup.dirty /\ s.pending = sup.pending
  <2>1. 0 \in 0 .. BatchSize
    BY EventsAssumption
  <2>. QED
    BY <1>3, <2>1 DEF Supervisors
<1>5. /\ c \in Caches /\ c.run = cache.run
      /\ settled => ~c.eventWork
      /\ ~settled => c = cache
  BY <1>3 DEF Settle, Caches, RefreshStates
<1>6. sup' = Scheduled(x)[1] /\ cache' = Scheduled(x)[2]
  BY DEF FlushEnds
<1>. HIDE DEF s, c
<1>7. x \in Pairs /\ x[1] = s /\ x[2] = c
  BY <1>4, <1>5 DEF Pairs
<1>. HIDE DEF x
<1>8. /\ cache' = c /\ sup'.dirty = sup.dirty /\ sup'.pending = sup.pending
      /\ sup'.pump \in {"idle", "timer"}
  <2>1. /\ Carried(x, Scheduled(x)) /\ Scheduled(x)[2] = x[2]
        /\ Scheduled(x)[1].dirty = x[1].dirty /\ Scheduled(x)[1].pending = x[1].pending
    BY <1>7, ScheduledEffect
  <2>. QED
    BY <1>4, <1>6, <1>7, <2>1 DEF Carried
<1>9. QueueInv'
  <2>1. Orderly(writes', cache'.run, sup'.pump)
    BY <1>1, <1>2, <1>5, <1>8, OrderlyOther DEF QueueInv
  <2>. QED
    BY <1>1, <1>2, <2>1, HeadsKept
<1>10. NoticeInv'
  BY <1>1, <1>2 DEF NoticeInv
<1>11. Unsurprising /\ Expected
  BY <1>2, <1>8, StillVault
<1>12. \A p \in Paths : (Asked(p) => Asked(p)') /\ (AskedAgain(p) => AskedAgain(p)')
  BY <1>2, <1>8 DEF Asked, AskedAgain, NothingHeld
<1>13. AwareInv'
  BY <1>1, <1>2, <1>8, <1>11, <1>12, AwareKept
<1>14. ReconcileInv'
  BY <1>8 DEF ReconcileInv
<1>15. CompleteInv'
  <2>1. CASE ~settled
    <3>1. cache' = cache
      BY <1>5, <1>8, <2>1
    <3>2. \A p \in Paths : Doubted(p) => Doubted(p)'
      BY <1>2, <3>1 DEF Doubted
    <3>. QED
      BY <1>1, <1>2, <3>1, <3>2, CompleteKept
  (* Nothing is asked for, so nothing that was heard of is behind.         *)
  <2>2. CASE settled
    <3>1. \A p \in Paths : ~Asked(p) /\ ~AskedAgain(p)
      BY <1>1, <1>2, <2>2 DEF Asked, AskedAgain, QueueInv, Orderly
    <3>2. \A p \in Paths : told[p] \in Shown(p) /\ ~Unheard(p, told[p])
      BY <1>1, NumberTypes DEF NoticeInv, Shown, TypeOK, Unheard
    <3>3. \A p \in Paths : /\ ~Behind(rows[p], p, told[p])
                           /\ p \in DOMAIN held => ~Behind(held[p], p, told[p])
      BY <1>1, <2>2, <3>1, <3>2 DEF AwareInv
    <3>4. \A p \in Paths : /\ ~(rows[p].v < told[p])
                           /\ p \in DOMAIN held => ~(held[p].v < told[p])
      BY <3>3 DEF Behind
    <3>5. ~cache'.eventWork
      BY <1>5, <1>8, <2>2
    <3>. QED
      BY <1>2, <3>4, <3>5 DEF CompleteInv
  <2>. QED
    BY <2>1, <2>2
<1>. QED
  BY <1>9, <1>10, <1>13, <1>14, <1>15 DEF SafeInv

LEMMA TakeNextStep ==
  ASSUME CacheInv, NEW q \in Paths, TakeNext(q)
  PROVE  SafeInv'
<1>1. TypeOK /\ QueueInv /\ NoticeInv /\ AwareInv /\ ReconcileInv /\ CompleteInv
  BY DEF CacheInv, SafeInv
<1>2. /\ UNCHANGED <<vault, rows, scan, held, link, subscribed, transit, told>>
      /\ sup.pump = "drain" /\ sup.drained < BatchSize
  BY DEF TakeNext, eventVars
<1>3. writes \in Queues /\ cache \in Caches /\ sup \in Supervisors
  BY <1>1, WorkFacts
<1>4. Taken(q) \in Supervisors /\ [Taken(q) EXCEPT !.pump = "update"] \in Supervisors
  BY <1>2, <1>3, TakenTypes
<1>5. /\ Taken(q).pending = sup.pending \ {q} /\ Taken(q).dirty = sup.dirty
      /\ Taken(q).pump = sup.pump
  BY <1>3 DEF Taken, Supervisors
<1>6. NoticeInv'
  BY <1>1, <1>2 DEF NoticeInv
<1>7. CASE QueueIsFull
  <2>. DEFINE x == <<Taken(q), MarkUncertain(cache)>>
  <2>1. MarkUncertain(cache) \in Caches /\ MarkUncertain(cache).run = cache.run
    BY <1>3, FlagTypes DEF MarkUncertain, Caches
  <2>2. x \in Pairs /\ x[1].pump = "drain" /\ x[2].run = cache.run
    BY <1>2, <1>4, <1>5, <2>1 DEF Pairs
  <2>3. sup' = RequestReconciliation(x)[1] /\ cache' = RequestReconciliation(x)[2] /\ writes' = writes
    BY <1>7 DEF TakeNext
  <2>. HIDE DEF x
  <2>4. Carried(x, RequestReconciliation(x)) /\ Alert(RequestReconciliation(x))
    BY <2>2, ReconciliationEffect
  <2>5. Alert(<<sup', cache'>>)
    BY <2>3, <2>4 DEF Alert
  <2>6. cache'.run = cache.run /\ sup'.pump = sup.pump
    BY <1>2, <2>2, <2>3, <2>4 DEF Carried
  <2>7. QueueInv'
    BY <1>1, <1>2, <2>3, <2>6, HeadsKept DEF QueueInv
  <2>. QED
    BY <1>6, <2>5, <2>7, Disturbed DEF SafeInv
<1>8. CASE ~QueueIsFull
  <2>. DEFINE job == [kind |-> "update", path |-> q, by |-> "events"]
  <2>1. /\ sup' = [Taken(q) EXCEPT !.pump = "update"] /\ cache' = cache
        /\ writes' = Append(writes, job)
    BY <1>8 DEF TakeNext
  <2>2. sup'.pump = "update" /\ sup'.pending = sup.pending \ {q} /\ sup'.dirty = sup.dirty
    BY <1>4, <1>5, <2>1 DEF Supervisors
  <2>3. Orderly(writes', cache'.run, sup'.pump)
    BY <1>1, <1>2, <1>3, <2>1, <2>2, OrderlyEventUpdate DEF QueueInv, Caches
  <2>4. job \in Work /\ job.path = q /\ IsUpdate(job)
    BY DEF Work, IsUpdate
  <2>. HIDE DEF job
  <2>5. /\ DOMAIN writes = 1 .. Len(writes) /\ Len(writes) \in Nat
        /\ DOMAIN writes' = 1 .. Len(writes) + 1
        /\ \A k \in 1 .. Len(writes) : writes'[k] = writes[k]
        /\ writes'[Len(writes) + 1] = job
        /\ writes # <<>> => Head(writes') = Head(writes)
        /\ writes' # <<>>
    BY <1>3, <2>1, <2>4, AppendedJobs
  <2>6. QueueInv'
    BY <1>1, <1>2, <2>3, <2>5, HeadsKept
  <2>7. Len(writes) = 0 => NothingHeld
    BY <1>1, <1>3 DEF QueueInv, Scanning, Updating, Queues
  <2>8. Len(writes) + 1 \in DOMAIN writes' /\ (Len(writes) + 1 = 1 => NothingHeld)
    BY <2>5, <2>7
  <2>9. Asked(q)' /\ AskedAgain(q)'
    BY <1>2, <2>4, <2>5, <2>8 DEF Asked, AskedAgain, NothingHeld
  <2>10. Extends(writes, writes')
    BY <1>3, <2>1, <2>4, AppendExtends
  <2>11. \A p \in Paths : p # q => (Asked(p) => Asked(p)') /\ (AskedAgain(p) => AskedAgain(p)')
    BY <1>2, <2>2, <2>10 DEF Extends, Asked, AskedAgain, NothingHeld
  <2>12. \A p \in Paths : (Asked(p) => Asked(p)') /\ (AskedAgain(p) => AskedAgain(p)')
    BY <2>9, <2>11
  <2>13. Unsurprising
    BY <1>2, StillVault
  <2>14. \A p \in Paths : \A w \in Versions : Unheard(p, w) => Unheard(p, w)'
    BY <1>2, SameSight
  <2>15. AwareInv'
    BY <1>1, <1>2, <2>2, <2>12, <2>13, <2>14, AwareKept DEF Expected
  <2>16. ReconcileInv'
    BY <2>2 DEF ReconcileInv
  <2>17. CompleteInv'
    <3>1. \A p \in Paths : Doubted(p) => Doubted(p)'
      BY <1>2, <2>1 DEF Doubted
    <3>. QED
      BY <1>1, <1>2, <2>1, <3>1, CompleteKept
  <2>. QED
    BY <1>6, <2>6, <2>15, <2>16, <2>17 DEF SafeInv
<1>. QED
  BY <1>7, <1>8

LEMMA FlushStep ==
  ASSUME CacheInv, Flush
  PROVE  SafeInv'
  BY TimerFiresStep, FlushEndsStep, TakeNextStep DEF Flush

-----------------------------------------------------------------------------
(* Streams. *)

(* The supervisor's methods leave the queue, so it stays as orderly.       *)
LEMMA CarriedQueue ==
  ASSUME TypeOK, QueueInv, Carried(<<sup, cache>>, <<sup', cache'>>), UNCHANGED <<writes, held, scan>>
  PROVE  QueueInv'
<1>1. /\ cache'.run = cache.run
      /\ sup'.pump = sup.pump \/ sup.pump = "idle"
  BY DEF Carried
<1>2. Orderly(writes', cache'.run, sup'.pump)
  BY <1>1, OrderlyOther DEF QueueInv
<1>. QED
  BY <1>2, HeadsKept

LEMMA AlertStep ==
  ASSUME CacheInv, NoticeInv', UNCHANGED <<writes, held, scan>>,
         sup' = RequestReconciliation(<<sup, cache>>)[1],
         cache' = RequestReconciliation(<<sup, cache>>)[2]
  PROVE  SafeInv'
<1>. DEFINE y == RequestReconciliation(<<sup, cache>>)
<1>1. TypeOK /\ QueueInv
  BY DEF CacheInv, SafeInv
<1>2. <<sup, cache>> \in Pairs
  BY <1>1, WorkFacts DEF Pairs
<1>3. Carried(<<sup, cache>>, y) /\ Alert(y)
  BY <1>2, ReconciliationEffect
<1>. HIDE DEF y
<1>4. y = <<sup', cache'>>
  BY <1>3 DEF Carried, Pairs, y
<1>5. QueueInv'
  BY <1>1, <1>3, <1>4, CarriedQueue
<1>. QED
  BY <1>3, <1>4, <1>5, Disturbed DEF SafeInv

LEMMA CalmStep ==
  ASSUME CacheInv, UNCHANGED <<vault, rows, cache, writes, scan, held, told>>,
         NoticeInv', Expected,
         sup'.pump = sup.pump, sup'.dirty = sup.dirty, sup'.pending = sup.pending,
         sup'.moved = sup.moved
  PROVE  SafeInv'
<1>1. TypeOK /\ QueueInv /\ NoticeInv /\ AwareInv /\ ReconcileInv /\ CompleteInv
  BY DEF CacheInv, SafeInv
<1>2. QueueInv'
  BY <1>1, HeadsKept DEF QueueInv
<1>3. Unsurprising
  BY DEF Unsurprising, Shown, Behind
<1>4. \A p \in Paths : /\ Asked(p) => Asked(p)'
                       /\ AskedAgain(p) => AskedAgain(p)'
                       /\ Forced(p) => Forced(p)'
                       /\ Doubted(p) => Doubted(p)'
  BY DEF Asked, AskedAgain, NothingHeld, Forced, ForcedWork, Doubted
<1>5. AwareInv'
  BY <1>1, <1>3, <1>4, AwareKept
<1>6. ReconcileInv'
  BY <1>1, <1>3, <1>4, ReconcileKept
<1>7. CompleteInv'
  BY <1>1, <1>4, CompleteKept
<1>. QED
  BY <1>2, <1>5, <1>6, <1>7 DEF SafeInv

LEMMA OpenStep ==
  ASSUME CacheInv, NEW s \in Streams, Open(s)
  PROVE  SafeInv'
<1>1. UNCHANGED <<vault, rows, cache, writes, scan, held, sup, transit, told>>
  BY DEF Open
<1>2. link'[s] = "opening"
  BY DEF Open, CacheInv, TypeOK
<1>3. Expected
  BY <1>1, <1>2 DEF Expected, Unheard, Gap
<1>4. NoticeInv'
  BY <1>1 DEF CacheInv, SafeInv, NoticeInv
<1>. QED
  BY <1>1, <1>3, <1>4, CalmStep

LEMMA StreamBreaksStep ==
  ASSUME CacheInv, NEW s \in Streams, StreamBreaks(s)
  PROVE  SafeInv'
<1>1. UNCHANGED <<vault, rows, cache, writes, scan, held, sup, link, told>>
  BY DEF StreamBreaks
<1>2. ~subscribed'[s] /\ transit \in [Streams -> Seq(Notices)]
  BY DEF StreamBreaks, CacheInv, TypeOK
<1>3. Expected
  BY <1>1, <1>2 DEF Expected, Unheard, Gap
<1>4. \A r \in Streams : transit'[r] = transit[r] \/ DOMAIN transit'[r] = {}
  BY <1>2 DEF StreamBreaks
<1>5. NoticeInv'
  BY <1>1, <1>4 DEF CacheInv, SafeInv, NoticeInv
<1>. QED
  BY <1>1, <1>3, <1>5, CalmStep

LEMMA StreamReadyStep ==
  ASSUME CacheInv, NEW s \in Streams, StreamReady(s)
  PROVE  SafeInv'
<1>1. UNCHANGED <<vault, rows, writes, scan, held, transit, told>>
  BY DEF StreamReady
<1>2. NoticeInv'
  BY <1>1 DEF CacheInv, SafeInv, NoticeInv
<1>3. /\ sup' = RequestReconciliation(<<sup, cache>>)[1]
      /\ cache' = RequestReconciliation(<<sup, cache>>)[2]
  BY DEF StreamReady, Covered
<1>. QED
  BY <1>1, <1>2, <1>3, AlertStep

LEMMA StreamEndsStep ==
  ASSUME CacheInv, NEW s \in Streams, StreamEnds(s)
  PROVE  SafeInv'
<1>1. UNCHANGED <<vault, rows, writes, scan, held, subscribed, transit, told>>
  BY DEF StreamEnds
<1>2. NoticeInv'
  BY <1>1 DEF CacheInv, SafeInv, NoticeInv
<1>3. CASE link[s] = "ready"
  <2>1. /\ sup' = RequestReconciliation(<<sup, cache>>)[1]
        /\ cache' = RequestReconciliation(<<sup, cache>>)[2]
    BY <1>3 DEF StreamEnds
  <2>. QED
    BY <1>1, <1>2, <2>1, AlertStep
<1>4. CASE link[s] # "ready"
  <2>1. sup' = sup /\ cache' = cache
    BY <1>4 DEF StreamEnds
  <2>2. link'[s] = "down"
    BY DEF StreamEnds, CacheInv, TypeOK
  <2>3. Expected
    BY <1>1, <2>2 DEF Expected, Unheard, Gap
  <2>. QED
    BY <1>1, <1>2, <2>1, <2>3, CalmStep
<1>. QED
  BY <1>3, <1>4

LEMMA ReceiveNotices ==
  ASSUME TypeOK, NoticeInv, NEW s \in Streams, Receive(s)
  PROVE  /\ NoticeInv'
         /\ \A p \in Paths : InTransit(p) => InTransit(p)' \/ p \in Head(transit[s]).paths
         /\ Sensible(Head(transit[s])) /\ Head(transit[s]).paths \subseteq Paths
<1>. DEFINE n == Head(transit[s])
<1>1. /\ UNCHANGED <<vault, rows, held, link, subscribed>>
      /\ transit[s] # <<>> /\ transit' = [transit EXCEPT ![s] = Tail(@)]
      /\ told' = [p \in Paths |-> IF p \in n.paths /\ n.v > told[p] THEN n.v ELSE told[p]]
  BY DEF Receive
<1>2. transit \in [Streams -> Seq(Notices)] /\ transit[s] \in Seq(Notices)
  BY DEF TypeOK
<1>3. /\ DOMAIN transit[s] = 1 .. Len(transit[s]) /\ Len(transit[s]) \in Nat \ {0}
      /\ DOMAIN Tail(transit[s]) = 1 .. Len(transit[s]) - 1
      /\ \A k \in 1 .. Len(transit[s]) - 1 : Tail(transit[s])[k] = transit[s][k + 1]
      /\ n = transit[s][1] /\ 1 \in DOMAIN transit[s]
  BY <1>1, <1>2
<1>4. transit'[s] = Tail(transit[s]) /\ \A r \in Streams : r # s => transit'[r] = transit[r]
  BY <1>1, <1>2
<1>5. n \in Notices /\ n.paths \subseteq Paths /\ n.v \in Nat
  <2>1. n \in Notices
    BY <1>2, <1>3
  <2>. QED
    BY <2>1, CacheAssumption DEF Notices, Versions
<1>6. Sensible(n) /\ \A p \in n.paths : n.v <= vault[p].v
  BY <1>3 DEF NoticeInv, Sensible
<1>7. \A k \in DOMAIN transit[s] : k = 1 \/ \E l \in DOMAIN transit'[s] : transit'[s][l] = transit[s][k]
  <2>. SUFFICES ASSUME NEW k \in DOMAIN transit[s], k # 1
                PROVE  \E l \in DOMAIN transit'[s] : transit'[s][l] = transit[s][k]
    OBVIOUS
  <2>1. k - 1 \in 1 .. Len(transit[s]) - 1 /\ (k - 1) + 1 = k
    BY <1>3
  <2>2. Tail(transit[s])[k - 1] = transit[s][k]
    BY <1>3, <2>1
  <2>. QED
    BY <1>3, <1>4, <2>1, <2>2
<1>8. \A k \in DOMAIN transit'[s] : \E l \in DOMAIN transit[s] : transit'[s][k] = transit[s][l]
  <2>. SUFFICES ASSUME NEW k \in 1 .. Len(transit[s]) - 1
                PROVE  \E l \in DOMAIN transit[s] : transit'[s][k] = transit[s][l]
    BY <1>3, <1>4
  <2>1. k + 1 \in DOMAIN transit[s]
    BY <1>3
  <2>. QED
    BY <1>3, <1>4, <2>1
<1>. HIDE DEF n
<1>9. \A r \in Streams : \A k \in DOMAIN transit'[r] :
        \E l \in DOMAIN transit[r] : transit'[r][k] = transit[r][l]
  BY <1>4, <1>8
<1>10. \A p \in Paths : told'[p] <= vault[p].v
  BY <1>1, <1>6, NumberTypes DEF NoticeInv
<1>11. NoticeInv'
  <2>1. \A r \in Streams : \A k \in DOMAIN transit'[r] :
          /\ \/ transit'[r][k].folder /\ transit'[r][k].paths = Paths
             \/ \E p, q \in Paths : transit'[r][k].paths = {p, q}
          /\ \A p \in transit'[r][k].paths : transit'[r][k].v <= vault[p].v
    BY <1>9 DEF NoticeInv
  <2>. QED
    BY <1>1, <1>10, <2>1 DEF NoticeInv
<1>12. \A p \in Paths : InTransit(p) => InTransit(p)' \/ p \in n.paths
  <2>. SUFFICES ASSUME NEW p \in Paths, p \notin n.paths,
                       NEW r \in Streams, NEW k \in DOMAIN transit[r], p \in transit[r][k].paths
                PROVE  InTransit(p)'
    BY DEF InTransit
  <2>1. CASE r # s
    BY <1>4, <2>1 DEF InTransit
  <2>2. CASE r = s
    <3>1. k # 1
      BY <1>3, <2>2
    <3>2. PICK l \in DOMAIN transit'[s] : transit'[s][l] = transit[s][k]
      BY <1>7, <2>2, <3>1
    <3>. QED
      BY <2>2, <3>2 DEF InTransit
  <2>. QED
    BY <2>1, <2>2
<1>. QED
  BY <1>5, <1>6, <1>11, <1>12 DEF n

LEMMA ReceiveStep ==
  ASSUME CacheInv, NEW s \in Streams, Receive(s)
  PROVE  SafeInv'
<1>1. TypeOK /\ QueueInv /\ NoticeInv /\ AwareInv /\ ReconcileInv /\ CompleteInv
  BY DEF CacheInv, SafeInv
<1>. DEFINE n == Head(transit[s])
<1>2. UNCHANGED <<vault, rows, writes, scan, held, link, subscribed>>
  BY DEF Receive
<1>3. /\ NoticeInv' /\ Sensible(n) /\ n.paths \subseteq Paths
      /\ \A p \in Paths : InTransit(p) => InTransit(p)' \/ p \in n.paths
  BY <1>1, ReceiveNotices
<1>4. PICK y \in ReceivedFrom(<<sup, cache>>, n) : sup' = y[1] /\ cache' = y[2]
  BY DEF Receive
<1>5. \A p \in Paths : p \notin n.paths => told'[p] = told[p]
  BY DEF Receive
<1>. HIDE DEF n
<1>6. <<sup, cache>> \in Pairs
  BY <1>1, WorkFacts DEF Pairs
<1>7. Carried(<<sup, cache>>, y) /\ (Alert(y) \/ Heard(<<sup, cache>>, y, n.paths))
  BY <1>3, <1>6, ReceivedEffect
<1>8. y = <<sup', cache'>>
  BY <1>4, <1>7 DEF Carried, Pairs
<1>9. QueueInv'
  BY <1>1, <1>2, <1>7, <1>8, CarriedQueue
<1>10. CASE Alert(y)
  BY <1>3, <1>8, <1>9, <1>10, Disturbed DEF SafeInv
<1>11. CASE Heard(<<sup, cache>>, y, n.paths)
  <2>1. /\ sup'.dirty = sup.dirty /\ sup'.moved = sup.moved
        /\ sup'.pending = sup.pending \cup n.paths
        /\ cache'.error = cache.error /\ cache'.doubted = cache.doubted /\ cache'.eventWork
        /\ cache'.state = IF cache.eventWork THEN cache.state ELSE "pending-events"
    BY <1>4, <1>11 DEF Heard
  <2>2. /\ cache'.requested = cache.requested /\ cache'.force = cache.force
        /\ cache'.ready = cache.ready
        /\ sup'.pump = "reconcile" => sup.pump = "reconcile"
    BY <1>4, <1>7 DEF Carried
  <2>3. Unsurprising
    <3>1. \A p \in Paths : Shown(p)' = Shown(p)
      BY <1>2 DEF Shown
    <3>2. \A p \in Paths : \A r, w : Behind(r, p, w)' <=> Behind(r, p, w)
      BY <1>2 DEF Behind
    <3>. QED
      BY <3>1, <3>2 DEF Unsurprising
  <2>4. Expected
    BY <1>2, <1>3, <1>5, <2>1 DEF Expected, Unheard, Gap
  <2>5. \A p \in Paths : /\ Asked(p) => Asked(p)'
                         /\ AskedAgain(p) => AskedAgain(p)'
                         /\ Forced(p) => Forced(p)'
    BY <1>2, <2>1, <2>2 DEF Asked, AskedAgain, NothingHeld, Forced, ForcedWork, Doubted
  <2>6. AwareInv'
    BY <1>1, <1>2, <2>1, <2>3, <2>4, <2>5, AwareKept
  <2>7. ReconcileInv'
    BY <1>1, <1>2, <2>1, <2>2, <2>3, <2>4, <2>5, ReconcileKept
  <2>8. cache'.state # "complete"
    BY <1>1, <2>1 DEF CompleteInv
  <2>9. CompleteInv'
    BY <2>1, <2>8 DEF CompleteInv
  <2>. QED
    BY <1>3, <1>9, <2>6, <2>7, <2>9 DEF SafeInv
<1>. QED
  BY <1>7, <1>10, <1>11

-----------------------------------------------------------------------------
(* Restarts, and the rest. *)

(* A new process doubts what was not complete. *)
LEMMA RestartStep ==
  ASSUME CacheInv, Restart
  PROVE  SafeInv'
<1>1. TypeOK /\ QueueInv /\ NoticeInv /\ AwareInv /\ ReconcileInv /\ CompleteInv
  BY DEF CacheInv, SafeInv
<1>. DEFINE c    == Loaded(cache.state)
            next == IF c.ready /\ ~c.error THEN <<c, <<>>>> ELSE Refreshed(c, <<>>, TRUE)
<1>2. /\ UNCHANGED <<vault, rows, told>> /\ scan' = NoScan /\ held' = <<>> /\ sup' = NewSupervisor
      /\ transit' = [r \in Streams |-> <<>>]
      /\ cache' = next[1] /\ writes' = next[2]
  BY DEF Restart
<1>3. /\ c \in Caches /\ c.state = cache.state /\ ~c.eventWork /\ ~c.run
      /\ cache.state # "complete" => ~c.ready
  <2>1. cache.state \in RefreshStates
    BY <1>1 DEF TypeOK, Caches
  <2>2. c \in Caches
    BY <2>1, LoadedTypes
  <2>. QED
    BY <2>2 DEF Loaded
<1>. HIDE DEF c
<1>4. <<>> \in Queues
  BY CacheAssumption DEF Queues
<1>5. /\ cache'.ready = c.ready /\ cache'.eventWork = c.eventWork
      /\ cache'.state = c.state \/ cache'.state = "uncertain"
  <2>1. CASE c.ready /\ ~c.error
    BY <1>2, <2>1
  <2>2. CASE ~(c.ready /\ ~c.error)
    <3>1. cache' = Refreshed(c, <<>>, TRUE)[1]
      BY <1>2, <2>2
    <3>2. RefreshedTo(c, <<>>, TRUE, cache', Refreshed(c, <<>>, TRUE)[2])
      BY <1>3, <1>4, <3>1, RefreshedEffect
    <3>. QED
      BY <3>2 DEF RefreshedTo, Doubting
  <2>. QED
    BY <2>1, <2>2
<1>6. Orderly(writes', cache'.run, sup'.pump)
  <2>1. \A pump : Orderly(<<>>, c.run, pump)
    BY DEF Orderly
  <2>2. CASE c.ready /\ ~c.error
    BY <1>2, <2>1, <2>2
  <2>3. CASE ~(c.ready /\ ~c.error)
    BY <1>2, <1>3, <1>4, <2>1, <2>3, RefreshedOrderly
  <2>. QED
    BY <2>2, <2>3
<1>. HIDE DEF next
<1>7. DOMAIN held' = {} /\ ~scan'.on /\ ~scan'.listed /\ scan'.todo = {}
  BY <1>2 DEF NoScan
<1>8. QueueInv'
  BY <1>6, <1>7 DEF QueueInv, NothingHeld
<1>9. sup'.dirty /\ sup'.pump = "idle"
  BY <1>2 DEF NewSupervisor
<1>10. NoticeInv'
  BY <1>1, <1>2 DEF NoticeInv
<1>11. AwareInv'
  BY <1>9 DEF AwareInv
<1>12. ReconcileInv'
  BY <1>9 DEF ReconcileInv
<1>13. CompleteInv'
  <2>1. ~cache'.eventWork
    BY <1>3, <1>5
  <2>2. \A p \in Paths : cache.state # "complete" => Doubted(p)' /\ cache'.state # "complete"
    BY <1>3, <1>5, <1>7 DEF Doubted
  <2>3. \A p \in Paths : rows'[p].v < told'[p] => Doubted(p)' /\ cache'.state # "complete"
    BY <1>1, <1>2, <2>2 DEF CompleteInv
  <2>. QED
    BY <1>7, <2>1, <2>3 DEF CompleteInv
<1>. QED
  BY <1>8, <1>10, <1>11, <1>12, <1>13 DEF SafeInv

LEMMA StartEventsStep ==
  ASSUME CacheInv, StartEvents
  PROVE  SafeInv'
<1>1. /\ UNCHANGED <<vault, rows, cache, writes, scan, held, link, subscribed, transit, told>>
      /\ sup' = [sup EXCEPT !.on = TRUE]
  BY DEF StartEvents, eventVars
<1>2. /\ sup'.pump = sup.pump /\ sup'.dirty = sup.dirty /\ sup'.pending = sup.pending
      /\ sup'.moved = sup.moved
  BY <1>1, WorkFacts DEF CacheInv, Supervisors
<1>3. NoticeInv'
  BY <1>1 DEF CacheInv, SafeInv, NoticeInv
<1>4. Expected
  BY <1>1, StillVault DEF Expected, Unheard, InTransit, Gap
<1>. QED
  BY <1>1, <1>2, <1>3, <1>4, CalmStep

LEMMA IdleStep ==
  ASSUME CacheInv, UNCHANGED vars
  PROVE  SafeInv'
<1>1. UNCHANGED <<vault, rows, cache, writes, scan, held, sup, link, subscribed, transit, told>>
  BY DEF vars
<1>2. NoticeInv'
  BY <1>1 DEF CacheInv, SafeInv, NoticeInv
<1>3. Expected
  BY <1>1 DEF Expected, Unheard, InTransit, Gap
<1>. QED
  BY <1>1, <1>2, <1>3, CalmStep

LEMMA OtherStep ==
  ASSUME CacheInv, StartEvents \/ Periodic \/ Build \/ Rebuild \/ Restart
  PROVE  SafeInv'
<1>1. CASE Periodic
  BY <1>1, AsksStep DEF Periodic
<1>2. CASE Build
  BY <1>2, AsksStep DEF Build
<1>3. CASE Rebuild
  BY <1>3, AsksStep DEF Rebuild
<1>. QED
  BY <1>1, <1>2, <1>3, StartEventsStep, RestartStep

(* Every step keeps the invariant. *)
LEMMA CacheStep ==
  ASSUME CacheInv, [Next]_vars
  PROVE  CacheInv'
<1>1. TypeOK'
  BY TypeStep DEF CacheInv, SafeInv
<1>2. CASE UNCHANGED vars
  BY <1>1, <1>2, IdleStep DEF CacheInv
<1>3. CASE Next
  BY <1>1, <1>3, EditStep, ScanStep, ScanEndsStep, UpdateStep, FlushStep, OtherStep,
     OpenStep, StreamReadyStep, ReceiveStep, StreamBreaksStep, StreamEndsStep DEF Next, CacheInv
<1>. QED
  BY <1>2, <1>3

LEMMA CacheInit ==
  ASSUME Init
  PROVE  CacheInv
<1>1. PICK state \in {"complete", "none"} :
        LET began == IF state = "complete" THEN <<Loaded(state), <<>>>>
                     ELSE Refreshed(Loaded(state), <<>>, TRUE)
        IN  cache = began[1] /\ writes = began[2]
  BY DEF Init
<1>2. /\ vault \in [Paths -> {[v |-> 0, there |-> TRUE, stamp |-> 0]}]
      /\ rows \in { vault, [p \in Paths |-> [v |-> 0, there |-> FALSE, stamp |-> 0]] }
      /\ scan = NoScan /\ held = <<>> /\ faults = 0 /\ sup = NewSupervisor
      /\ link = [s \in Streams |-> "down"] /\ subscribed = [s \in Streams |-> FALSE]
      /\ transit = [s \in Streams |-> <<>>] /\ told = [p \in Paths |-> 0]
  BY DEF Init
<1>3. 0 \in Versions /\ 0 \in 0 .. MaxFaults /\ 0 \in 0 .. BatchSize
  BY CacheAssumption, EventsAssumption DEF Versions
<1>4. Loaded(state) \in Caches /\ ~Loaded(state).eventWork /\ ~Loaded(state).run
  <2>1. state \in RefreshStates
    BY DEF RefreshStates
  <2>2. Loaded(state) \in Caches
    BY <2>1, LoadedTypes
  <2>. QED
    BY <2>2 DEF Loaded
<1>5. <<>> \in Queues
  BY CacheAssumption DEF Queues
<1>6. Orderly(<<>>, Loaded(state).run, "idle")
  BY DEF Orderly
<1>7. cache \in Caches /\ writes \in Queues /\ ~cache.eventWork /\ Orderly(writes, cache.run, "idle")
  <2>1. CASE state = "complete"
    BY <1>1, <1>4, <1>5, <1>6, <2>1
  <2>2. CASE state # "complete"
    <3>1. cache = Refreshed(Loaded(state), <<>>, TRUE)[1] /\ writes = Refreshed(Loaded(state), <<>>, TRUE)[2]
      BY <1>1, <2>2
    <3>2. RefreshedTo(Loaded(state), <<>>, TRUE, cache, writes)
      BY <1>4, <1>5, <3>1, RefreshedEffect
    <3>3. cache \in Caches /\ writes \in Queues
      BY <1>4, <1>5, <3>1, RefreshedTypes
    <3>4. Orderly(writes, cache.run, "idle")
      BY <1>4, <1>5, <1>6, <3>1, RefreshedOrderly
    <3>5. cache.eventWork = Loaded(state).eventWork
      BY <3>2 DEF RefreshedTo, Doubting
    <3>. QED
      BY <1>4, <3>3, <3>4, <3>5
  <2>. QED
    BY <2>1, <2>2
<1>8. vault \in [Paths -> Notes] /\ rows \in [Paths -> Notes]
  <2>1. /\ [v |-> 0, there |-> TRUE, stamp |-> 0] \in Notes
        /\ [v |-> 0, there |-> FALSE, stamp |-> 0] \in Notes
    BY <1>3 DEF Notes
  <2>2. vault \in [Paths -> Notes]
    BY <1>2, <2>1
  <2>3. [p \in Paths |-> [v |-> 0, there |-> FALSE, stamp |-> 0]] \in [Paths -> Notes]
    BY <2>1
  <2>. QED
    BY <1>2, <2>2, <2>3
<1>9. \A p \in Paths : vault[p].v = 0 /\ rows[p].v = 0 /\ told[p] = 0
  BY <1>2
<1>10. /\ sup \in Supervisors /\ sup.dirty /\ sup.pump = "idle"
  BY <1>2, <1>3 DEF NewSupervisor, Supervisors
<1>11. /\ ~scan.on /\ ~scan.listed /\ scan.todo = {} /\ DOMAIN held = {}
       /\ scan \in [on : BOOLEAN, force : BOOLEAN, listed : BOOLEAN, todo : SUBSET Paths, failed : BOOLEAN]
  BY <1>2 DEF NoScan
<1>12. TypeOK
  <2>1. transit \in [Streams -> Seq(Notices)]
    BY <1>2
  <2>. QED
    BY <1>2, <1>3, <1>7, <1>8, <1>10, <1>11, <2>1 DEF TypeOK, Queues
<1>13. QueueInv
  BY <1>7, <1>10, <1>11 DEF QueueInv, NothingHeld
<1>14. NoticeInv
  BY <1>2, <1>9, <1>11 DEF NoticeInv
<1>15. AwareInv
  BY <1>10 DEF AwareInv
<1>16. ReconcileInv
  BY <1>10 DEF ReconcileInv
<1>17. CompleteInv
  BY <1>7, <1>9, <1>11 DEF CompleteInv
<1>. QED
  BY <1>12, <1>13, <1>14, <1>15, <1>16, <1>17 DEF CacheInv, SafeInv

-----------------------------------------------------------------------------
(* The results. *)

(* Whatever is edited, sent, lost, read, refused or restarted: a row that  *)
(* is behind its note is known to be so, by a reconciliation that is due,  *)
(* an update that is queued, or a notice or a stream that is missing.      *)
THEOREM CacheInvariant == Spec => []CacheInv
<1>1. Init => CacheInv
  BY CacheInit
<1>2. CacheInv /\ [Next]_vars => CacheInv'
  BY CacheStep
<1>. QED
  BY <1>1, <1>2, PTL DEF Spec

(* The state of the cache, its queue within its bound, the supervisor with *)
(* its batch and the streams keep their types.                             *)
THEOREM CacheTypesHold == Spec => []TypeOK
  BY CacheInvariant, PTL DEF CacheInv

(* A store that is marked complete has observed every note that an event   *)
(* of the supervisor named, also across failed updates, overflow, a full   *)
(* queue and restarts (settleEventWork() and its callers).                 *)
THEOREM CompleteIsObserved == Spec => []CompleteMeansObserved
<1>1. CacheInv => CompleteMeansObserved
  BY DEF CacheInv, SafeInv, CompleteInv, CompleteMeansObserved, NotObserved
<1>. QED
  BY <1>1, CacheInvariant, PTL

(* A supervisor that reports reconciledAndConnected, its streams served    *)
(* and empty, stands before rows that are the vault's notes.               *)
THEOREM FreshIsTrue == Spec => []FreshReportIsTrue
<1>1. ASSUME CacheInv, Fresh, \A s \in Streams : subscribed[s] /\ transit[s] = <<>>, NEW p \in Paths
      PROVE  Current(p)
  <2>1. TypeOK /\ QueueInv /\ NoticeInv /\ AwareInv
    BY <1>1 DEF CacheInv, SafeInv
  <2>2. ~Gap
    BY <1>1 DEF Gap, Fresh, Connected
  <2>3. ~InTransit(p)
    BY <1>1 DEF InTransit
  <2>4. ~Asked(p)
    BY <1>1, <2>1 DEF Asked, Fresh, QueueInv, Orderly
  <2>5. vault[p].v \in Shown(p)
    BY <2>1, NumberTypes DEF Shown, TypeOK, Notes
  <2>6. ~Behind(rows[p], p, vault[p].v)
    BY <1>1, <2>1, <2>2, <2>3, <2>4, <2>5 DEF AwareInv, Unheard, Fresh
  <2>7. ~(rows[p].v < vault[p].v) /\ rows[p].v <= vault[p].v
    BY <2>1, <2>6 DEF Behind, NoticeInv
  <2>8. rows[p].v = vault[p].v
    BY <2>1, <2>7, NumberTypes
  <2>. QED
    BY <2>6, <2>8 DEF Behind, Current
<1>2. CacheInv => FreshReportIsTrue
  BY <1>1 DEF FreshReportIsTrue
<1>. QED
  BY <1>2, CacheInvariant, PTL

=============================================================================

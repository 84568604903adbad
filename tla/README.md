# Verification of optimike-obsidian-mcp

This directory holds TLA+ models of the parts of optimike-obsidian-mcp whose faults
would cost a user text or trust: the governed write path, from the MCP tool call through the
durable journal and the Atomic Write Bridge inside Obsidian to the note; the date
preparation that runs before it; governed deletions and native moves; the admission control and
the stdio proxy in front of the server; the vault cache and its event supervision; and the supervision of the
plugins' routes. TLC checks the models on small instances, and TLAPS proves the
main results for every value of the constants.

Source paths below are relative to the repository.

## 1. The system

An MCP server process (one or many, sharing one SQLite journal) serves tools to
an assistant. It reaches the vault over HTTP, through Obsidian's Local REST API
and three plugins ("bridges") that this repository ships. Reads go straight
through; consequential writes are *governed*: a plan is sealed with the hash of
the content it expects and of the content it leaves, is journaled, and is
applied once with a compare-and-swap inside Obsidian.

| Component | State it keeps | Operations | Talks to | What makes it correct |
|---|---|---|---|---|
| Governed write journal (`src/services/operations/obsidianNoteReplaceJournal.ts`) | plan rows, runtime leases, date-preparation locks (SQLite) | create, get (with sweep and purge), transition, record an attempt, commit on proof, close administratively, heartbeat, start, close | every MCP process through the database | one owner at a time, no transition by a stale owner, terminal rows final, no closure of a row that moved |
| Replacement executor (`obsidianNoteReplaceOperationAdapter.ts`, `governedNoteReplaceTools/runtime.ts`) | none but its call frames | plan, apply, status, recover | journal, Bridge | receipts tell the truth about the note, at most one effect |
| Administrative closure (`administrativeClosure.ts`) | none | inspect, close an operation, release a date-preparation lock | journal, Bridge fence | a closed plan has no later effect |
| Effect fence (`plugins/obsidian-atomic-write-bridge/src/effectFence.ts`) | realm-wide epochs, attempt states, counters | enter, settle, resolve, rotate, prune, open, dispose, legacy proof | effect routes, closure | a token passes at most once, never after a revocation; verdicts stay true |
| Bridge routes (`plugins/obsidian-atomic-write-bridge/src/main.ts`) | settings, binding | status, read, notes/cas, canvas/cas, fence resolve, prepare dates, create, delete, move | the vault | hash and fence are checked where the effect happens |
| Date preparation (`datePreparation.ts`, `prepareForPlan` of `runtime.ts`) | serial queue; a durable lock per note in the journal | prepare, release as unstarted, release as verified, review by the owner | a third-party date plugin, the fence, the journal | a preparation that may have changed the note keeps it locked |
| Completion signal (`fdmCompletion.ts`, `fdm-settlement/signal.mjs`) | receipts | begin, activate, read | a third-party date plugin | a completion is never believed early |
| Governed deletion and native move (`noteDelete*.ts` and `nativeNoteMove*.ts` of the Bridge, their two operation adapters) | a table of receipts in memory; the plan's journal row | plan, apply, status; in the Bridge observe, apply, status | the journal, the fence, Obsidian's trash and rename | one dispatch, a refusal is true for good, only a receipt settles an unknown outcome |
| Creation routes (`noteCreateRoutes.ts`, `exclusiveNoteCreate.ts`, `vaultFileCreateRoutes.ts`) | none | create exclusively | the vault, the fence | never overwrites a file |
| Extension lifecycle (`plugins/shared/restExtensionLifecycle.ts`) | provider, cleanup, timer | start, stop, probe | Local REST API plugin | never two mounts, every mount cleaned up |
| Sibling adapters, projections | none | plan, apply, status for creations, canvas, base | the same journal | as the executor |
| External moves (`externalMoveCoordinator.ts`, `externalMoveJournal.ts`) | session rows | plan, status, recovery marking (apply and rollback are disabled in this build) | roots outside the vault | sessions never go back |
| HTTP admission (`src/mcp-server/transports/httpBackpressure.ts`) | leases, queues per identity | acquire, release, time out, abort | HTTP transport | limits hold, no capacity idle while somebody waits, fair rotation |
| Stdio proxy (`src/stdio-proxy.ts`) | the backend connection and its generation, leases, retired connections, tool annotations | call a tool, list, prove read-only, reconnect, retire, drain | the HTTP backend, which others restart and upgrade | no mutation runs twice, no answer claims less than what may have happened |
| Vault cache (`services/obsidianRestAPI/vaultCache/service.ts`) | rows and a refresh state (SQLite), flags, a serial queue | refresh, scan, update one file, mark, build, rebuild, load | Obsidian REST client or the file system | ready means that every change it was told of is in the rows |
| Event supervision (`vaultCache/eventSupervisor.ts`, `eventStreams.ts`) | pending hints, revision, one timer or pump | receive, flush, run a stream per event kind | the vault cache, Local REST API | no hint is lost without a scan after it, and the scan comes |
| Server assembly, semantic cache, REST client, direct tools, Operon and Bases bridges | caches, sessions | many | third parties | left out, see section 8 |

What is hard here: several processes race for one row; each call is cut by
awaits after which what it read is stale; requests outlive the client's timeout;
processes and Obsidian die between a durable record and its effect; plugin
reloads replace the fence while handlers of the old instance still run.
PROJECT.json lists each hazard at its line with the properties that cover it.

## 2. The modules

| Module | Models | Role |
|---|---|---|
| `WriteAttempts` | token of an attempt | identities shared by the two sides |
| `FenceContract` | what the fence promises | abstract specification, the interface between the sides |
| `EffectFence` | `effectFence.ts` | detailed fence; implements `FenceContract` |
| `PlanJournal` | the journal seen through one plan | operators and steps on the row and the leases |
| `GovernedWrite` | executors, closure, Bridge routes, processes, note | composition of `PlanJournal` and `FenceContract` |
| `WriteOutcome` | what a receipt promises | abstract specification; `GovernedWrite` implements it |
| `FairAdmission` | `FairAdmissionController` of `httpBackpressure.ts` | operators from controller state to controller state |
| `HttpBackpressure` | its middleware and the requests in it | the concurrent system over the controller |
| `ExtensionLifecycle` | `restExtensionLifecycle.ts` | supervisor of a route registration |
| `DatePreparation` | `datePreparation.ts`, `prepareForPlan` and the lock's review | extends `EffectFence` |
| `VaultCache` | the cache service: rows, state, queue, scan | operators and steps |
| `CacheEvents` | the event supervisor, the streams, the vault's edits | the concurrent system over `VaultCache` |
| `BackendProxy` | the stdio proxy's calls and connections | |
| `NativeEffects` | the deletion and move adapters, their Bridge services and routes, the note | composition of `PlanJournal` and `FenceContract`; implements `WriteOutcome` |
| `MCEffectFence`, `MCGovernedWrite`, `MCHttpBackpressure`, `MCExtensionLifecycle`, `MCDatePreparation`, `MCCacheEvents`, `MCBackendProxy`, `MCNativeEffects` | | instances for TLC |
| `ContractProofs`, `EffectFenceProofs`, `GovernedWriteProofs`, `NativeEffectsProofs`, `ExtensionLifecycleProofs`, `BackendProxyProofs`, `CacheEventsProofs`, `HttpBackpressureProofs` | | theorems; those about `DatePreparation` are in `EffectFenceProofs` |

The two sides are joined by the contract: `EffectFence` is shown to implement
`FenceContract`, and `GovernedWrite` uses only the contract's actions. The
detail of epochs kept in a registry, pruned, counted and rotated is therefore
checked and proved once, apart from the races of the executors.

### The fence

`EffectFence` has one action per method. `enter()` is `EnterFenced`,
`EnterFencedAndRotate` (the token that fills the epoch) or `EnterUnfenced`;
the callback it returns is `SettleFenced` or `SettleUnfenced`; `resolve()` is
`Resolve`, with the verdict in `Verdict`; `dispose()`, `open()` and
`requireFenceChanged()` are `Dispose`, `Load` and `ToggleRequireFence`, and
`prune()` is part of each action that calls it. Each method is synchronous, so
each is one step. Epochs are numbers in the order they were issued, where the
code draws a UUID. The clock is reduced to one fact, whether
`LEGACY_QUIESCENCE_MS` has passed since `strictSince`. `oldBuild` stands for a
handler of a Bridge build that predates the fence; the model takes from the
code's comment that such a handler ends within that delay. `run` and
`runUnfenced` are the handlers under way. `told` is history: the callers who
heard `revoked_before_effect`.

### The journal

A journal method reloads the row and writes it back only if the payload is
still the one it loaded, inside SQLite, so each is one step on `row`. `row.owner`
and `row.proc` are `executionOwner`; `row.tokens` is `effectTracking.attempts`;
`row.used` keeps the attempt ids drawn so far, so that two payloads of different
executions differ, as their timestamps make them differ in the code. `get()`
runs the interruption sweep and the retention purge when their intervals have
passed; without a clock, `LoadsOf` lets each happen or not at any get. A
restarted process is a new member of `Procs`, as the code draws a new runtime
instance id. Leases expire by `LeaseLapses`, which can happen to a live process
too (a suspended laptop) under the fault "lapse".

### The composition

A call (`apply`, `status`, `recover`, `closeOperation`) is cut at its awaits.
Each action is one synchronous stretch, with everything the code does in it.
`call[h].pc` names the await the call is in, and `call[h].answer` the result once the
Bridge computed it: the answer may be stale when the call resumes. The journal's
writes happen in the stretch that follows.

| Code | Actions |
|---|---|
| entry of apply, status, recover, closeOperation | `Apply`, `Status`, `Recover`, `Close` |
| `execute()`: status, `recordEffectAttempt` | `StatusFailed`, `StatusRefuses`, `RecordAttempt`, `AttemptLimitReached` |
| `GovernedAtomicWriteBackend.replace()`: read before dispatch | `PreflightFailed`, `PreflightConflicts`, `Dispatch` |
| notes/cas route | `AdmitRequest`, `HashConflict`, `PassFence`, `FenceRefuses`, `WriteLands`, `WriteFails`, `LoseRequest` |
| `execute()` after the answer | `CasCommits`, `CasForbidden`, `CasConflicts`, `CasErrs`, `ReconcileConflict`, `ReconcileError` |
| `reconcile()` by an observer | `Observe` |
| `recover()` | `RecoverReconciles`, `RecoverSettles`, `RecoverStarts` |
| `closeOperation()` | `CloseReconciles`, `CloseResolves`, `CloseRefused`, `CloseCommits` |
| Bridge status and read routes | `BridgeStatus`, `BridgeReads`, `RequestFails` |

The environment acts by `Start`, `Heartbeat`, `Lapse`, `Stop`, `Crash`,
`UnloadBridge`, `LoadBridge`, `QuitObsidian`, `ToggleWrites`, `Retarget` and
`EditNote`. `Faults` says which of them an instance allows.

Choices of abstraction:

- The note has the contents `before` and `after` that the plan sealed, or
  `other`. Nobody but the plan writes the exact `after` content; an undo may
  restore `before` (fault "revert").
- The plan has no sealed modified-time settlement policy, so the settlement
  waits return at once. The Bridge is one with the fence, so that attempts
  carry an epoch; tokenless writes are modelled in `EffectFence`.
- `Retarget` puts another vault behind the same address; the binding fingerprint
  then differs, which every read, status, write and closure checks.
- A status whose binding, settings or settlement policy differ is one answer,
  `refused`. The several reads of the preflight are one read. The conflict raised for
  a blocked date preparation is left out: `DatePreparation` models the lock by itself.
- `closeOperation()` asks for the Bridge's status and then resolves the tokens;
  the binding is checked again by the resolve route, so the two are one step. Its
  read of the note after that is evidence only and changes nothing. A dry run
  changes nothing and is left out.
- Obsidian serialises `vault.process` per note: no callback starts while another
  one's effect is under way. This is external, and stated as `running = {}`.
- A stopped process's continuations are dropped; a late dispatch by a process
  whose plan was taken away is covered by "lapse".

### Admission control

Every method of the controller is synchronous, so `FairAdmission` gives each as an
operator: `Acquired`, `Released`, `Removed` (a queued item, with the dispatch that
each of its callers makes) and `Dispatched`, the loop of `dispatch()`. One pass of that loop
is `Turn`, a function of the controller and of `attemptsWithoutProgress` (`left`); `TurnsOf` is
the loop as a recursive function of the number of turns, and `MaxTurns` a number of turns after which
it is over, as is proved. `ctl.leases` are the leases whose `released` flag is false, so
that the properties compare what really runs with the limits, and not the counters.
`HttpBackpressure` has one action per stretch of the middleware between awaits:

| Code | Action |
|---|---|
| the middleware up to its first `acquire` | `Arrive` |
| body classified, slot kept | `KeepSlot` |
| body classified, `release()` and the second `acquire` | `Reclassify` |
| body refused, handler failed, body ended, failed or cancelled | `Finish` |
| timer or abort listener of a queued item | `GiveUp` |

`phase` says whether a request holds its parse slot or runs, and `want` the class its
body will turn out to have. A refusal ends a request at once. A wait may time out at
any moment, and "giveup" in `Events` says whether an instance lets that happen; a
deadline that has passed when the body is read is a `Finish`. The guard that reads bodies
before authentication is the same controller with a single identity and class. The
GET stream of a session is outside admission in the code, and here.

### Supervision of the routes

The bridges register their routes through one supervisor class. Its methods and the
callbacks they make are synchronous, so `Start`, `Stop` and `Tick` (the timer) are one
step each, and `ProbeNow` lists the ways a probe can end: `FindsNobody`, `FindsItself`,
`CannotUndo`, `Mounts`, `MountsNothing`, `MountsPartly`, `ProbeThrows`. `owed` counts, per
provider, the registrations really made and not undone, which the supervisor's own
fields must account for. The supervisor is restarted after a stop whose cleanup
failed, as the Bases bridge does with its headless view. `MaxFailures` bounds the failure
counter; the delays that follow from it are left out.

### Date preparation

A plan for a note that must first receive its dates reads it, takes a durable lock on
its path, sends a preparation request with a fence token and verifies the result. When the
answer is an error or does not come, it revokes the token, and releases the lock only
if the Bridge proves that the preparation never started. `DatePreparation` extends `EffectFence`,
so that the two sides share the real registry with its rotation, pruning and reloads.

| Code | Actions |
|---|---|
| `prepareForPlan`: read, lock, request | `ReadSource`, `Dispatch` |
| its answer, failure, verification | `Answered`, `Fails`, `Verifies`, `Gives` |
| `releaseUnstartedPreparation`, `releasePreparation` | `Revokes`, `Releases`, `ReleasesVerified` |
| `createDatePreparation` in the Bridge | `CheckSource`, `Refuse`, `OpenLeaf`, `Command`, `FdmWrites`, `Ends` |
| `releaseDatePreparationLock` by the owner | `ReviewReads`, `ReviewResolves`, `ReviewCommits`, `ReviewGives` |
| other editors, the plugin and the realm | `Edit`, `Unload`, `Reload`, `QuitRealm` |

Abstractions: the note is "plain" or "dated"; the queue of preparations is an arbitrary
delay before `CheckSource`, which also stands for the deadline that the wait consumes; the
plan's read and its check of the lock are one step, and so are the status request and the
acquisition. The date plugin may write after the preparation stopped waiting for it (the request is then "late", though the
fence is settled); `Quiet` says that such a late write has landed, which is what the review's quiet period
is there to ensure, so that `LateWriteHoldsItsLock` depends on the review asking for it. The two early returns without effect (date management
off, note already dated) are left out, with Bridges that predate the fence. Only
preparations use the fence in this instance (`Handlers = {}`).

### The vault cache

`VaultCache` has the rows with the stamp (modification time and size) that a row carries, the durable
refresh state, the two flags that loops test, and the queue in which scans and single
updates run one at a time. A scan reads the previous state when it starts, lists, and
reads notes concurrently (`held`: reads that returned and are not stored yet). `CacheEvents` adds the
supervisor, one stream per event kind, the vault's edits and the requests for scans.

| Code | Actions |
|---|---|
| `performRefresh` | `ScanStart`, `ScanList`, `ScanNote`, `ScanStore`, `ScanEnds` |
| `updateFileVerified` | `ToolWrites` (by a tool), `UpdateReads`, `UpdateStores`, `UpdateFails` |
| `refreshCache` and its callers | `Periodic`, `Build`, `Rebuild`, `PassEnds` (rerun) |
| `receive` | `Receive` |
| `schedule`, `flush` | `TimerFires`, `TakeNext`, `FlushEnds` |
| `streamLoop` | `Open`, `StreamReady`, `StreamEnds`; `StreamBreaks` is external |
| load at start, `start` | `Restart`, `StartEvents` |

Edits (`EditNote`, `RenameNote`, `EditFolder`) are external. An edit may keep the stamp, as
two writes in one millisecond with the same size do. `told` is history: the newest version of a note
that a received notice was about; tool writes do not count, as the tool waits for its
update. `Faults` says which requests fail, `MaxFaults` how often, and `MaxVersion` bounds
edits and disturbances together. A kill may happen anywhere (`Restart`), and covers an orderly
stop. The store starts complete or empty. The code's `uncertaintyGeneration` is a
second line of defence in this model: each doubt that arises during a scan also asks
for the scan that follows.

### The stdio proxy

A call lists the backend's tools for its exposure, proves from the annotations of one connection generation
whether it may be replayed, leases that generation, and is sent. A failure of the network or the session makes it wait for a
reconnection that all calls share; it is then replayed, refused or reported as unknown.

| Code | Actions |
|---|---|
| tools/call handler, `filteredBackendTools` | `Arrive`, `Answer` |
| `toolReplayProof`, `withGenerationBoundToolLease` | `Prove`, `Bind` |
| `withBackendLease` | `Send`, `LeaseEnds` (part of each end) |
| `withBackendRetry` | `Fail`, `Reject`, with `MayReplay`, `Replayed`, `Waiting`, `Lost` |
| the catch of the tools/call handler, `proxyMutationFailure` | `Told`, part of each `Ended` |
| `reconnectBackend`, `retireBackend` | `Reconnected`, `ReconnectFails`, `DrainTimeout`, `Abandon` |
| the backend | `Execute` (external) |

`reads` gives each generation its read-only annotations, any of `Annotations`, so that an
upgraded backend may annotate differently. `entries` counts how often the backend
entered a call's handler and `changed` the calls that did so on a build where the tool
mutates; `cut` are those whose request the proxy itself abandoned. There are two kinds of calls: `Governed` are those of the
twelve governed apply tools with a well-formed plan reference, whose caller is told OUTCOME_UNKNOWN whatever error
`withBackendRetry` threw; the others are told the error itself. The listing for the exposure precedes that catch
(`Exposing`), so its errors reach both kinds as they are. The older protocol era is
modelled: the newer one has fewer branches.

`Reject` is an error reply that is neither a network nor a session failure. The model assumes of the backend that such an error
precedes the tool's handler (a 401, 404 or 503 of the middleware, a request the transport refuses): in the older era
an error inside a handler comes back as a tool result, made by the backend's own error boundary. The truth of "rejected" rests on this
assumption. Which tools are exposed is not: the list is read again after an await
without its generation, which can hide or show a tool for one call and sends nothing
that the backend would not check.

### Governed deletions and native moves

Such an effect shares the journal, the leases and the fence with a replacement, and differs where
it matters: it is dispatched once and has no recovery, and `trashFile()` and `renameFile()` have no
compare-and-swap. After a lost answer only the receipt that the Bridge keeps in memory can settle the
plan, and it goes with the plugin instance or is evicted. The two kinds have services and adapters
of their own around the same protocol; one module models both, and `kind` says which the plan is: "move",
or the trash preference that a deletion was sealed under.

| Code | Actions |
|---|---|
| `apply()` up to the transition | `Apply`, `Unqualified`, `Start` |
| `recordEffectAttempt` and the request | `RecordAndSend` |
| the answer, and the catch | `ApplySettles`, `ApplyFails` |
| `status()` and what it asks the Bridge | `Status`, `ReceiptAnswers`, `StatusReconciles`, `StatusFails` |
| `apply()` of the Bridge service | `Accept`, `TurnAway`, `Revalidate`, `BeginEffect`; `reserve` is also `Evict` |
| `trash` or `rename` of the routes | `ReadAgain`, `PathFails`, `Refuse`, `PassFence`, `EffectReturns`, `EffectUncertain` |
| Obsidian's native call | `EffectLands` (external) |

Where the kinds differ: a deletion lists the trash before it begins (`BeginEffect`), a move checks its
capacity a second time once its plan is derived (`Revalidate`), and only the answers of a deletion name the
trash preference that the adapter compares (`Identified`).

`row` is the same journal row as in `GovernedWrite`, with one recorded attempt at most. `note` is the
note with what else the seal covers (its links, the destination of a move): as sealed, something
else, or gone; anyone may change it at any time (`EditNote`), also between the last look and the effect,
which the code accepts. The owner may withdraw the grant or change the preference at any moment, so each look
of the handler at them may find either (`SettingsChanged`). An `Observation` is an answer
of the Bridge reduced to what the adapter decides by: the outcome and the trash preference it
names. The rest of its identity always matches here, since there is one plan. `req.served`
tells whether the service that handles the request is still the loaded one; a handler of an
unloaded instance runs on, but its receipt is lost. What the handler sees after the effect
(the postflight of the trash or of the links) is only reported and is left out, except that it finds the path
taken again.

## 3. What TLC checks

| Run | Instance | Shows |
|---|---|---|
| `effect_fence` | 2 attempts, 1 tokenless handler, 2 epochs of 2 attempts, 1 retained | verdicts final, quiescence proof true, the contract implemented |
| `closure` | 2 calls, 1 process, 2 attempts, 2 epochs; timeouts, lapses, lost requests, failed writes, rotation, reload, a closed Obsidian, edits | at most one effect, true first refusals, a closed plan is dead, receipts follow `WriteOutcome`, only the owner refuses, a live owner keeps its plan |
| `liveness` | 2 calls, 2 processes, 2 attempts, at most 1 recorded, 1 epoch; crashes, stops, writes switched off and on, a restored note, another vault | interruptions are noticed, uncertain plans end |
| `admission` | 4 requests of 3 identities, 2 slots, 1 mutation, queue of 3, 2 per identity; all classes and methods, timeouts and aborts | ceilings hold, nothing idles, is lost or is overtaken, standard operations are served |
| `extension_lifecycle` | 3 providers, failures counted to 3 | one mount, true reports, retries until it stands |
| `vault_cache` | 2 notes, 1 stream, 2 edits or disturbances, queue of 2, 1 pending hint, batch of 1, 1 fault of any kind | complete is true of what was told, fresh is true of the vault, the cache converges |
| `date_preparation` | 2 plans, 2 preparations, 2 epochs of 2 attempts, 1 retained | effects, unverified results and writes still owed keep the lock, unstarted ones did nothing |
| `stdio_proxy` | a governed apply and a direct call, 3 connection generations, annotations all or none | no replayed mutation, honest answers, every call ends |
| `native_effects` | 2 calls, 2 processes, 1 attempt, 2 epochs; a deletion under the preference "system" and a move; crashes, stops, lapses, timeouts, lost requests, failing native calls, reloads, quits, rotation, edits, evicted receipts, withdrawn grants, another vault, a busy service | a refusal is true for good, receipts follow `WriteOutcome`, a live owner keeps its plan |
| `recovery_denies`, `starvation`, `unrecorded_conflict` | | sentences of the documentation that the code does not keep (section 6) |

The properties:

- `RevokedVerdictIsFinal`: what the fence told a caller stays true across rotation, pruning and reload.
- `QuiescenceIsProof`: the legacy proof covers handlers of every
  instance of the realm, across reloads and changes of the setting. That no tokenless effect starts while the proof
  is given (`QuiescenceIsStable`) is proved only.
- `ImplementsContract`: refinement of `FenceContract`.
- `ClosedPlanIsDead`: every request that exists has its token in the row, and the
  tokens of a closed row can neither start an effect nor have one under way. This is
  the `no_further_effect` that `administrativeClosure.ts` reports.
- `ImplementsOutcome`: refinement of `WriteOutcome`. A terminal receipt is final, a
  commit follows an effect, an expired plan had none and will have none, a
  reviewed plan will have no further one.
- `AtMostOneEffect`: retries never write twice, unless the sealed content was
  restored in between.
- `FirstRefusalIsTrue`: a conflict or rejection of a plan executed once means that
  nothing was written and nothing can be.
- `OnlyOwnerRefuses`: an executor whose plan was swept or taken over refuses nothing.
- `LiveOwnerKeepsPlan` (of `GovernedWrite` and of `NativeEffects`): while its owner's lease is
  fresh, nobody else takes an applying plan from it, except with a proof of its outcome.
- `InterruptionIsNoticed`: a plan left applying by a process that died does not stay so.
- `UncertaintyIsClosed`: an uncertain plan is settled or closed in the end, provided that
  the vault behind the address is the plan's for good from some time on.
- `LeasesFit`: the operations that really run respect the six ceilings.
- `NoIdleCapacity`: whenever the first request of a queue fits, it was admitted; a
  blocked identity never holds up another.
- `NoRequestIsLost`: a request inside the middleware waits once or holds one lease,
  and the order lists exactly the identities that wait, so that no promise is left
  unsettled.
- `ServedInOrder`: a client's requests are admitted in the order they queued.
- `StandardIsServed`: as long as an identity asks for standard operations only, each of
  its waiting requests is served, whatever the others ask. `EveryoneIsServed` asks it of
  every identity, and fails when mutations mix in (section 6).
- `OneMount`: the registrations made and not undone are those the supervisor holds.
- `ReportIsTrue`: "ready" is reported exactly for a complete registration.
- `MountedInTheEnd`: a provider that stays is served, whatever failed before.
- `CompleteMeansObserved`: a store marked complete, which is what a killed process leaves
  to the next, lacks no change that a received notice was about.
- `FreshReportIsTrue`: when the supervisor reports itself reconciled and connected, the
  streams really stand and nothing is in transit, the rows are the vault.
- `CacheConverges`: once edits and faults are over, the rows are the vault for good, and
  the cache says that it is ready again and again (each periodic pass interrupts it).
- `EffectHoldsItsLock`: a preparation acting on a note holds its lock, so two never act at once.
- `UnverifiedKeepsItsLock`: a preparation that entered keeps its lock until a plan verified
  the result or the owner reviewed it.
- `LateWriteHoldsItsLock`: a write that the date plugin still owes after its preparation ended keeps the note
  locked: the owner's review waits for it. The exception is an epoch that the fence has forgotten: its verdict `epoch_unknown`
  needs no quiet period. `docs/administrative-closure.md:38` explains that verdict by a realm that is gone, and the date plugin with it;
  but a realm that lives on also forgets an idle epoch after 16 newer ones (`MAX_RETAINED_EPOCHS`), which takes as many
  reloads or full epochs within the quiet period.
- `UnstartedDidNothing`: what was released as never started never started, and will not.
- `MutationIsNotReplayed`: a call that changed something entered a handler once.
- `OutcomeIsHonest`: "rejected" and "unreachable" are said only of calls that changed
  nothing. A governed apply keeps this also when the proxy itself cuts its request (drain timeout, or the
  client library's own request timeout), as `CHANGELOG.md:167` and `docs/audit-followups-20261027.md:73` say.
  The exception is a direct mutation, one without a plan, that the proxy cuts: it is answered "rejected" with status
  unknown although it may have executed. `docs/http-concurrency-backpressure.md:111` promises `backend_outcome_unknown`, while
  `scripts/test-stdio-proxy-reliability.mjs` asserts what the code does.
- `EveryCallEnds`: reconnections and their failures strand nobody.
- `RefusedPlanIsDead`: a plan recorded as conflict, rejected or expired did not trash or move the
  note, and no handler of its request is left that could.
- `ImplementsOutcome` of `NativeEffects`: the same `WriteOutcome`, here under receipts that are lost, evicted or
  read early. The absence of the note is no proof of its deletion.

Why the bounds suffice: two attempts are one stale and one current; a third adds
a second stale one, which meets the same guards. Two epochs are one retired and one
live; with one epoch retained, the retired one is dropped as soon as nothing runs in it.
Two calls are one racing another; the races of three that the code could meet
(a stale executor, a recovery and a closure) appear with two handlers because a
handler is reused as soon as its call returns and a request outlives its call.
`MaxRecorded` is 32 in the code and 1 or 2 here, so that the limit is reached.
Admission needs three identities, since with two the rotation is an alternation, and
as many requests as fill both slots and a queue of two.
Date preparation needs two plans that race for one lock and a second preparation
after a rotation; the realm's registry is the one of `effect_fence` without tokenless handlers.
The cache needs two notes, so that a hint overflows a table of one and a batch of one leaves
work over, and one fault at a time: each is followed by the recovery under test. One stream
stands for all kinds, since `Connected = Streams` is what the code asks of them. The proxy
needs two calls on one connection, so that one replaces it under the other, one of each kind, and three
generations, so that a replacement is itself replaced. A deletion or move has one attempt by construction; two calls
of two processes are the executor and an observer, and two epochs a handler that outlives its
plugin instance.
Deadlock is not checked in `liveness`, where all processes may be down for good, nor in
`stdio_proxy`, `native_effects` and `unrecorded_conflict`, where everything may have ended or be down; the
other instances never stop.

Fairness (`FairSpec`): weak fairness of each call's next stretch, of each answer
and of each request, because an event loop runs what is ready and every
request to the Bridge has a timeout; weak fairness of the lapse of a dead
process's lease, because leases carry an expiry time. Strong fairness of
`AskStatus`, `AskClosure` and `ResolvesQuiet` states an assumption on the clients and
on time: they keep asking, and the sweep interval and the quiet period of a settled
effect are over at infinitely many of the requests. Nothing is assumed of the Bridge
beyond answering, and the properties assume that a process is up infinitely often.

`FairSpec` of `HttpBackpressure` assumes that each request that holds a slot proceeds
in the end: a body read has a deadline, and a response ends, fails or is cancelled
with its connection. `FairSpec` of `ExtensionLifecycle` assumes that timers fire and that
cleanup and mount do not fail at every one of infinitely many probes.

`FairSpec` of `CacheEvents` assumes that queued work proceeds, timers fire, the periodic
refresh comes again and a stream is tried again; requests have timeouts, so a read that
fails is an end too. `FairSpec` of `BackendProxy` assumes that a call that can go on does,
that a sent request is answered, fails or is abandoned by the client library after its
request timeout, and that an attempt to reconnect ends, as start and connection have
timeouts.

Every property has a mutant in PROJECT.json, a plausible bug of the same code
(the operators commented "A faulty ..."), that TLC shows to violate it.

## 4. What TLAPS proves

For every number of processes, calls, attempts and epochs:

- `TypeCorrect`, `ClosedPlansAreDead`, `GovernedWriteImplementsOutcome`, `OnlyOwnersRefuse`,
  `LiveOwnersKeepPlans`, `EffectsAreUnique` and `FirstRefusalsAreTrue` in `GovernedWriteProofs`;
- `TypeCorrect`, `RefusedPlansAreDead`, `NativeEffectsImplementOutcome` and `OwnersKeepPlans`
  in `NativeEffectsProofs`, for every number of processes, calls and attempts;
- `RevokedVerdictsAreFinal`, `FenceImplementsContract`, `FenceIsTyped`,
  `RunningEpochsAreKnown`, `QuiescenceIsTrue` and `QuiescenceLasts` in `EffectFenceProofs`;
- `SupervisorTypeCorrect`, `NeverTwoMounts`, `SupervisorKeepsTrying` and `ReportsAreTrue` in
  `ExtensionLifecycleProofs`, for every number of providers;
- `PreparationIsTyped`, `EffectsHoldTheirLock`, `UnverifiedKeepTheirLock`, `LateWritesHoldTheirLock` and
  `UnstartedNeverRan`, also in `EffectFenceProofs`, for every number of plans and preparations;
- `ProxyIsTyped`, `NoMutationIsReplayed`, `CallersAreToldTheTruth`, `MetadataStaysCurrent` and
  `NoConnectionLeaks` in `BackendProxyProofs`, for every number of calls and generations;
- `CacheInvariant`, `CacheTypesHold`, `CompleteIsObserved` and `FreshIsTrue` in `CacheEventsProofs`, for
  every number of notes and streams and every limit of the queue, the hints and the batch;
- `AdmissionInvariant`, `CountersAreTyped`, `CeilingsHold`, `CapacityIsUsed`, `NobodyIsLost` and
  `QueuesKeepTheirOrder` in `HttpBackpressureProofs`, for any identities and requests and every
  configuration of ceilings and queue lengths that the schema accepts.

`ClosedPlanIsDead` is not inductive. The invariant `Inv` of `GovernedWriteProofs`
adds what the argument needs:

1. every request carries a token that its executor recorded before sending it,
   and an executor past that record has its token in the row;
2. an attempt that a call or the row owns was drawn before, and two calls never
   execute the same attempt, so a request has one sender;
3. tokens of the row are of issued epochs and only grow;
4. a closure about to commit holds tokens that are all dead: revoked, spent or of
   a retired epoch; and if the row is still the one it observed, these are all of
   the row's tokens;
5. a token that was barred stays out (`ContractProofs`: deadness is
   stable under every step of the contract);
6. an effect needs a token that entered, and a committed row had an effect.

The steps of the model are first put into a few kinds (`EveryStepHasAKind`): a
stretch of one call, an answer, a step of a request, a step of a process, of the
plugin, or of the world. The invariant is then shown to survive each kind, which
keeps the proof to one argument per kind and conjunct. The refinement follows: a
stretch of a call evolves the row as `Evolves` says, which maps to `Commit`,
`Refuse`, `Expire`, `Review` or a stutter, and an effect maps to `TakeEffect`.

The other theorems of `GovernedWriteProofs` need three more invariants, each shown to survive
the same kinds of steps:

- `OwnerInv`: an applying row names the process of the call that took it, and a call that only
  watches has no attempt. A step that refuses a row or takes it over has therefore found
  itself its owner or the owner's lease expired.
- `OneEffectInv`: while the sealed content was not restored from elsewhere, the note shows it only as long as nothing
  was written, and a write under way found it there when it entered.
- `FirstInv`: a plan executed once, without a switch of vaults, has a single executor; if that executor is
  reconciling a conflict, its request was refused, and a refusal in the row leaves no
  effect, no request that may still act and no executor.

What holds of the contract's tokens and of the row's operators whoever calls them is stated once, in
`ContractProofs`, and used for both compositions.

`NativeEffectsProofs` rests on the single attempt of its adapters. `ExecutorInv` says that one
call took the plan and that only it sends a request; `EffectInv`, that nothing was done to the note
before Obsidian's native call; `EvidenceInv`, that whoever holds an outcome
(the row, the receipt of the Bridge, the answer on its way, the call about to settle)
holds the truth. The last is kept because no step takes a proof back once there is one (`ProofsKeep`).
`RefusedPlanIsDead` and the refinement follow from it.

In `EffectFenceProofs` the first invariant relates the attempt states to the running
handlers and to the registry, and says that the current epoch is the last one
issued. The other properties need a second one (`RegistryInv`): the counters of
a registered epoch count exactly its running handlers, a running handler's epoch is registered,
an epoch that was not issued counts nothing, and no handler of an older build
outlives the delay. Counting needs the cardinality of the set of handlers of an epoch to move
by one with each entry and exit, which the proofs take from the library's theorems.

The last part of `EffectFenceProofs` shows that every step of the preparation protocol keeps the
invariants of the fence it extends, and adds `PrepInv`: what each plan's and the review's
program counter knows of the lock and of the token (`PlanKnows`, `ReviewKnows`), what a
request in the Bridge knows of its attempt (`RequestsInv`), and that a lock disappears only
when the token of its preparation is `Finished`: told revoked, settled, or of a dropped
epoch. A finished token is never admitted again and never running, by the fence's
invariant; that is why an answer that was lost cannot matter. What the date plugin still owes is not seen by the fence, so
`OwedInv` says of it that it is owed by a settled effect, and that behind a lock that is gone, or that the review is about
to release, nothing is owed to an epoch the fence knows (`NothingOwed`).

In `BackendProxyProofs` the invariant (`ProxyInv`) says of each call that its proof is the truth
about the connection it was made for (`ProofIsTrue`), and what the handler may have done so
far: before a replay after a network failure nothing was changed, and otherwise the handler was entered
in this execution or not at all (`HistoryIsTrue`). Ended calls keep the two properties
(`EndIsTrue`); for a governed apply that was cut this is so because its handler can only have run in the tool's own request, whose
errors `Told` turns into an unknown outcome (`EndsGood`). `DrainInv` states of the connections that the retired ones are those before the
current one, and that an open one among them still carries a call.

`CacheEventsProofs` answers why events may be hints. Neither property is inductive: that the rows are the
vault when the supervisor says so follows only if every row that is *not* the vault's was known to
be so all along. The invariant `CacheInv` says who knows, for each note p and each version w that it had:

1. `AwareInv`: if the row of p does not show w, then a reconciliation is due (`sup.dirty`), or
   an update of p is pending or queued (`Asked`), or the supervisor has not heard of w (`Unheard`): its
   notice is in transit, or some stream is down or not subscribed, so that it may be lost. The record that was read and not yet
   stored is bound in the same way; there a queued update counts only if it still has to read (`AskedAgain`).
2. `ReconcileInv`: while the supervisor reconciles and its revision did not move, the flag that a success will clear is
   not needed: the work that is still to come rereads p (`Doubted`, `ForcedWork`), or the pass
   cannot end well. `Doubted` states when: the scan is forced and has not visited p yet, or failed, or was told that
   something changed under it.
3. `CompleteInv`: a row behind a notice that was received keeps the store's state from "complete", and whoever might
   still write that word, the end of a scan or of an update, will find event work or a doubt.
4. `QueueInv` and `NoticeInv`: what was read belongs to the work at the head of the queue; at most one pass and one
   update of the supervisor are queued, each with someone waiting for it; rows, notices and history never
   run ahead of the vault.

Versions are quantified because the order of the streams is not that of the edits: a notice of an older
edit may arrive after the row was read at a newer one, and conversely. The steps are grouped as in the module (edits, scan, update, flush,
streams, requests for a refresh, restarts). Each group has lemmas for what the step does to the queue and the flags,
and the step lemma then keeps the five parts. The number of the next edit is a CHOOSE over naturals, and
`LeastNumber` (from the library's theorem that < is well founded) gives what the proofs need of it.

`HttpBackpressureProofs` is about a loop inside a step. `AdmissionInv` says that the controller is sound
(`Sound`), that its dispatch has nothing to do (`Idle`), and that what waits or is leased are the items
of the requests inside the middleware, each under the class it asked for. Soundness has three parts:

1. `CountsInv`: the counters are the cardinalities of the sets of leases they stand for, in total and per
   identity, and under their ceilings. `decrement()`, which stops at zero, is never asked to.
2. `QueuesInv`: an item waits once, in the queue of its identity, and not while leased; `queued` counts them all.
3. `OrderInv`: the order lists each identity that waits, once.

For `dispatch()`, `LoopInv` holds after every turn: the controller is sound, each queue is what is left of
the queue it started with (`IsRest`: served from the front), and the identities behind the turns
that are left, at the end of the order, are blocked. A grant starts a new round, so that a blocked
identity is asked again; when no turn is left, all of them are blocked. A turn
lowers `Due`, which bounds the number of turns by `MaxTurns`. With that, `DispatchServes`
states what the loop does, and the proofs about `acquire`, the release of a lease and
`removeQueuedItem` only state what they hand to it. For the
order of service, whoever stood before a request still does after an append, a removal or a service from the
front (`RestIsBehind` and the lemmas after it), and a change of class composes the release and the second
`acquire` (`ChangedSlotInOrder`). The prover has no induction over
data: that the loop is the recursive function it is written as (`TurnsAreDefined`) and that it ends follow from
`LeastNumber` instead, by the first turn at which two runs differ or at which the loop invariant fails.

The proofs use the assumptions `LimitsAssumption`, `RequestsAssumption`, `CacheAssumption`, `EventsAssumption`, `NoEpochAssumption`, `JournalAssumption`,
`FaultsAssumption`, `BoundsAssumption`, `FiniteAssumption`, `LifecycleAssumption`,
`NoAttemptAssumption`, `ProxyAssumption` and `EffectAssumption`, stated in the modules that declare the constants and
evaluated by TLC in every run.

The invariants of `ExtensionLifecycle` are inductive together: a probe may assume that
the supervisor's fields account for every registration (`Fit`), and each way it ends
either undid what was held or kept it.

## 5. Model-checked only

Liveness (`InterruptionIsNoticed`, `UncertaintyIsClosed`, `StandardIsServed`,
`MountedInTheEnd`, `CacheConverges`, `EveryCallEnds`) is beyond the prover.
Everything else that a passing run checks, each invariant, action property and refinement, is also a
theorem of section 4.

## 6. Where code and documentation differ

1. *A recovery forgets an uncertain effect* (`recovery_denies`).
   `docs/adr/ADR-Common-Operation-Runtime.md:161-167` keeps such a plan
   `outcome_unknown`, and lines 70-71 ask for it whenever the final state cannot be proven. The
   code does so when the compare-and-swap answers conflict, and not when
   its own read before the dispatch sees the foreign content: the receipt becomes a terminal
   conflict. A recovery that finds writes disabled becomes `rejected` in the same way. In both
   cases the earlier attempt may have written, and in the runs did.
2. *Round robin does not exclude starvation* (`starvation`).
   `docs/http-concurrency-backpressure.md:81`: "dispatched in round-robin order. [...]
   This prevents one client with many queued calls from starving other
   identities"; `docs/adr/M2-HTTP-Backpressure-Validation.md:7` says the same.
   `dispatch()` sends an identity to the back of the order also when its head is only
   blocked. With one mutation slot, a client that keeps two mutations coming and another
   with standard operations, the turn of a third client's mutation comes only
   when a standard slot is freed, and is spent. Its queue timeout ends the wait with a
   503; the client may ask again and lose again.
3. *A truthful conflict is not recorded* (`unrecorded_conflict`).
   `docs/governed-note-delete.md:19`: "any difference [...] is a `conflict` before any effect and
   requires a new plan." The Bridge answers so, but until the plan is revalidated its answer names the
   trash preference "local" (`noteDelete.ts:120`), and the adapter refuses an answer that names another
   preference than the plan's (`noteDeleteOperationAdapter.ts:157`). A plan sealed under "system" that
   meets an edited note becomes `outcome_unknown`, and no status call can settle it, although nothing
   was done. Moves and plans sealed under "local" are recorded as documented.

`WriteOutcome` promises nothing about effects after `conflict` or `rejected`
because of the first; `FirstRefusalIsTrue` and `RefusedPlanIsDead` are the parts that do hold.

Two more disagreements have no run of their own. The answer of the stdio proxy to a direct mutation (one without a plan)
that it cuts itself is the exception in `OutcomeIsHonest` (section 3). And stale executors do dispatch, where
`docs/administrative-closure.md:21-23` says that they never do: ownership is
compared when the attempt is recorded, before the pre-dispatch read, and a plan swept during that
read is still sent. `Dispatch` has no guard for this reason, and the guarantee of the closure is not affected
(`ClosedPlanIsDead`), because the token is in the row and is revoked.

## 7. Plan

Order of the remaining work, by what could hurt a user most:

1. `FileCreation`: the exclusive creation of notes, bases and canvases, whose status commits by the
   observed content. Worth a property there: a status call that sees foreign content while the request is under
   way makes the plan `outcome_unknown`, and the executor's later answer is then dropped.
2. `PlanAdmission`: `create()` with the idempotency race and the capacity of
   projections, for several plans.
3. `DeferredSettlement`: the settlement policy in `GovernedWrite`, or beside it, with the
   completion receipts and the observation window.
4. `LegacyClosure`: tokenless attempts in the journal against
   `QuiescenceIsProof`, which joins `EffectFence`'s legacy part to the closure.

## 8. Not modelled

Most of the repository translates data, and has no state that several steps could
leave wrong: formatting, hashing, YAML and text compilation, tool listings, configuration.
These are pure functions whose tests reach them well. So are most lines of the
Operon and Bases bridges, of their services and of the direct tools, which adapt
third-party interfaces, and all of the test and smoke scripts, which make up a third of the
lines. The models therefore stand for a small share of the repository's text and for
most of its protocols.

The mutating saga of external moves is disabled in this build:
`assertExternalMoveMutationUnavailable` throws before any effect. Left out for now, with the
reason in PROJECT.json: plan admission, deferred settlement and the completion signal, the
creation routes and their adapters, the semantic cache, transport and
authentication. Within the modelled components: the proxy's choice of exposed tools, its hidden tools and
shutdown; the cache's orderly close, exclusions and choice of source; the grants and the
epochs of event streams; the plan construction of deletions and moves and what they
observe after their effect; Bridges without a fence epoch in date preparation.

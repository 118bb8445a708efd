# Work Squared: formal model

Work Squared is a multi-user workspace with an AI agent. Clients keep their data in
LiveStore stores that synchronise through a worker; a Node server subscribes to the
stores and answers chat messages with an agent; an auth worker owns accounts, workspaces
and tokens. This directory holds TLA+ models of the parts of that system whose
correctness depends on the order in which things happen, TLC configurations that check
them on small instances, and proofs, checked with TLAPS, that hold for every size.

## The system

| Part | Where | State | Operations | Talks to |
|---|---|---|---|---|
| EventProcessor, with ProcessedMessageTracker, MessageQueueManager | `packages/server/src/services` | per store: event buffer, active conversations, queues, cache of agent sessions, agent resources; shared: LLM slots, `processed_messages` table | subscription callback, buffer flush, deduplication, `handleUserMessage`, `processQueuedMessages`, start / stop monitoring, `stopAll`, reconnection | StoreManager (events), LiveStore (subscription, commits), the model provider |
| StoreManager | `store-manager.ts`, `factories/store-factory.ts` | per store: connection status, network and sync status, attempts, reconnection timer | add, remove, reconnect, health check, shutdown | LiveStore, EventProcessor |
| WorkspaceOrchestrator, WorkspaceReconciler, webhooks, manual reconcile | `workspace-*.ts`, `api/*.ts`, `index.ts` | which stores are recorded as monitored; the running flag of the reconciler | ensureMonitored, stopMonitoring, reconcile, shutdown | StoreManager, EventProcessor, auth worker |
| UserStore Durable Object | `packages/auth-worker/src/durable-objects/UserStore.ts` | users, members, invitations, audit log, claims versions | create / delete / rename workspace, invite, accept, revoke, remove, change role, sign up, delete user | KV namespace of claims versions |
| Auth worker handlers, JWT, notifier | `packages/auth-worker/src` | none | login, refresh, workspace endpoints, webhooks with three attempts | UserStore, server |
| Sync worker | `packages/worker/functions/_worker.ts` | cache of claims versions | check the token of a sync connection | KV, LiveStore backend |
| Web client: tokens | `packages/web/src/utils/auth.ts`, `contexts/AuthContext.tsx`, `hooks/useSyncPayload.ts` | tokens and a refresh lock in `localStorage` | refresh, log in, log out, sync payload | auth worker, sync worker |
| Web client: store | `packages/web/src/Root.tsx`, `hooks/useLiveStoreRepair.ts`, `components/utils/LiveStore*.tsx` | per tab: mounted store, restart and repair flags; in `localStorage`: repair request and suggestion | boot, restart, repair, health checks | token refresh, LiveStore |
| Agent tools, LiveStore schema, UI | `server/src/tools`, `shared/src/livestore`, `web/src/components` | none of their own | queries and single commits | LiveStore |

What is hard, and what makes each part correct:

* **EventProcessor.** Rows are redelivered on every change, buffered, deduplicated across
  awaits and handed to `setImmediate`; runs, loops, timers, stops and reconnections
  interleave. Correct: no message is answered twice; a claimed message is not lost
  between two awaits and its handling ends; one run per conversation; order of messages;
  the cap on calls; no queue without a run. Inside a run: it is completed once however it
  ends, its failure is told, no eviction of the session cache disposes a session that is
  prompted, and no run waits for an initialisation that nobody makes.
* **StoreManager.** Events of streams that were replaced, a timer racing a network that
  comes back, removal during a reconnection. Correct: one reconnection at a time; a store
  that is `connected` is open and watched; every disconnection ends.
* **Orchestration.** Webhooks are repeated, lost and reordered and overlap with the
  reconciler; records are read before an await and written after it. Correct: what is
  recorded as monitored is monitored, and the record converges to the list of workspaces.
* **UserStore, tokens, sync worker.** Handlers interleave where they await KV or hashing;
  records of user and workspace are written separately; versions travel through KV and
  caches. Correct: a workspace keeps an owner; the two member records agree; a removed
  member's token is refused after a bounded time.
* **Web store.** A restart is asked for by one component, carried out by another that may
  be unmounted meanwhile, and flags in refs outlive what they describe; tabs share one
  repair record. Correct: no tab is stuck between two stores, it comes to run with the
  newest token, and a confirmed repair is carried out, once.
* **Web refresh.** Several tabs share a lock without an atomic step, and the lock expires
  while its owner works. Correct: refreshes that overlap do not end the session, tabs
  come to show what the storage holds, and every call ends.

## Modules

| Module | What it is |
|---|---|
| `MessagePipeline` | EventProcessor for one store, with its tracker and queues |
| `MessageHandling` | what the pipeline promises for each message; `MessagePipeline!HandlesOnce` is the refinement |
| `AgentRuns` | what `MessagePipeline` takes for one step: the agent's run, the cache of Pi sessions, the resources of a store |
| `StoreManager` | StoreManager for one store id |
| `WorkspaceMonitoring` | composition: auth worker, notifier and webhooks, orchestrator, reconciler, the monitoring side of StoreManager and EventProcessor, start and stop of the server |
| `UserStore` | the membership handlers of the UserStore Durable Object |
| `Sessions` | tokens in the tabs of a browser, claims versions, admission of sync connections |
| `BrowserStore` | how the tabs of a browser boot, restart and repair their LiveStore |
| `MC...` | the instances of each module for TLC: message to conversation, faults, symmetry |
| `..._proofs` | theorems about the module of that name; `MessageHandling_proofs` has what relates `MessagePipeline` to `MessageHandling` and what is about its queues |

### MessagePipeline

The process is single-threaded, so an action is what runs between two awaits. One store
is modelled; other stores share only the call slots with it, and `MaxCalls` can be
small. The agent's run, from `runAgenticLoop` to the `finally` block of its caller, is
one element of `runs`: `StartRun` adds it, `FinishRun` or `AbortRun` take it away, and
anything may happen in between. A loop of `processQueuedMessages` is in `runs` while it
awaits a run it started (`count > 0`) and in `loops` when its next step is due.

| Model | Code |
|---|---|
| `Deliver`, `TakeBatch`, `CheckProcessed`, `Claim`, `SkipOnDbError` | `handleTableUpdate`, `processBufferedEvents`, `processChatMessage`, one action per await |
| `deferred`, `HandleUserMessage` | `setImmediate(() => handleUserMessage(...))` and the outcomes of `handleUserMessage` |
| `FinishRun`, `AbortRun`, `StartQueued`, `StartQueuedFails`, `DropQueued`, `EndLoop` | end of a run, `processQueuedMessages`, `processQueuedMessage` |
| `BeginCall`, `EndCall`, `CallTimeout` | `beginLLMCall`, `endLLMCall` and its timer |
| `ExpireStale`, `StalePrefixes` | `cleanupAllStaleMessages` on its timer, `cleanStaleMessages` at enqueue |
| `StartMonitoring`, `StopMonitoring`, `FinishStop`, `Reconnected`, `FinishReconnect`, `StopAll`, `Crash` | the monitoring life cycle; a `StoreProcessingState` object is a generation `1..gens`, `current` is the entry of `storeStates` |
| `attempts`, `fate` | history: runs started for a message, and how its handling ended |

Abstractions: the rate limit of the last minute and all ages (five-minute expiry,
one-hour filter) are choices; a message is a model value of a conversation; the model
provider is configured; commits by the server to other tables are left out, commits of
chat messages set `dirty`. `MicrotasksDone` says that promise continuations run before
the next `setImmediate` callback or timer. The awaits of `processChatMessage` let every
other action interleave, which is more than the synchronous SQLite driver allows. A
second `storeReconnected` while the first one disposes its sessions is the same element
of `detaching`.

`Faults` names what the environment of a run may do: database errors (`db`), commits that
throw (`commit`), call timeouts, queue entries that become stale, the rate limit,
`stopMonitoring`, `storeReconnected`, and `crash` (also `stopAll`).

### StoreManager

An action is again what runs between two awaits. Stores of different ids share nothing
but the devtools ports, so one id is modelled. `entry` is the `StoreInfo` object that
`stores` holds and `info` holds every `StoreInfo` object that the map or an awaiting
callback refers to: an object that was removed lives on in a reconnection. Objects,
LiveStore instances and timers are numbers, taken again when nothing refers to them.

| Model | Code |
|---|---|
| `info[e].watch`, `info[e].syncWatch` | the instance whose streams the fibers of the entry consume; the `monitoringSessionId` and `store !== originalStore` tests are `HearsNetwork`, `HearsSync` |
| `mapped`, `armed`, `reconnects` | the timer in `reconnectTimeouts`, the timers that will fire, the callbacks that await `shutdownPromise` or `createStore` |
| `FirstReport`, `NetworkRestored`, `NetworkLost`, `StreamEnds` | `setupNetworkStatusMonitoring`, `consumeNetworkStatusChanges` |
| `SyncUpdate`, `RecoverStuck` | `handleSyncStateUpdate`, `handleStuckSyncRecovery` |
| `Schedule`, `FireLate`, `FireRecovered`, `FireReconnect`, `Reconnect`, `ReconnectFails` | `scheduleReconnect`, and its callback up to each await and after it |
| `HealthCheck` | one round of `runHealthCheck` |
| `AddStore`, `StoreAdded`, `AddFails`, `BeginRemoval`, `StoreRemoved`, `Shutdown` | `addStore`, `removeStore`, `shutdown` |

Abstractions: durations are choices (`overdue`: the disconnection has lasted for the
threshold; a `sync` of `stuck`: pending events have not moved for theirs). The initial
read of a status and the first event of its stream have the same effect and are one
action. `open` is the set of instances whose shutdown has not begun. Histories and
health reports are left out.

`Faults`: the network comes and goes (`network`), the sync gets stuck (`stuck`), the
status stream fails (`status`), an instance cannot be created (`create`), the store is
removed (`remove`), the manager shuts down (`shutdown`).

### AgentRuns

`MessagePipeline` shows that a message is run at most once and that a state runs one
message of a conversation at a time; `AgentRuns` starts from there (`Starting`) and opens
the run. A run is a record with the phase it waits in, the promise it awaits, the session
it prompts, and what it has told the user. A session is named by the message whose run
created it. `piSessions` of a generation is a sequence in the order of `lastAccessedAt`,
so time is not needed: the candidates of both eviction loops are prefixes of it.

| Model | Code |
|---|---|
| `StartRefused`, `StartCached`, `StartWithoutSession` | validation and context in `runAgenticLoop`, the cache lookup of `getOrCreatePiSession` |
| `StartStoreless` | the early return of `runAgenticLoop` when `getStore` finds nothing: the run is `unserved`, nothing is committed |
| `MakeRoom`, `Dispose`, `DisposeEnds`, `Spare`, `EndEviction` | the two loops of `evictPiSessionsIfNeeded` with `disposePiSessionEntry`, which removes the entry after the await |
| `GetResources`, `ResourcesReady`, `ResourcesFail` | `getOrCreatePiAgentResources`; `promise` is the promise in the map, `awaits` the one a run holds |
| `CreateSession`, `CreateFails` | the rest of `getOrCreatePiSession` |
| `PromptEnds`, `PromptEndThrows`, `ReportFailure`, `Reports`, `Throws` | the five places that complete a run: refusal, no session, end of the prompt, `catch`, and none when the `catch` throws |
| `StartMonitoring`, `StopMonitoring`, `Reconnected`, `CleanUp` | the cleanups, as far as they touch sessions and resources |
| `store`, `StoreRemoved` | the entry of the StoreManager: the orchestrator adds it, and `removeStore` deletes it after its await, whatever state is monitored by then |

Abstractions: what the model says is three Booleans (a text, an error, the output of a
failed tool); the directory of sessions and the choice of the newest file have no state
that another run reads in between; `stopAll` is a stop. `dispose()` of the session library
returns at once; the fault `dispose` lets it take time (see Findings).

### WorkspaceMonitoring

An action is what a handler does between two awaits that wait for something outside the
process. Every caller of the orchestrator (a webhook request, the reconciler, the
shutdown) has one element of `call`: what it awaits. Of StoreManager and EventProcessor
only what the orchestrator meets is kept: `entry` and `open` for the store, `state` for
the subscription; their own modules have the details.

| Model | Code |
|---|---|
| `Created`, `Deleted`, `Lost`, `Retried` | the routes of the auth worker and `notifyWorkspaceEvent`: attempts that are counted down |
| `Arrives` | `handleWorkspaceWebhook`, with a notifier that waits for the answer or takes it for lost |
| `EnsureKnown`, `EnsureCreates`, `EnsureFails`, `EnsureEnds`, `CreateFails` | `ensureMonitored`, `resolveStore`, `addStore` |
| `BeginStop`, `StopEnds`, `FinishStop` | `stopMonitoring` of orchestrator and EventProcessor, the latter with its `finally` |
| `ReconnectBegins`, `Reconnected`, `ReconnectFails` | the reconnection timer of StoreManager fires and shuts the store down; after its awaits the callback puts a new store into the entry it began with (`swap`: that of the map, or one that has left it) and emits `storeReconnected`, or fails |
| `Rejoined` | the `storeReconnected` handler: it deletes the state and subscribes to the new store, or fails with a log line |
| `orphan`, `Forgets` | stores whose state was deleted from `storeStates` without being unsubscribed |
| `Reconcile`, `DirectoryAnswers`, `Compare`, `ListFails`, `Treat`, `ReconcileEnds` | `reconcile`: request, answer of the auth worker, difference, one workspace after the other |
| `Boot`, `Shutdown`, `Exit`, `Crash` | `main` and the signal handler of `index.ts` |

`Faults` names what happens: workspaces are deleted, the list is older than what it is
compared with (`stale`), webhooks or answers are lost, creations, subscriptions and lists
fail, stores reconnect (`reconnect`) and end that without a store (`reopen`) or without a
subscription (`resubscribe`), the server crashes or shuts down, and calls for one workspace,
or its timer, meet a stop (`overlap`; nothing in the code keeps them apart). A callback of the
timer that awaits when a stop begins goes on in any case: `removeStore` clears a timer, not
a callback. One reconnection of a workspace is under way at a time and stands for all its
attempts; `StoreManager` has them one by one.

Two history variables name what the properties except: `failed`, the workspaces whose last
reconnection brought no store or no subscription, and `crossed`, those that were stopped
while a reconnection was under way.

### UserStore

The Durable Object runs one handler at a time except where a handler awaits something
other than its own storage: the KV put of a claims version, or the hash of a password. So
a handler is split there, and `job` says what each handler has still to do. The user
records are `role` and `default`, the lists are `members` and `invites`.

| Model | Code |
|---|---|
| `BeginSignup`, `Signup`, `DeleteUser`, `AddStoreId`, `RemoveStoreId` | `handleCreateUser`, `handleDeleteUser`, `handleUpdateUserStoreIds` |
| `CreateWorkspace`, `CreateEnds`, `SetDefault`, `ListWorkspaces` | `handleCreateWorkspace`, `appendInstance`, `setDefaultInstance`; rename and touch end in the same payload |
| `DeleteWorkspace`, `DeleteMember`, `DeleteEnds` | `handleDeleteWorkspace`, one KV put per member |
| `Invite`, `Revoke`, `Expire`, `Accept`, `AcceptEnds` | the invitation handlers and `getWorkspaceInvitations`, which drops what has expired |
| `RemoveMember`, `UpdateRole`, `MemberEnds` | the member handlers: the record, the KV put, the list |
| `Listed`, `Refreshed` | `getWorkspaceMembers` rebuilds an empty list from the records, also when a payload is built |

`Faults`: administrators edit memberships (`admin`; they write one of the two records on
purpose, so the properties leave the workspaces they edited out, `byHand`), invitations
expire, and handlers for one workspace meet (`overlap`).

### Sessions

One user with one workspace, several tabs of one browser. A token is the claims version
it was made with; the access token and the refresh token are stored and removed together.

| Model | Code |
|---|---|
| `Starts`, `TakeLock`, `GiveUp`, `Poll`, `Serve`, `StoreTokens`, `RequestFails` | `refreshAccessToken` with `acquireRefreshLock`, its wait and its polling, and `handleRefresh` |
| `StartTimer`, `StartPayload` | `checkTokenFreshness` of AuthContext, `updateSyncPayload` of `useSyncPayload` |
| `LockExpires` | `removeExpiredRefreshLock`: also while the owner waits for its answer |
| `Hear` | `handleStorageChange`: the event comes after the change, possibly after the next one |
| `Logout`, `Bye`, `Login`, `Close` | the user |
| `Bump`, `PutLands` | `persistUser`: the version, then the put into KV, late, out of order or never |
| `Latest`, `Admits`, `Connect`, `CacheExpires` | `getWorkspaceClaimsVersion`, `ensureWorkspaceClaimsVersionFresh`, `validateSyncPayload` |

Abstractions: tokens past their grace period, the rooms and the user info are left out; a
login is one step. `acquireRefreshLock` writes and reads the lock in one step of a tab,
and tabs are assumed to see each other's writes.

### BrowserStore

The tabs of one browser that show one workspace. Where `Sessions` says how a tab gets a
token, `BrowserStore` says what its store does with it; the newest token is a number. A tab
is a record: the page it shows, the refs and states of `LiveStoreWrapper`, and what its
mounted coordinator and monitor hold.

| Model | Code |
|---|---|
| `RequestRestart`, `ForceRestart` | `requestRestart` of `Root.tsx`, without and with `force` |
| `Mount`, `Requested`, `Consume` | a new key of the provider: the request is read again, and the effect that marks it as attempted runs if the answer changed from no to yes |
| `PayloadArrives`, `PayloadFails`, `Payload` | `updateSyncPayload`, the effect on the token, and the screen before the first token |
| `BootEnds`, `BootFails`, `Throws`, `ShutdownEnds` | `handleStoreReady`, the boot boundary, an error below it, `runShutdown` with `handleShutdownComplete` |
| `HealthRestart`, `Counts` | the three checks of `LiveStoreHealthMonitor` and `recordRestart`; the monitor is mounted below the provider, so `stalls` starts again with every mount |
| `OpenDialog`, `CloseDialog`, `AskRepair` | the button of `LiveStoreStatus`, there while a repair is suggested, and its dialog, which stays when the suggestion goes |
| `AskRepairAtBoot`, `Retry`, `RepairRecorded` | the buttons of the boot boundary's prompt; what both requests for a repair write |
| `RecordExpires`, `SuggestionExpires` | `readRepairStateSync`, `readRepairSuggestionSync` |
| `lost`, `owed` | history: a restart asked for while no coordinator was mounted; tabs whose confirmed repair has not been carried out |

A change of workspace or of the devtools parameter counts as leaving the tab. Ages are
choices; the health checks see whatever the network may show.

## Checks

| Run | Instance | Checks |
|---|---|---|
| `pipeline_faults` | 3 messages in 2 conversations, 2 generations, 1 active conversation, queue of 1, loop of 2; every fault but stops, reconnections and stale entries | `TypeOK`, `ConversationSerial`, `Accounted`, refinement `HandlesOnce` |
| `pipeline_load` | 5 messages in 3 conversations, 2 call slots, no queued message allowed at the cap, queue of 1, stale entries | `CapRespected`, `QueueHasRunner`, `RunsInPostOrder` |
| `pipeline_liveness` | 2 messages of 1 conversation, 2 generations, stops, reconnections, timeouts, stale entries; fairness | `AtMostOneRun`, `VisibleIsClaimed`, `ClaimedEnds` |
| `agent_runs` | 3 messages in 2 conversations, 2 generations, a cache of 1 session, every fault but a slow `dispose` | `TypeOK`, `CompletedOnce`, `FailureIsTold`, `PromptIsLive`, `NoSessionLeak`, `ResourcesComing`, `EvictionMakesRoom` |
| `store_reconnect` | 1 caller, 3 attempts, `network`, `stuck`, `create`; fairness | `TypeOK`, `SingleReconnect`, `ConnectedIsWatched`, `NoLeak`, `DisconnectEnds` |
| `store_churn` | 2 callers, 1 attempt, `status`, `remove`, `shutdown` | `ConnectingIsBacked` |
| `workspace_monitoring` | 1 workspace, 1 webhook request at a time, 2 attempts, 3 store instances, 1 restart, every fault but `overlap`; fairness | `TypeOK`, `MonitoredIsHeard`, `FollowsDirectory` |
| `user_store` | 2 users, 2 workspaces, 2 handlers, 2 edits by administrators, expiring invitations | `TypeOK`, `ListMatchesRecords`, `OwnerRemains`, `DeletedLeavesNothing`, `MembersAreNotInvited` |
| `last_owner` | the same with `overlap` and no edits | `OwnerRemains` is violated |
| `sessions` | 2 tabs, 1 change of membership, 2 calls, every fault; fairness | `TypeOK`, `SessionSurvives`, `RemovedIsRefused`, `TabsFollowStorage`, `CallsEnd` |
| `browser_store` | 2 tabs, 2 tokens, 2 repairs, threshold 2, every fault but `abandon` and `auth`; fairness | `TypeOK`, `RestartEnds`, `RepairRuns` |
| `repair_repeats` | 1 tab, 2 tokens, 2 repairs, failing boots | `ResetsOnce` is violated |

Five properties name an exception, each a behaviour of the code that Findings describes.
`RepairRuns` excepts a request that no coordinator was mounted to hear (`lost` is `late`): every
confirmation at the boot boundary's prompt in a tab whose store was ready before. What it
shows is that two tabs with one record do not lose a repair for each other.
`MonitoredIsHeard` and `FollowsDirectory` except the workspaces in `failed`, and the second those
in `crossed` as well. `CompletedOnce` and `FailureIsTold` are about runs that had a store; one
that finds none is never completed. Without their exceptions TLC finds the first three violated.

### Bounds

*Pipeline.* Two generations are enough for a state to be replaced while its work goes on.
A race on one message needs its row twice in a buffer, which the redelivery after a second
message gives. Three messages of one conversation are a run, a full queue and one too
many; messages of other conversations compete with them for slots and for the limit on
active conversations. The conversation limit stands for 50, the queue size for 100 and the
loop limit for 100: the code treats them as plain thresholds. `pipeline_load` leaves
timeouts out on purpose: a timeout gives a slot back while the run goes on, so the cap then
bounds the calls in flight and not the runs. It also leaves out commits that fail, because
of a finding below.

*Agent runs.* A cache of one session and two conversations make every creation an
eviction; a third message comes back to the first conversation while its session is being
evicted. Two generations are a stop or a reconnection while runs wait.

*Store.* Two `StoreInfo` objects are one in the map and one in a reconnection that outlived
it; three instances are theirs and one that leaked. More leaked instances would use up the
numbers, then no reconnection could end; `AtBound` says so in `DisconnectEnds`. It cannot
happen in `store_reconnect`, where `NoLeak` holds. That run has no removals on purpose:
with them `SingleReconnect`, `ConnectedIsWatched` and `NoLeak` do not hold. `removeStore`
deletes the timer from the map while its callback awaits, the callback goes on, and the
store that is added meanwhile gets a second timer, the fibers of the wrong instance, and an
instance that nobody shuts down. `store_churn` says what is left: no store stays
`connecting` without anything that will change it.

*Workspaces.* Workspaces share no state of the orchestrator but the order in which the
reconciler treats them, so one is modelled. Its creation, its deletion, a webhook that is
repeated, a list that is older than all of them and a restart of the server meet in every
order. Three instances are the one of the entry, the one a reconnection makes while a stop
shuts that down, and the one that is created when the workspace is monitored again.
`workspace_monitoring` leaves out `overlap`, with which `MonitoredIsHeard` is false: see Findings.

*UserStore.* Two users are an owner and another, or two owners; two workspaces are needed
where the code asks whether a member keeps another one; two handlers interleave on
different workspaces. With `overlap` they interleave on the same one.

*Sessions.* Two tabs compete for the lock. One change of membership gives two versions: the
one in a token and the one in KV. `MaxCalls` bounds the calls that are under way or will be
started; `MaxWatched` bounds the connections.

*BrowserStore.* Two tokens are one change of the token. Two tabs share one record. A
threshold of 2 stands for 3.

All runs but those of `WorkspaceMonitoring` set `CHECK_DEADLOCK FALSE`: when everything was posted
and handled, all accounts are deleted or all tabs are closed, nothing has to happen any
more.

### Fairness

*Pipeline.* The event loop runs due callbacks, microtasks and the flush timer of the states
in the map; awaits on SQLite return; a run ends, because provider calls are answered or
throw; the cleanups of a stop and of a reconnection end. Clients, timeouts, stops and
crashes are not assumed to happen.

*Store.* Streams deliver the state of the network, timers fire, health checks run and find
a lasting disconnection overdue, creations and shutdowns return or throw. The health check
reads `disconnectedSince`, which every event that says disconnected sets again; the
fairness assumes that the stream does not repeat them for ever.

*Workspaces.* The server is started again, the interval of the reconciler runs, cleanups
and ends of calls run. Strong fairness stands for what may fail but not for ever: the list,
the creation of a store, the subscription. A reconnection that has begun ends, with a store
or with a failure, and the handler of `storeReconnected` goes on after its cleanup. Webhooks
are not assumed to arrive, nor reconnections to begin.

*Sessions.* The lock expires, storage events are delivered, started calls take their next
step (the request has a timeout of the browser's). Users, connections and KV puts are not
assumed to do anything.

*BrowserStore.* Effects run, the first payload brings a token or an error, a boot ends or
fails, a shutdown ends, by its timeout of two seconds at the latest.

`AgentRuns` and `UserStore` have no fairness: their properties are safety, and
`ResourcesComing` is the safety form of "no run waits for ever": whoever waits for a
promise waits for one that somebody is making.

### Findings

Kept as runs that find a violation:

* `last_owner`. `docs/plans/027-workspace-management/README.md:99` promises that at least
  one owner remains. A change of role counts the owners in the list of members, writes the
  user record, awaits a KV put and then writes the list: two owners who demote themselves
  at once both pass the check (`UserStore.ts:1086`).
* `repair_repeats`. `docs/context-library/CONVENTIONS.md:100` says that a repair, which
  clears the local data, is never executed without a confirmation. When a boot that resets
  fails and the user confirms again, the effect that marks the request as attempted does
  not run (`Root.tsx:216`, its dependency is `true` both times), and every later restart
  resets the local data again.

Found by the same modules with other faults, or by widening a property; each is listed with
its line among the hazards or here:

* *Pipeline.* A commit of `llmResponseStarted` that throws (`event-processor.ts:897`) leaves
  its conversation active for ever; the messages behind it expire in the queue.
* *Agent runs.* A run that begins when its store is gone is never completed: `runAgenticLoop`
  returns before it commits anything (`event-processor.ts:1227`). A state made by a reconnection does not know the runs of the old one, which
  do not abort although the comment at `event-processor.ts:2307` says so: two runs prompt
  sessions of one file. An eviction that had to wait for `dispose` would dispose a session
  that is in use again (`:1945`). A run that waits for its session when the store stops puts
  it into a cache that was disposed already (`:1771`).
* *Store.* `store-manager.ts:477` treats the end of the network stream as a disconnection
  "to ensure the store doesn't remain "connected" forever", but only if the status is
  `connected`. While a stuck sync has made it `connecting` the end of the stream changes
  nothing; when the sync then makes progress, the timer finds the old network status up,
  sets `connected`, and nothing follows the network any more.
* *Workspaces.* `docs/plans/028-dynamic-store-orchestration/README.md:34` says that drift
  between the list of workspaces and the monitored ones is fixed. A list that is older than
  a workspace makes the reconciler stop it; if it is ensured again during the cleanup,
  `startMonitoring` finds the stopping state and returns without an error
  (`event-processor.ts:375`), the workspace is recorded as monitored, and no
  reconciliation sees that nothing hears it (`overlap`).
  The same plan says that "reconciliation guarantees correctness" (`:44`), and
  `037-websocket-disconnect-detection.md:226` that a reconnection triggers a re-subscription.
  When that subscription fails, only a log line tells (`event-processor.ts:2282`); the state is
  gone, the metadata says monitoring, the reconciler compares metadata and list and finds
  nothing to do, and later reconnections find no state: the workspace is not heard until the
  server restarts (`failed`).
  The plan also says that a deletion stops the monitoring within the reconciliation window
  (`:120`). A reconnection that awaits when `removeStore` begins (`store-manager.ts:745`) puts
  another store in place and emits `storeReconnected`, whose handler subscribes to it. The
  `finally` of `stopMonitoring` then deletes that state without unsubscribing it, `removeStore`
  shuts down the store it had found, and the metadata says stopped: the deleted workspace
  stays heard, and no run of the reconciler looks at it (`crossed`).
* *UserStore.* Two sign-ups of one address can both pass the test for an existing account
  while they hash (`UserStore.ts:1247`). A removal may count a workspace that is being
  deleted as the one the member keeps, and the account is left without any (`:1032`).
* *Sessions.* A refresh that is under way at a logout stores its tokens afterwards and logs
  the tabs in again (`auth.ts:428`). The payload keeps the token it was made with until the
  authentication state changes (`useSyncPayload.ts:78`).
* *BrowserStore.* `CONVENTIONS.md:100` says that the prompt of the boot boundary repairs. Its
  buttons mount the provider again only if no store of the tab was ever ready
  (`Root.tsx:194`): after a restart whose boot fails they raise a signal that nobody hears
  and set a flag that refuses every later restart. Only the reload of the page helps.
  A restart that is asked for while the store boots again, or that is
  pending when an error reaches the boundary, leaves the flag set and the screen "Restarting
  LiveStore" up (`Root.tsx:202`). A token that changes during the first boot is not used
  (`:298`). The history of the health monitor is lost with each restart it asks for, so the
  suggestion after three of them, and with it the repair button of the status dot,
  is hardly ever reached (`LiveStoreHealthMonitor.tsx:25`). A tab that is closed between the mark
  and the end of its boot loses the repair, which is shown as run.

## Proofs

Each module `X_proofs` proves its theorems for every value of the constants that satisfies
the assumptions named in `X`. All of them have the same shape: an inductive invariant, the
lemma that it holds initially, one lemma per action, and the theorems as its consequences.

**MessagePipeline** (`ConvOfAssumption`, `BoundsAssumption`).
`TypeCorrect`: the only step that needs an argument is the count of calls, which
`endLLMCall` does not take below zero. `SerialConversations` proves `ConversationSerial`: that
a new run is the only worker of its conversation follows from `activeConversations`, so
`SerialInv` says that the conversation of a run is active, that runs and loops of one
conversation are unique, and that a conversation has a run or a loop, not both. A loop
about to take a step does not keep its conversation active; what keeps a new message from
starting is that `setImmediate` callbacks wait for microtasks, and so `MicrotasksDone` is
used. That a queue holds messages of its own conversation (`QueuedBelong`) is a second
invariant. `AtMostOnce` proves `AtMostOneRun`: `OnceInv` says that a message waits in at most one
place, that a waiting message has not been started, and that a started message is claimed;
the claim then separates a new deferral from everything already in memory. `CapHolds`
proves `CapRespected` when no call times out (a call that does gives its slot back while
its run goes on). A queued message starts without asking for a slot, so the slots alone do
not bound the runs: `CapInv` bounds the runs and the loops together (`WorkCapped`), since a loop
only hands on the place of the run before it, and says that every run has a slot that is
counted, so that a new message at the cap is rejected.

**MessageHandling** (the same assumptions). `MessagesAccounted` proves `Accounted` for every
set of faults: `HoldInv` says that what is in memory is claimed and has not ended, and the
other way around (`HeldIffOpen`), so a step is described by what it lets go of (`LetsGo`).
`ImplementsHandling` proves the refinement `HandlesOnce`: the status of a message is a
function of where it is held (`StatusOfIs`), and every step of the pipeline changes the
status of the messages it lets go of by one step of `MessageHandling`, or of none. It uses
only that what is held is claimed and in one place. `QueuesServed` proves `QueueHasRunner` if
no commit fails at the start or end of a run and no conversation has more messages than
one loop and the run before it take (`DrainSuffices`: `MaxDrain + 1`, 101 in the code); a loop that
reaches its safety limit does leave messages behind. `ServedInv` compares the rounds of a
loop with the messages of its conversation that are gone for good (`CountsGone`).
`StartsInOrder` proves `RunsInPostOrder` when also the database answers. `OrderInv` says that
what was posted before an event of a batch is claimed or ahead of it in the batch
(`ClaimsInOrder`), that what was posted before a waiting message is claimed (`WaitsInOrder`), and
that callbacks and queues are in the order of posting, the queue before the callbacks
(`Ordered`). An event the database drops is overtaken, hence the hypothesis.

**AgentRuns** (`RunAssumption`). `TypeCorrect`, `RunsCompleteOnce`, `FailuresAreTold` and
`ResourcesAlwaysComing` hold whatever `Faults` holds, the second and third for runs that
had a store; of the others `RunsCompleteOnce` says that they are never completed. `Coming` says that a promise somebody
waits for is in the hands of a run that makes it, also after a cleanup took it out of the
map. `PromptsAreLive`, `SessionsAreKept` and `RoomIsMade` need a `dispose` that takes no time
(`"dispose" \notin Faults`); with it they are false. Their invariants `SessionsOk` and
`EvictionOk` rest on `AwaitsDone`: an eviction whose awaits are all done is alone with the
cache, so the candidates it chose are still the idle ones.

**StoreManager** (`StoreBounds`). `TypeCorrect`: the bound on `reconnectAttempts` is not
inductive: a timer adds its attempt when it fires, long after `scheduleReconnect` has looked
at the count, and an entry added after a removal inherits the timers of the one before.
`StoreInv` adds the budget `Within`: the attempts and the armed timers together stay below
the ceiling. `OneReconnection` proves `SingleReconnect` as long as no store is removed
(`NoRemoval`; with a removal it is false). `Slot` says that `reconnectTimeouts` is a lock: it
is empty and there is no reconnection, or the timer it holds is the only one that waits, or
it is the timer of the only callback that runs. `ConnectingBacked` proves `ConnectingIsBacked`
without a hypothesis: every action that sets the status `connecting` arms a timer, and a
timer that goes away leaves a callback or a removal. `NothingLeaks` (`NoLeak`) and
`ConnectedWatched` (`ConnectedIsWatched`) hold for one caller and no removal (`OneCaller`, `NoRemoval`);
with two additions that overlap, or a removal beside a reconnection, the code does leak an
instance. `AddsOnce` says that a reconnection works for the entry of the map and that
nothing is open meanwhile. `Watched` says that the instance of the entry is open and followed, or
that it is shut down (`Dead`): then neither stream is heard, so nothing brings its network
status up again, which is what keeps a health check from calling the store connected after
a failed attempt. This needs a network stream that does not fail (`"status" \notin Faults`).

**WorkspaceMonitoring** (`MonitoringBounds`). `TypeCorrect` holds for all faults; `Rest` adds to the
types that a shutdown begins only while a restart is left. `MonitoredAreHeard` proves
`MonitoredIsHeard` if no call for a workspace meets a stop of it (`Apart`, the fault that
`workspace_monitoring` leaves out; with it the property is false). `Orderly` says, one
workspace at a time, what work that is under way has made of the store, the subscription and
the metadata: no call runs beside a stop, whose end leaves no entry; a cleanup that outlives
its stop finds no entry and no claim; the store a reconnection will subscribe to is open and
is not the one a stop shuts down; the store of the entry is open, or a reconnection replaces it
or has failed to; a workspace at rest is heard, has no state or has lost its reconnection. The
last part is why `startMonitoring`, which returns silently when there is a state, is harmless
here; the others are what keeps it inductive while a reconnection and a stop of the same
workspace interleave. Calls and webhooks enter only through `CallerStep`, whoever the caller
is.

**UserStore** (`StoreAssumption`). `TypeCorrect` holds for all faults. `RecordsAgree`,
`AnOwnerRemains`, `NothingIsLeft` and `NoMemberIsInvited` hold if handlers of one workspace do
not meet (`"overlap" \notin Faults`; `last_owner` shows what happens otherwise). `Orderly` says
that a workspace has at most one waiting handler, which of the two records is ahead while it
waits (`Waiting`), and that both agree when none does (`Settled`). `AnotherOwner` links the
count of owners in the list to an owner in the records. `SignupsAlone` separates the
handler that hashes a password from the account it will create.

**Sessions** (`SessionAssumption`). `TypeCorrect`; `SessionsSurvive`: a session ends only by a
logout or a request that failed; `RemovedAreRefused`: once KV and the cache have the version
without the workspace, no connection opens. `AllTypes` adds to the types that an answer of
the auth worker carries a version it has issued (`AnswersCarryVersion`).

**BrowserStore** (`BrowserAssumption`). `TypeCorrect`; `PendingRestartsAreHeard`: the flag that
refuses further restarts is set only while the coordinator awaits the shutdown or after the
request was lost with it, so the exception in `RestartEnds` is the only one. `TabsFit` adds
that a restart is pending only in a tab that has had a store, since a forced mount does not
take the flag back.

Every safety property a passing run checks is stated by one of these theorems. Only
model-checked: the liveness properties, `VisibleIsClaimed` and `ClaimedEnds` of the pipeline,
`DisconnectEnds`, `FollowsDirectory`, `TabsFollowStorage`, `CallsEnd`, `RestartEnds` and
`RepairRuns`: liveness under fairness, with the `ENABLED` it rests on, is outside what the
provers can do. Where a theorem has a hypothesis on `Faults` or `Callers`, the run of the property
has it too.

## Plan

Done: `MessagePipeline` with `MessageHandling`, `AgentRuns`, `StoreManager`,
`WorkspaceMonitoring`, `UserStore`, `Sessions`, `BrowserStore`, and the proofs above.

1. Proofs: weaker hypotheses where the code justifies them: `NoLeak` with removals that do not
   meet a reconnection, `QueueHasRunner` with failing commits.
2. Shared data: clients append events to local logs that are rebased on the log of the
   sync worker. What could go wrong there: commands check the local state only (two clients
   place projects on one hex, against the unique index of `schema.ts:94`), the onboarding
   record is written as a whole and may overwrite a newer one after a start that did not
   wait for the sync, `lifecycleState` is replaced as a whole, and an archived project keeps a
   placement that another client adds.

## Not modelled

* The agent's tools and prompts: single queries and commits, without state of their own, and
  the formatting of results. They, and the user interface, are most of the lines of the
  repository.
* The LiveStore schema and events: declarative, one statement per event (see Plan).
* The user interface, dashboards, logging, statistics; the PostHog proxy and the prototypes.
* `RetryableOperation`: only its tests use it. The message lifecycle tracker: a ring buffer for
  debugging that no other part reads.
* Scheduling helpers: calendar arithmetic. The stub responder and the rate limits of the auth
  worker: answers that the models already allow as refusals.
* Inside the modelled parts: the sequence of provider and tool calls inside a run; profile,
  password and admin flag of an account; signatures of tokens and webhooks; ports of the
  devtools; health reports.

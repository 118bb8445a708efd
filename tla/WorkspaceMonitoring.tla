------------------------ MODULE WorkspaceMonitoring ------------------------
(***************************************************************************)
(* Which workspaces the server listens to.                                 *)
(*                                                                         *)
(* The auth worker creates and deletes workspaces and reports both with    *)
(* webhooks (auth-worker/src/workspace-notifier.ts).  On the server a      *)
(* WorkspaceOrchestrator answers them: it adds or removes the store of the *)
(* workspace in the StoreManager and starts or stops its monitoring in the *)
(* EventProcessor.  A WorkspaceReconciler compares the list of the auth    *)
(* worker with the orchestrator's metadata from time to time and repairs   *)
(* the difference.  index.ts starts and stops all of them.                 *)
(*                                                                         *)
(* An action is what a handler does between two awaits that wait for       *)
(* something outside the process.  Stores are numbers per workspace; one   *)
(* that is shut down and referred to by nothing is taken again.            *)
(***************************************************************************)
EXTENDS Integers

CONSTANTS
  Workspaces,
  Configured,   \* STORE_IDS: workspaces monitored from the start of the server
  Requests,     \* bound: webhook requests handled at the same time
  MaxStores,    \* bound: LiveStore instances of a workspace at the same time
  MaxAttempts,  \* attempts of the notifier (3 in the code)
  MaxRestarts,  \* bound: starts of the server after the first
  Faults        \* what the environment may do, see FaultKinds

\* "overlap": calls for one workspace, or its timer, meet a stop of it.  "reopen" and
\* "resubscribe": a reconnection ends without a new store, or without a subscription.
FaultKinds == {"delete", "stale", "overlap", "reconnect", "create", "subscribe",
               "list", "lost", "crash", "shutdown", "reopen", "resubscribe"}

ASSUME MonitoringBounds ==
  /\ Configured \subseteq Workspaces
  /\ {MaxStores, MaxAttempts} \subseteq Nat \ {0} /\ MaxRestarts \in Nat
  /\ Faults \subseteq FaultKinds

VARIABLES
  stage,     \* the workspace in the auth worker: "new", "present" or "deleted"
  notices,   \* webhooks the notifier has still to deliver
  server,    \* "down", "up" or "stopping" (shutdown has begun)
  restarts,  \* starts so far
  metadata,  \* storeMetadata[w].status
  entry,     \* stores.get(w) of the StoreManager, 0 when there is none
  open,      \* the instances of w that are not shut down
  state,     \* storeStates.get(w) of the EventProcessor
  cleanups,  \* stopMonitoring calls whose processingQueue.finally has not ended
  swap,      \* whose store the reconnection under way replaces: see Swaps
  rejoin,    \* the store the storeReconnected handler will subscribe to, or 0
  failed,    \* history: workspaces whose reconnection brought no store or no subscription
  crossed,   \* history: workspaces that were stopped during a reconnection
  orphan,    \* stores that states no longer in storeStates still subscribe to
  call,      \* what each caller of the orchestrator awaits
  work,      \* workspaces the reconciler and the shutdown have still to treat
  listing    \* the reconciler's request to the directory

authVars  == <<stage, notices>>
reconnection == <<swap, rejoin, failed, crossed>>
storeVars == <<entry, open, state, cleanups, reconnection, orphan>>
vars == <<authVars, server, restarts, metadata, storeVars, call, work, listing>>

Stores  == 1..MaxStores
Loops   == {"reconcile", "shutdown"}
Callers == Requests \cup Loops

NoState == [on |-> 0, stopping |-> FALSE]
Idle    == [op |-> "none"]
NoWork  == [add |-> {}, remove |-> {}]
Unlisted == [at |-> "idle", ids |-> {}]

\* None is under way, or that of the entry in the map, or of one that has left it.
Swaps   == {"none", "entry", "gone"}
States  == [on: 0..MaxStores, stopping: BOOLEAN]
Notices == [event: {"created", "deleted"}, ws: Workspaces, left: 1..MaxAttempts]
Calls   == {Idle} \cup [op: {"ensure"}, ws: Workspaces, of: Notices \cup {Idle}]
                  \cup [op: {"stop"}, ws: Workspaces, store: 0..MaxStores]

TypeOK ==
  /\ stage \in [Workspaces -> {"new", "present", "deleted"}]
  /\ notices \subseteq Notices
  /\ server \in {"down", "up", "stopping"}
  /\ restarts \in 0..MaxRestarts
  /\ metadata \in [Workspaces -> {"none", "monitoring", "stopped"}]
  /\ entry \in [Workspaces -> 0..MaxStores]
  /\ open \in [Workspaces -> SUBSET Stores]
  /\ state \in [Workspaces -> States]
  /\ cleanups \in [Workspaces -> Nat]
  /\ swap \in [Workspaces -> Swaps]
  /\ rejoin \in [Workspaces -> 0..MaxStores]
  /\ failed \subseteq Workspaces /\ crossed \subseteq Workspaces
  /\ orphan \in [Workspaces -> SUBSET Stores]
  /\ call \in [Callers -> Calls]
  /\ work \in [Loops -> [add: SUBSET Workspaces, remove: SUBSET Workspaces]]
  /\ listing \in [at: {"idle", "asked", "answered", "working"}, ids: SUBSET Workspaces]

\* The values of a server that has just started.
Each(x)   == [w \in Workspaces |-> x]
NoCalls   == [c \in Callers |-> Idle]
NoneToDo  == [l \in Loops |-> NoWork]

Init ==
  /\ stage = [w \in Workspaces |-> IF w \in Configured THEN "present" ELSE "new"]
  /\ notices = {}
  /\ server = "down" /\ restarts = 0
  /\ metadata = Each("none") /\ entry = Each(0) /\ open = Each({}) /\ state = Each(NoState)
  /\ cleanups = Each(0) /\ swap = Each("none") /\ rejoin = Each(0)
  /\ failed = {} /\ crossed = {} /\ orphan = Each({})
  /\ call = NoCalls /\ work = NoneToDo /\ listing = Unlisted

-----------------------------------------------------------------------------
(* Who is busy with a workspace *)

Monitored == {w \in Workspaces : metadata[w] = "monitoring"}  \* listMonitored

CallsOn(w)    == {c \in Callers : call[c] # Idle /\ call[c].ws = w}
StopsOn(w)    == {c \in CallsOn(w) : call[c].op = "stop"}
Settling(w)   == StopsOn(w) # {} \/ cleanups[w] # 0 \/ rejoin[w] # 0
Reconnecting(w) == swap[w] # "none"

\* Nothing in the code keeps apart the calls for one workspace, or the timer and a stop.
\* Without the fault "overlap" they happen not to meet one; a callback of the timer that
\* is under way when the stop begins goes on in any case.
MayReconnect(w) == "overlap" \in Faults \/ StopsOn(w) = {}
MayEnsure(w) == "overlap" \in Faults \/ ~Settling(w)
MayStop(w)   == "overlap" \in Faults \/ (~Settling(w) /\ CallsOn(w) = {})

FreeStores(w) == Stores \ (open[w] \cup orphan[w] \cup {entry[w], state[w].on, rejoin[w]}
                            \cup {call[c].store : c \in StopsOn(w)})
Unused(w)     == CHOOSE s \in FreeStores(w) : TRUE

\* The server receives what is written in the workspace: by the state that is in the
\* map, or by one that was deleted from it and not unsubscribed.
Subscribed(w) == ~state[w].stopping /\ state[w].on \in open[w]
Heard(w)      == Subscribed(w) \/ orphan[w] \cap open[w] # {}

-----------------------------------------------------------------------------
(* Auth worker: workspaces and the notifier *)

Created(w) ==
  /\ stage[w] = "new"
  /\ stage' = [stage EXCEPT ![w] = "present"]
  /\ notices' = notices \cup {[event |-> "created", ws |-> w, left |-> MaxAttempts]}
  /\ UNCHANGED <<server, restarts, metadata, storeVars, call, work, listing>>

Deleted(w) ==
  /\ "delete" \in Faults
  /\ stage[w] = "present"
  /\ stage' = [stage EXCEPT ![w] = "deleted"]
  /\ notices' = notices \cup {[event |-> "deleted", ws |-> w, left |-> MaxAttempts]}
  /\ UNCHANGED <<server, restarts, metadata, storeVars, call, work, listing>>

\* mutant: the attempts are not counted to the end
RetriedAgain(n) == {[n EXCEPT !.left = n.left - 1]}

\* What the notifier has to do after a failed attempt n.
Retried(n) == IF n.left = 1 THEN {} ELSE {[n EXCEPT !.left = n.left - 1]}

\* notifyWorkspaceEvent: the request or its answer is lost.  The loss of the
\* answer starts the next attempt while the server works on the first.
Lost(n) ==
  /\ n \in notices
  /\ "lost" \in Faults \/ server # "up"
  /\ notices' = (notices \ {n}) \cup Retried(n)
  /\ UNCHANGED <<stage, server, restarts, metadata, storeVars, call, work, listing>>

-----------------------------------------------------------------------------
(* EventProcessor *)

\* startMonitoring of store s: without an effect, and without an error, when
\* there is a state for w already, a stopping one too.
StartMonitoring(w, s) ==
  state' = IF state[w] = NoState
           THEN [state EXCEPT ![w] = [on |-> s, stopping |-> FALSE]]
           ELSE state

\* stopMonitoring: nothing is heard from now on; the entry goes when the
\* processing queue of the state is empty.
StopMonitoring(w) ==
  IF state[w] = NoState THEN UNCHANGED <<state, cleanups>>
  ELSE /\ state' = [state EXCEPT ![w].stopping = TRUE]
       /\ cleanups' = [cleanups EXCEPT ![w] = @ + 1]

\* storeStates.delete: a state that is not stopping stays subscribed.
Forgets(w) ==
  orphan' = IF state[w] = NoState \/ state[w].stopping THEN orphan
            ELSE [orphan EXCEPT ![w] = @ \cup {state[w].on}]

\* The finally of stopMonitoring deletes whatever state is there by now.
FinishStop(w) ==
  /\ cleanups[w] > 0
  /\ cleanups' = [cleanups EXCEPT ![w] = @ - 1]
  /\ state' = [state EXCEPT ![w] = NoState]
  /\ Forgets(w)
  /\ UNCHANGED <<authVars, server, restarts, metadata, entry, open, reconnection, call, work,
                 listing>>

-----------------------------------------------------------------------------
(* Reconnections: StoreManager (its module has the details) and EventProcessor *)

\* The timer fires: the store of the entry is shut down and the callback awaits a new
\* one.  removeStore clears a timer, not a callback.  (One at a time; its attempts are one.)
ReconnectBegins(w) ==
  /\ "reconnect" \in Faults
  /\ server # "down" /\ entry[w] \in open[w] /\ MayReconnect(w)
  /\ swap[w] = "none" /\ rejoin[w] = 0
  /\ swap' = [swap EXCEPT ![w] = "entry"]
  /\ open' = [open EXCEPT ![w] = @ \ {entry[w]}]
  /\ UNCHANGED <<authVars, server, restarts, metadata, entry, state, cleanups, rejoin, failed,
                 crossed, orphan, call, work, listing>>

\* The new store is there, whatever has become of the entry, and the storeReconnected
\* handler stops a state it finds, up to the await of its cleanup.
Reconnected(w) ==
  /\ Reconnecting(w) /\ rejoin[w] = 0
  /\ FreeStores(w) # {}
  /\ LET s == Unused(w) IN
       /\ entry' = IF swap[w] = "entry" THEN [entry EXCEPT ![w] = s] ELSE entry
       /\ open' = [open EXCEPT ![w] = @ \cup {s}]
       /\ IF state[w] = NoState THEN UNCHANGED <<state, rejoin>>
          ELSE /\ state' = [state EXCEPT ![w].stopping = TRUE]
               /\ rejoin' = [rejoin EXCEPT ![w] = s]
  /\ swap' = [swap EXCEPT ![w] = "none"]
  /\ UNCHANGED <<authVars, server, restarts, metadata, cleanups, failed, crossed, orphan, call,
                 work, listing>>

\* The store cannot be created, the attempts are used up: there is no other reconnection.
ReconnectFails(w) ==
  /\ "reopen" \in Faults
  /\ Reconnecting(w)
  /\ swap' = [swap EXCEPT ![w] = "none"]
  /\ failed' = failed \cup {w}
  /\ UNCHANGED <<authVars, server, restarts, metadata, entry, open, state, cleanups, rejoin,
                 crossed, orphan, call, work, listing>>

\* The handler deletes the state that is in the map and subscribes to the new store; when
\* it cannot, the error is only logged.
Rejoined(w) ==
  /\ rejoin[w] # 0
  /\ Forgets(w)
  /\ \/ /\ state' = [state EXCEPT ![w] = [on |-> rejoin[w], stopping |-> FALSE]]
        /\ failed' = failed \ {w}
     \/ /\ "resubscribe" \in Faults
        /\ state' = [state EXCEPT ![w] = NoState] /\ failed' = failed \cup {w}
  /\ rejoin' = [rejoin EXCEPT ![w] = 0]
  /\ UNCHANGED <<authVars, server, restarts, metadata, entry, open, cleanups, swap, crossed,
                 call, work, listing>>

-----------------------------------------------------------------------------
(* WorkspaceOrchestrator: the bodies of its calls for caller c *)

\* The call of c begins or ends; `of' is the webhook it answers, if any.
Awaits(c, k) == call' = [call EXCEPT ![c] = k]
Returns(c)   == call' = [call EXCEPT ![c] = Idle]

\* The end of ensureMonitored once there is a store s: startMonitoring, then the
\* metadata, unless no table can be subscribed to and startMonitoring throws.
Monitor(w, s) ==
  /\ StartMonitoring(w, s)
  /\ metadata' = [metadata EXCEPT ![w] = "monitoring"]

SubscribeFails(w) ==
  /\ "subscribe" \in Faults /\ state[w] = NoState
  /\ UNCHANGED <<state, metadata>>

\* ensureMonitored with a store that is there: resolveStore returns it.
EnsureKnown(w) ==
  /\ entry[w] # 0
  /\ Monitor(w, entry[w])
  /\ UNCHANGED <<entry, open, cleanups, reconnection, orphan>>

EnsureFails(w) ==
  /\ entry[w] # 0
  /\ SubscribeFails(w)
  /\ UNCHANGED <<entry, open, cleanups, reconnection, orphan>>

\* ensureMonitored without a store: addStore awaits createStore.
EnsureCreates(w, c, of) ==
  /\ entry[w] = 0
  /\ Awaits(c, [op |-> "ensure", ws |-> w, of |-> of])
  /\ UNCHANGED <<metadata, storeVars>>

\* A reconnection goes on for an entry that has left the map.
EntryReplaced(w) == swap' = [swap EXCEPT ![w] = IF @ = "entry" THEN "gone" ELSE @]

\* createStore has answered: the entry is set, whatever it held.
StoreAdded(w) ==
  /\ FreeStores(w) # {}
  /\ LET s == Unused(w) IN
       /\ entry' = [entry EXCEPT ![w] = s]
       /\ open' = [open EXCEPT ![w] = @ \cup {s}]
       /\ Monitor(w, s) \/ SubscribeFails(w)
  /\ EntryReplaced(w)
  /\ UNCHANGED <<cleanups, rejoin, failed, crossed, orphan>>

\* stopMonitoring: the EventProcessor stops at once, removeStore awaits the
\* shutdown of the store it found.
BeginStop(w, c) ==
  /\ StopMonitoring(w)
  /\ Awaits(c, [op |-> "stop", ws |-> w, store |-> entry[w]])
  /\ crossed' = IF Reconnecting(w) THEN crossed \cup {w} ELSE crossed
  /\ UNCHANGED <<metadata, entry, open, swap, rejoin, failed, orphan>>

\* removeStore deletes the entry, if it found one before its await.
EntryRemoved(k) ==
  IF k.store = 0 THEN UNCHANGED <<entry, swap>>
  ELSE entry' = [entry EXCEPT ![k.ws] = 0] /\ EntryReplaced(k.ws)

\* mutant: the end of the monitoring is not recorded
StoreRemovedUnrecorded(k) ==
  /\ open' = [open EXCEPT ![k.ws] = @ \ {k.store}]
  /\ EntryRemoved(k)
  /\ failed' = failed \ {k.ws}
  /\ UNCHANGED <<metadata, state, cleanups, rejoin, crossed, orphan>>

\* The store is shut down (or failed to), its entry goes, the call returns.
StoreRemoved(k) ==
  /\ open' = [open EXCEPT ![k.ws] = @ \ {k.store}]
  /\ EntryRemoved(k)
  /\ metadata' = [metadata EXCEPT ![k.ws] = "stopped"]
  /\ failed' = failed \ {k.ws}
  /\ UNCHANGED <<state, cleanups, rejoin, crossed, orphan>>

-----------------------------------------------------------------------------
(* Webhooks: handleWorkspaceWebhook *)

\* A request arrives.  The notifier waits for the answer k of a call, or takes
\* it for lost and tries again.
Arrives(n, c) ==
  /\ n \in notices /\ server = "up" /\ call[c] = Idle
  /\ \/ /\ n.event = "created" /\ MayEnsure(n.ws)
        /\ \/ EnsureKnown(n.ws) /\ UNCHANGED call /\ notices' = notices \ {n}
           \/ EnsureFails(n.ws) /\ UNCHANGED call /\ notices' = (notices \ {n}) \cup Retried(n)
           \/ EnsureCreates(n.ws, c, n) /\ notices' = notices \ {n}
           \/ /\ "lost" \in Faults
              /\ EnsureCreates(n.ws, c, Idle) /\ notices' = (notices \ {n}) \cup Retried(n)
     \/ /\ n.event = "deleted" /\ MayStop(n.ws)
        /\ BeginStop(n.ws, c)
        /\ \/ notices' = notices \ {n}
           \/ "lost" \in Faults /\ notices' = (notices \ {n}) \cup Retried(n)
  /\ UNCHANGED <<stage, server, restarts, work, listing>>

-----------------------------------------------------------------------------
(* WorkspaceReconciler *)

\* The interval, or an operator (manual-reconcile.ts): not while one is running.
Reconcile ==
  /\ server = "up" /\ listing.at = "idle"
  /\ listing' = [at |-> "asked", ids |-> {}]
  /\ UNCHANGED <<authVars, server, restarts, metadata, storeVars, call, work>>

Present == {w \in Workspaces : stage[w] = "present"}

\* The auth worker makes its list; the answer is on its way.
DirectoryAnswers ==
  /\ "stale" \in Faults
  /\ listing.at = "asked"
  /\ listing' = [at |-> "answered", ids |-> Present]
  /\ UNCHANGED <<authVars, server, restarts, metadata, storeVars, call, work>>

\* mutant: workspaces that are gone stay monitored
AddsOnly(ids) == [add |-> ids \ Monitored, remove |-> {}]

\* mutant: a workspace with a store is taken for a monitored one
AddsStoreless(ids) == [add |-> {w \in ids : entry[w] = 0}, remove |-> Monitored \ ids]

\* The two differences that reconcile computes.
Differences(ids) == [add |-> ids \ Monitored, remove |-> Monitored \ ids]

\* reconcile goes on with the list of the directory.
Compare ==
  /\ \/ listing.at = "answered" /\ work' = [work EXCEPT !["reconcile"] = Differences(listing.ids)]
     \/ /\ listing.at = "asked" /\ "stale" \notin Faults
        /\ work' = [work EXCEPT !["reconcile"] = Differences(Present)]
  /\ listing' = [at |-> "working", ids |-> {}]
  /\ UNCHANGED <<authVars, server, restarts, metadata, storeVars, call>>

\* The directory cannot be read: the run ends.
ListFails ==
  /\ "list" \in Faults
  /\ listing.at = "asked"
  /\ listing' = Unlisted
  /\ UNCHANGED <<authVars, server, restarts, metadata, storeVars, call, work>>

Treated(l, w) ==
  work' = [work EXCEPT ![l] = [add |-> @.add \ {w}, remove |-> @.remove \ {w}]]

\* One workspace after the other, the additions first; a failure is noted and
\* the next one treated.
Treat(l, w) ==
  /\ call[l] = Idle
  /\ Treated(l, w)
  /\ \/ /\ w \in work[l].add /\ MayEnsure(w)
        /\ \/ (EnsureKnown(w) \/ EnsureFails(w)) /\ UNCHANGED call
           \/ EnsureCreates(w, l, Idle)
     \/ /\ work[l].add = {} /\ w \in work[l].remove /\ MayStop(w)
        /\ BeginStop(w, l)
  /\ UNCHANGED <<authVars, server, restarts, listing>>

\* finally: running = false.
ReconcileEnds ==
  /\ listing.at = "working"
  /\ work["reconcile"] = NoWork /\ call["reconcile"] = Idle
  /\ listing' = Unlisted
  /\ UNCHANGED <<authVars, server, restarts, metadata, storeVars, call, work>>

-----------------------------------------------------------------------------
(* The ends of the calls *)

EnsureEnds(c) ==
  /\ call[c].op = "ensure"
  /\ StoreAdded(call[c].ws)
  /\ Returns(c)
  /\ UNCHANGED <<authVars, server, restarts, work, listing>>

\* createStore fails: the error goes to the reconciler, or to the notifier as
\* an answer 500 if it still waits for one.
CreateFails(c) ==
  /\ "create" \in Faults
  /\ call[c].op = "ensure"
  /\ Returns(c)
  /\ notices' = IF call[c].of = Idle THEN notices ELSE notices \cup Retried(call[c].of)
  /\ UNCHANGED <<stage, server, restarts, metadata, storeVars, work, listing>>

StopEnds(c) ==
  /\ call[c].op = "stop"
  /\ StoreRemoved(call[c])
  /\ Returns(c)
  /\ UNCHANGED <<authVars, server, restarts, work, listing>>

-----------------------------------------------------------------------------
(* The process: index.ts *)

\* main: the stores of STORE_IDS are added and monitored, those that fail are
\* left out; then the reconciler starts with a first run.
Boot ==
  /\ server = "down"
  /\ server' = "up"
  /\ \E S \in SUBSET Configured :
       /\ "create" \in Faults \/ S = Configured
       /\ entry' = [w \in Workspaces |-> IF w \in S THEN 1 ELSE 0]
       /\ open' = [w \in Workspaces |-> IF w \in S THEN {1} ELSE {}]
       /\ state' = [w \in Workspaces |-> [on |-> IF w \in S THEN 1 ELSE 0, stopping |-> FALSE]]
       /\ metadata' = [w \in Workspaces |-> IF w \in S THEN "monitoring" ELSE "none"]
  /\ listing' = [at |-> "asked", ids |-> {}]
  /\ UNCHANGED <<authVars, restarts, cleanups, reconnection, orphan, call, work>>

\* The signal handler: no more requests, no more runs of the reconciler, every
\* monitored workspace is stopped.
Shutdown ==
  /\ "shutdown" \in Faults
  /\ server = "up" /\ restarts < MaxRestarts
  /\ server' = "stopping"
  /\ work' = [work EXCEPT !["shutdown"] = [add |-> {}, remove |-> Monitored]]
  /\ UNCHANGED <<authVars, restarts, metadata, storeVars, call, listing>>

\* The process ends and its memory is gone.
Exits ==
  /\ server' = "down"
  /\ restarts' = restarts + 1
  /\ metadata' = Each("none") /\ entry' = Each(0) /\ open' = Each({}) /\ state' = Each(NoState)
  /\ cleanups' = Each(0) /\ swap' = Each("none") /\ rejoin' = Each(0)
  /\ failed' = {} /\ crossed' = {} /\ orphan' = Each({})
  /\ call' = NoCalls /\ work' = NoneToDo /\ listing' = Unlisted
  /\ UNCHANGED authVars

\* orchestrator.shutdown is through: stopAll, StoreManager.shutdown, exit.
Exit ==
  /\ server = "stopping"
  /\ work["shutdown"] = NoWork /\ call["shutdown"] = Idle
  /\ Exits

Crash ==
  /\ "crash" \in Faults
  /\ server # "down" /\ restarts < MaxRestarts
  /\ Exits

-----------------------------------------------------------------------------
Reconnects(w) == ReconnectBegins(w) \/ Reconnected(w) \/ ReconnectFails(w) \/ Rejoined(w)

Next ==
  \/ \E w \in Workspaces : Created(w) \/ Deleted(w) \/ FinishStop(w) \/ Reconnects(w)
  \/ \E n \in notices : Lost(n) \/ \E c \in Requests : Arrives(n, c)
  \/ Reconcile \/ DirectoryAnswers \/ Compare \/ ListFails \/ ReconcileEnds
  \/ \E l \in Loops, w \in Workspaces : Treat(l, w)
  \/ \E c \in Callers : EnsureEnds(c) \/ CreateFails(c) \/ StopEnds(c)
  \/ Boot \/ Shutdown \/ Exit \/ Crash

Spec == Init /\ [][Next]_vars

\* Timers fire, the stores, queues and the directory answer in the end; a
\* creation, a subscription and a list that may fail do not fail for ever.
Fairness ==
  /\ WF_vars(Boot \/ Exit)
  /\ WF_vars(Reconcile \/ Compare \/ ReconcileEnds) /\ SF_vars(DirectoryAnswers)
  /\ \A w \in Workspaces :
       /\ WF_vars(FinishStop(w))
       /\ WF_vars(Reconnected(w) \/ ReconnectFails(w) \/ Rejoined(w))
       /\ SF_vars(\E l \in Loops : Treat(l, w))
       /\ SF_vars(\E l \in Loops : Treat(l, w) /\ metadata' # metadata)
  /\ \A c \in Callers : WF_vars(StopEnds(c) \/ EnsureEnds(c) \/ CreateFails(c))
  /\ SF_vars(\E c \in Callers : EnsureEnds(c) /\ metadata' # metadata)

FairSpec == Spec /\ Fairness

-----------------------------------------------------------------------------
(* Properties *)

\* What the metadata says is so: a workspace the orchestrator lists as monitored is
\* heard unless a stop or a reconnection of it is under way, whatever webhooks, retries,
\* failing calls, reconnections and runs of the reconciler led there.  Excepted is one whose
\* reconnection brought no store or no subscription (failed): only a log line tells of it,
\* and it stays listed as monitored (event-processor.ts:2282).  A call that meets a stop
\* ("overlap") may break it too.
MonitoredIsHeard ==
  \A w \in Monitored \ failed : Settling(w) \/ Reconnecting(w) \/ Heard(w)

\* The server follows the auth worker.  A workspace that exists is heard in the end and after
\* every interruption, one that is deleted is silent in the end and whenever a late webhook
\* or a stale list has brought it back: lost webhooks, restarts and reconnections are repaired.
\* Not repaired are two: a reconnection that failed leaves the metadata as it is, and the
\* reconciler compares only that (failed); a callback of the timer is not cancelled by
\* removeStore (store-manager.ts:745), and the handler of its event may subscribe to a store
\* that nothing shuts down (crossed).
FollowsDirectory ==
  \A w \in Workspaces :
    stage[w] # "new" ~>
      \/ stage[w] = "present" /\ (Heard(w) \/ w \in failed)
      \/ stage[w] = "deleted" /\ (~Heard(w) \/ w \in crossed)
=============================================================================

---------------------------- MODULE StoreManager ----------------------------
(***************************************************************************)
(* StoreManager of the server for one store id                             *)
(* (packages/server/src/services/store-manager.ts).                        *)
(*                                                                         *)
(* The map `stores' holds a StoreInfo object for the id.  It follows the   *)
(* network and sync streams of its LiveStore instance, and a timer in the  *)
(* map `reconnectTimeouts' replaces the instance by a new one when the     *)
(* network stays away or the sync makes no progress.                       *)
(*                                                                         *)
(* addStore, removeStore and the callback of the timer await the creation  *)
(* or the shutdown of an instance; an action is what runs between two      *)
(* awaits.  StoreInfo objects, instances and timers are numbers; one that  *)
(* nothing refers to any more is taken again for a new object.             *)
(***************************************************************************)
EXTENDS Integers, FiniteSets

CONSTANTS
  Callers,      \* asynchronous callers of addStore and removeStore
  MaxEntries,   \* bound: StoreInfo objects at the same time
  MaxStores,    \* bound: LiveStore instances at the same time
  MaxTimers,    \* bound: reconnection timers at the same time
  MaxAttempts,  \* maxReconnectAttempts
  Faults        \* what the environment may do, see FaultKinds

FaultKinds == {"network", "stuck", "status", "create", "remove", "shutdown"}

ASSUME StoreBounds ==
  /\ {MaxEntries, MaxStores, MaxTimers, MaxAttempts} \subseteq Nat \ {0}
  /\ Faults \subseteq FaultKinds

VARIABLES
  link,        \* the sync backend can be reached
  open,        \* LiveStore instances that are not shut down
  entry,       \* stores.get(storeId), 0 when there is none
  info,        \* the StoreInfo objects that the map or a callback refers to
  mapped,      \* the timer in reconnectTimeouts, 0 when there is none
  armed,       \* timers that have neither fired nor been cleared
  reconnects,  \* timer callbacks that await the new instance
  call,        \* what each caller awaits
  shuttingDown \* isShuttingDown

timerVars == <<mapped, armed>>
vars == <<link, open, entry, info, timerVars, reconnects, call, shuttingDown>>

Entries == 1..MaxEntries
Stores  == 1..MaxStores
Timers  == 1..MaxTimers

Info == [store: 0..MaxStores,
         status: {"connected", "connecting", "disconnected", "error"},
         net: {"unknown", "up", "down"},                   \* networkStatus
         sync: {"unknown", "synced", "pending", "stuck"},  \* syncStatus; stuckSince is old
         attempts: 0..(MaxAttempts + MaxTimers - 1),       \* reconnectAttempts: the maximum, and
                                   \* one more for every further timer that was armed
         watch: 0..MaxStores,      \* the instance whose network stream networkStatusFiber
                                   \* consumes, 0 when there is no fiber
         syncWatch: 0..MaxStores]  \* the same for syncStateFiber

\* A new entry for the instance s, followed from the start.
NewInfo(s) ==
  [store |-> s, status |-> "connected", net |-> "unknown", sync |-> "unknown",
   attempts |-> 0, watch |-> s, syncWatch |-> s]

Init ==
  /\ link = TRUE
  /\ open = {}
  /\ entry = 0
  /\ info = << >>
  /\ mapped = 0 /\ armed = {} /\ reconnects = {}
  /\ call = [p \in Callers |-> "idle"]
  /\ shuttingDown = FALSE

-----------------------------------------------------------------------------
(* Objects nothing refers to *)

\* The StoreInfo objects referred to when the map holds n and the callbacks rs await.
Referenced(n, rs) == ({n} \ {0}) \cup {r.of : r \in rs}

LiveEntries == Referenced(entry, reconnects)
FreeEntries == Entries \ LiveEntries

FreeStores ==
  Stores \ (open \cup UNION {{info[e].store, info[e].watch, info[e].syncWatch} : e \in LiveEntries})

FreeTimers == Timers \ (armed \cup {mapped} \cup {r.timer : r \in reconnects})

\* Bound: leaked instances have used up the numbers, no reconnection can end.
AtBound == FreeStores = {}

Unused(S) == CHOOSE n \in S : TRUE

TypeOK ==
  /\ link \in BOOLEAN
  /\ open \subseteq Stores
  /\ entry \in 0..MaxEntries
  /\ LiveEntries \subseteq Entries
  /\ info \in [LiveEntries -> Info]
  /\ mapped \in 0..MaxTimers
  /\ armed \subseteq Timers
  /\ reconnects \subseteq [timer: Timers, of: Entries]
  /\ call \in [Callers -> {"idle", "add", "remove"}]
  /\ shuttingDown \in BOOLEAN

SetInfo(e, i) == info' = [info EXCEPT ![e] = i]

Reported == IF link THEN "up" ELSE "down"

Online(i)  == [i EXCEPT !.status = "connected", !.attempts = 0]
Offline(i) == [i EXCEPT !.status = "disconnected"]

-----------------------------------------------------------------------------
(* Monitoring: streams, initial reads, fibers *)

\* The network of the server, and the time that makes pending events stuck ones.
LinkChanges ==
  /\ "network" \in Faults
  /\ link' = ~link
  /\ UNCHANGED <<open, entry, info, timerVars, reconnects, call, shuttingDown>>

SyncStalls ==
  /\ entry # 0 /\ info[entry].sync = "pending"
  /\ SetInfo(entry, [info[entry] EXCEPT !.sync = "stuck"])
  /\ UNCHANGED <<link, open, entry, timerVars, reconnects, call, shuttingDown>>

\* mutant: the network stream is forgotten
FollowSyncOnly(i, s) == [i EXCEPT !.syncWatch = s]

\* setupSyncStatusMonitoring: new fibers for the streams of instance s.
Follow(i, s) == [i EXCEPT !.watch = s, !.syncWatch = s]

\* stopMonitoring: the fibers are interrupted.
Unfollow(i) == [i EXCEPT !.watch = 0, !.syncWatch = 0]

\* A stream event counts for the instance the entry holds now.
Hears(s) == s = info[entry].store /\ s \in open
HearsNetwork == entry # 0 /\ Hears(info[entry].watch)
HearsSync    == entry # 0 /\ Hears(info[entry].syncWatch)

\* mutant: the instance is forgotten and not shut down
NotClosed(s) == open

\* shutdownPromise of the instance s.
Closed(s) == open \ {s}

\* mutant: attempts are not limited
MayAlwaysRetry(i) == TRUE

MayRetry(i) == i.attempts < MaxAttempts

\* mutant: a timer that waits already is not looked for
ScheduleAnother(e, i) ==
  /\ MayRetry(i)
  /\ FreeTimers # {}
  /\ SetInfo(e, [i EXCEPT !.status = "connecting"])
  /\ mapped' = Unused(FreeTimers)
  /\ armed' = armed \cup {mapped'}

\* scheduleReconnect, after the handler has made i of the entry: nothing when a timer
\* is in the map, an error after the last attempt, otherwise a new timer.
Schedule(e, i) ==
  \/ /\ mapped # 0
     /\ SetInfo(e, i)
     /\ UNCHANGED timerVars
  \/ /\ mapped = 0 /\ ~MayRetry(i)
     /\ SetInfo(e, [i EXCEPT !.status = "error"])
     /\ UNCHANGED timerVars
  \/ /\ mapped = 0 /\ MayRetry(i)
     /\ FreeTimers # {}
     /\ SetInfo(e, [i EXCEPT !.status = "connecting"])
     /\ mapped' = Unused(FreeTimers)
     /\ armed' = armed \cup {mapped'}

\* The initial read of the network status, or the first event of the stream, whichever
\* comes first, sets the baseline.
FirstReport ==
  /\ HearsNetwork
  /\ LET i == [info[entry] EXCEPT !.net = Reported] IN
       /\ info[entry].net = "unknown"
       /\ SetInfo(entry, IF ~link /\ i.status = "connected" THEN Offline(i) ELSE i)
  /\ UNCHANGED <<link, open, entry, timerVars, reconnects, call, shuttingDown>>

NetworkRestored ==
  /\ HearsNetwork /\ link
  /\ LET i == [info[entry] EXCEPT !.net = "up"] IN
       /\ info[entry].net = "down"
       /\ SetInfo(entry, IF i.status \in {"disconnected", "connecting"} THEN Online(i) ELSE i)
  /\ UNCHANGED <<link, open, entry, timerVars, reconnects, call, shuttingDown>>

NetworkLost ==
  /\ HearsNetwork /\ ~link
  /\ info[entry].net = "up"
  /\ SetInfo(entry, Offline([info[entry] EXCEPT !.net = "down"]))
  /\ UNCHANGED <<link, open, entry, timerVars, reconnects, call, shuttingDown>>

\* The network stream of the current instance fails: a disconnection, if the entry
\* was connected.
StreamEnds ==
  /\ "status" \in Faults
  /\ HearsNetwork
  /\ LET i == [info[entry] EXCEPT !.watch = 0] IN
       IF i.status = "connected"
       THEN Schedule(entry, Offline([i EXCEPT !.net = "down"]))
       ELSE SetInfo(entry, i) /\ UNCHANGED timerVars
  /\ UNCHANGED <<link, open, entry, reconnects, call, shuttingDown>>

\* handleStuckSyncRecovery
RecoverStuck(e, i) ==
  IF i.sync = "stuck" /\ i.status = "connected"
  THEN Schedule(e, Offline(i))
  ELSE SetInfo(e, i) /\ UNCHANGED timerVars

\* What the initial read or a later event of the sync state says: all pushed, some
\* pending, or pending without progress.
SyncStates(sync) ==
  {"synced"} \cup IF "stuck" \notin Faults THEN {}
                  ELSE {"pending"} \cup ({sync} \cap {"stuck"})

\* handleSyncStateUpdate
SyncUpdate ==
  /\ HearsSync
  /\ \E s \in SyncStates(info[entry].sync) :
       RecoverStuck(entry, [info[entry] EXCEPT !.sync = s])
  /\ UNCHANGED <<link, open, entry, reconnects, call, shuttingDown>>

\* mutant: only a reconnection under way is looked after
OverdueConnecting(i) == i.net = "down" /\ i.status = "connecting"

\* The fallback of runHealthCheck, once the disconnection has lasted for its threshold.
Overdue(i) == i.net = "down" /\ i.status # "error"

\* One round of runHealthCheck; `overdue': the disconnection has outlasted the threshold.
HealthCheck(overdue) ==
  LET i == info[entry]
      j == CASE i.net = "down" /\ i.status = "connected"    -> Offline(i)
             [] i.net = "up"   /\ i.status = "disconnected" -> Online(i)
             [] OTHER                                       -> i IN
  /\ entry # 0 /\ ~shuttingDown
  /\ IF overdue /\ Overdue(j)
     THEN Schedule(entry, j)
     ELSE RecoverStuck(entry, j)
  /\ UNCHANGED <<link, open, entry, reconnects, call, shuttingDown>>

-----------------------------------------------------------------------------
(* Reconnection *)

\* What the callback of the timer looks at.
Recovered(i) == i.net = "up" /\ i.sync # "stuck"

\* The timer fires after the store was removed.
FireLate(t) ==
  /\ t \in armed /\ entry = 0
  /\ armed' = armed \ {t}
  /\ mapped' = 0
  /\ UNCHANGED <<link, open, entry, info, reconnects, call, shuttingDown>>

\* The network is back and the sync is not stuck: no reconnection.
FireRecovered(t) ==
  /\ t \in armed /\ entry # 0 /\ Recovered(info[entry])
  /\ armed' = armed \ {t}
  /\ mapped' = 0
  /\ SetInfo(entry, Online(info[entry]))
  /\ UNCHANGED <<link, open, entry, reconnects, call, shuttingDown>>

\* The instance is shut down to be replaced; the timer stays in the map.
FireReconnect(t) ==
  /\ t \in armed /\ entry # 0 /\ ~Recovered(info[entry])
  /\ armed' = armed \ {t}
  /\ SetInfo(entry, Unfollow([info[entry] EXCEPT !.attempts = @ + 1]))
  /\ open' = Closed(info[entry].store)
  /\ reconnects' = reconnects \cup {[timer |-> t, of |-> entry]}
  /\ UNCHANGED <<link, entry, mapped, call, shuttingDown>>

\* mutant: the status is left as it was
RejoinedQuietly(i, s) == Follow(i, s)

\* The entry of the map is connected again, and follows the instance s.
Rejoined(i, s) == Follow([i EXCEPT !.status = "connected"], s)

\* createStore returns: the entry the callback has read gets the new instance, the
\* entry in the map the status and the monitoring.
Reconnect(r) ==
  LET s == Unused(FreeStores)
      fresh == [info[r.of] EXCEPT !.store = s, !.attempts = 0, !.sync = "unknown",
                                  !.net = "unknown"] IN
  /\ r \in reconnects /\ FreeStores # {}
  /\ reconnects' = reconnects \ {r}
  /\ open' = open \cup {s}
  /\ info' = [e \in Referenced(entry, reconnects') |->
                LET i == IF e = r.of THEN fresh ELSE info[e] IN
                IF e = entry THEN Rejoined(i, s) ELSE i]
  /\ mapped' = 0
  /\ UNCHANGED <<link, entry, armed, call, shuttingDown>>

\* The shutdown or the creation throws: the next attempt, or the end.
ReconnectFails(r) ==
  /\ "create" \in Faults
  /\ r \in reconnects
  /\ reconnects' = reconnects \ {r}
  /\ LET again == /\ entry # 0
                  /\ MayRetry(info[r.of]) /\ MayRetry(info[entry])
         status == IF again THEN "connecting" ELSE "error" IN
       /\ mapped' = IF again THEN r.timer ELSE 0
       /\ armed' = armed \cup ({mapped'} \ {0})
       /\ info' = [e \in Referenced(entry, reconnects') |->
                     IF e = entry THEN [info[e] EXCEPT !.status = status] ELSE info[e]]
  /\ UNCHANGED <<link, open, entry, call, shuttingDown>>

-----------------------------------------------------------------------------
(* addStore, removeStore, shutdown *)

\* addStore, up to the await; a store that is there is returned at once.
AddStore(p) ==
  /\ call[p] = "idle" /\ entry = 0
  /\ call' = [call EXCEPT ![p] = "add"]
  /\ UNCHANGED <<link, open, entry, info, timerVars, reconnects, shuttingDown>>

\* createStore returns: the map gets a new entry, whatever it holds by now.
StoreAdded(p) ==
  LET s == Unused(FreeStores)
      e == Unused(FreeEntries) IN
  /\ call[p] = "add" /\ FreeStores # {} /\ FreeEntries # {}
  /\ call' = [call EXCEPT ![p] = "idle"]
  /\ open' = open \cup {s}
  /\ entry' = e
  /\ info' = [k \in Referenced(e, reconnects) |-> IF k = e THEN NewInfo(s) ELSE info[k]]
  /\ UNCHANGED <<link, timerVars, reconnects, shuttingDown>>

AddFails(p) ==
  /\ "create" \in Faults
  /\ call[p] = "add"
  /\ call' = [call EXCEPT ![p] = "idle"]
  /\ UNCHANGED <<link, open, entry, info, timerVars, reconnects, shuttingDown>>

\* removeStore, up to the await of shutdownPromise.
BeginRemoval(p) ==
  /\ call[p] = "idle" /\ entry # 0
  /\ call' = [call EXCEPT ![p] = "remove"]
  /\ armed' = armed \ {mapped}
  /\ mapped' = 0
  /\ SetInfo(entry, Unfollow(info[entry]))
  /\ open' = Closed(info[entry].store)
  /\ UNCHANGED <<link, entry, reconnects>>

RemoveStore(p) ==
  /\ "remove" \in Faults
  /\ BeginRemoval(p)
  /\ UNCHANGED shuttingDown

\* The instance is shut down, or failed to: the map loses the entry it has by now.
StoreRemoved(p) ==
  /\ call[p] = "remove"
  /\ call' = [call EXCEPT ![p] = "idle"]
  /\ entry' = 0
  /\ info' = [k \in Referenced(0, reconnects) |-> info[k]]
  /\ UNCHANGED <<link, open, timerVars, reconnects, shuttingDown>>

\* shutdown: no more health checks, no timers, every store is removed.
Shutdown(p) ==
  /\ "shutdown" \in Faults /\ ~shuttingDown
  /\ BeginRemoval(p)
  /\ shuttingDown' = TRUE

-----------------------------------------------------------------------------
Streams ==
  \/ FirstReport \/ NetworkRestored \/ NetworkLost \/ StreamEnds \/ SyncUpdate

Reconnection ==
  \/ \E t \in Timers : FireLate(t) \/ FireRecovered(t) \/ FireReconnect(t)
  \/ \E r \in reconnects : Reconnect(r) \/ ReconnectFails(r)
  \/ \E overdue \in BOOLEAN : HealthCheck(overdue)

Membership ==
  \E p \in Callers : \/ AddStore(p)    \/ StoreAdded(p)   \/ AddFails(p)
                     \/ RemoveStore(p) \/ StoreRemoved(p) \/ Shutdown(p)

Next == LinkChanges \/ SyncStalls \/ Streams \/ Reconnection \/ Membership

Spec == Init /\ [][Next]_vars

(***************************************************************************)
(* Fairness: streams deliver the state of the network, timers fire, health *)
(* checks run and find a lasting disconnection overdue, and the creation   *)
(* or shutdown of an instance returns or throws.                           *)
(***************************************************************************)
Fairness ==
  /\ WF_vars(FirstReport) /\ WF_vars(NetworkRestored) /\ WF_vars(NetworkLost)
  /\ WF_vars(HealthCheck(TRUE))
  /\ \A t \in Timers : WF_vars(FireLate(t) \/ FireRecovered(t) \/ FireReconnect(t))
  /\ WF_vars(\E r \in reconnects : Reconnect(r) \/ ReconnectFails(r))
  /\ \A p \in Callers : /\ WF_vars(StoreAdded(p) \/ AddFails(p))
                        /\ WF_vars(StoreRemoved(p))

FairSpec == Spec /\ Fairness

-----------------------------------------------------------------------------
(* Properties *)

\* A store has at most one reconnection, waiting for its timer or under way ("Keep
\* entry in reconnectTimeouts during async work to prevent duplicate scheduling").
SingleReconnect == Cardinality(armed) + Cardinality(reconnects) <= 1

\* Unless it is being replaced or removed, a store whose status is connected can be
\* used and its network stream is followed, so that it does not "remain `connected'
\* forever" (consumeNetworkStatusChanges).
Settled == entry # 0 /\ reconnects = {} /\ \A p \in Callers : call[p] # "remove"

ConnectedIsWatched ==
  (Settled /\ info[entry].status = "connected")
    => info[entry].store \in open /\ info[entry].watch = info[entry].store

\* An instance that is not shut down is the one the map holds: none leaks (addStore
\* returns the existing instance, removeStore and reconnections shut the old one down).
NoLeak == open \subseteq {info[e].store : e \in {entry} \ {0}}

\* While the status is connecting there is a timer or a callback that will change it,
\* unless the store is being removed (scheduleReconnect, and its failure path).
ConnectingIsBacked ==
  (entry # 0 /\ info[entry].status = "connecting")
    => armed # {} \/ reconnects # {} \/ \E p \in Callers : call[p] = "remove"

\* A disconnection ends, by the network, the fallback of the health check or the last
\* attempt, also when the store is removed and added again meanwhile.
DisconnectEnds ==
  (entry # 0 /\ info[entry].status \in {"disconnected", "connecting"})
    ~> (entry = 0 \/ info[entry].status \in {"connected", "error"} \/ shuttingDown \/ AtBound)

\* Once the network stays, the store is connected again ("No manual restart required
\* to recover from disconnects").
Recovers ==
  (<>[](link /\ entry # 0)) => []<>(entry # 0 /\ info[entry].status = "connected")
=============================================================================

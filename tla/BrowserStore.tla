---------------------------- MODULE BrowserStore ----------------------------
(***************************************************************************)
(* The LiveStore of one workspace in the tabs of one browser: how a tab    *)
(* boots it, restarts it and repairs it.                                   *)
(*                                                                         *)
(*  - packages/web/src/Root.tsx: LiveStoreWrapper with requestRestart, the *)
(*    effects on the token and on a requested repair, and                  *)
(*    LiveStoreRestartCoordinator, which shuts the mounted store down;     *)
(*  - hooks/useLiveStoreRepair.ts: the request for a repair and the        *)
(*    suggestion of one, records in localStorage that all tabs share;      *)
(*  - components/utils/LiveStoreBootBoundary.tsx, LiveStoreHealthMonitor,  *)
(*    layout/LiveStoreStatus.tsx: who asks for restarts and repairs.       *)
(*                                                                         *)
(* A restart mounts the provider again under a new key; everything below   *)
(* the provider (coordinator, monitor) is new then, everything above       *)
(* (pending, hasStore) lives on.  Sessions models where tokens come from;  *)
(* here the newest one is a number.                                        *)
(***************************************************************************)
EXTENDS Integers, FiniteSets

CONSTANTS
  Tabs,
  MaxTokens,    \* bound: access tokens
  MaxRequests,  \* bound: repairs the user confirms
  Threshold,    \* REPAIR_SUGGESTION_THRESHOLD
  Faults        \* what the environment may do, see FaultKinds

\* A boot fails, an error reaches the boot boundary, the network or the sync are
\* stale, no token can be had, a tab goes away with its store open (or any time:
\* abandon), records in localStorage grow too old.
FaultKinds == {"boot", "throw", "health", "auth", "leave", "abandon", "expire"}

ASSUME BrowserAssumption ==
  /\ MaxTokens \in Nat \ {0} /\ MaxRequests \in Nat /\ Threshold \in Nat \ {0}
  /\ Faults \subseteq FaultKinds

VARIABLES
  token,      \* the newest access token
  record,     \* the repair record: its status and the number of the request
  asked,      \* history: requests for a repair
  suggested,  \* is a repair suggested
  tab,        \* LiveStoreWrapper and what it mounts, for each tab
  owed        \* history: tabs whose request has not led to a reset

vars == <<token, record, asked, suggested, tab, owed>>

NoToken  == 0
NoRepair == [status |-> "none", id |-> 0]

\* page: the tab is elsewhere, waits for its first token, boots the store, shows
\*   it, or shows the prompt of the boot boundary
\* given: the token the provider was mounted with
\* closing: the coordinator awaits the shutdown
\* reset: the request shouldResetPersistence was computed from, 0 if there was none
\* consume: the effect that marks the request as attempted is due
\* stalls: restarts recorded by the mounted monitor
\* dialog: LiveStoreStatus asks whether to repair (isConfirmOpen)
\* lost: history: a restart asked for while no coordinator was mounted, during the
\*   first boot (early) or later (late)
Pages == {"away", "preparing", "booting", "up", "failed"}
Tab == [page: Pages, payload: 0..MaxTokens, given: 0..MaxTokens,
        hasStore: BOOLEAN, pending: BOOLEAN, restarting: BOOLEAN, closing: BOOLEAN,
        reset: 0..MaxRequests, consume: BOOLEAN, stalls: 0..Threshold, dialog: BOOLEAN,
        lost: {"none", "early", "late"}]

Away == [page |-> "away", payload |-> NoToken, given |-> NoToken,
         hasStore |-> FALSE, pending |-> FALSE, restarting |-> FALSE, closing |-> FALSE,
         reset |-> 0, consume |-> FALSE, stalls |-> 0, dialog |-> FALSE, lost |-> "none"]

\* peekRepairRequestSync: the request to carry out, if there is one.
Requested == IF record.status = "requested" THEN record.id ELSE 0

Init ==
  /\ token = 1 /\ record = NoRepair /\ asked = 0 /\ suggested = FALSE
  /\ tab = [t \in Tabs |-> Away]
  /\ owed = {}

----------------------------------------------------------------------------
\* What a request for a restart does to a tab.

\* requestRestart without force: only the coordinator of a mounted store hears it.  The
\* screen of a restart stands in the place of everything else, an open dialog too.
RequestRestart(b) ==
  CASE ~b.hasStore ->
         IF b.page = "booting" THEN [b EXCEPT !.lost = "early"] ELSE b
    [] b.hasStore /\ b.pending -> b
    [] b.hasStore /\ ~b.pending ->
         [b EXCEPT !.pending = TRUE, !.restarting = TRUE, !.closing = (b.page = "up"),
                   !.dialog = FALSE, !.lost = IF b.page = "up" THEN @ ELSE "late"]

\* mutant: the request is not read again when the store is mounted again.
MountUnread(b, wanted) ==
  [b EXCEPT !.page = "booting", !.given = b.payload, !.closing = FALSE,
            !.stalls = 0, !.lost = "none"]

\* The provider gets a new key.  The effect that consumes the request depends on
\* whether there is one: it does not run if there was one at the last mount.
Mount(b, wanted) ==
  [b EXCEPT !.page = "booting", !.given = b.payload, !.closing = FALSE,
            !.reset = wanted, !.consume = (wanted # 0 /\ b.reset = 0),
            !.stalls = 0, !.lost = "none"]

\* requestRestart with force, from the boot boundary.
ForceRestart(b, wanted) == IF b.hasStore THEN RequestRestart(b) ELSE Mount(b, wanted)

\* The payload changes: the first one lets the provider mount, a later one asks for
\* a restart.
Payload(b, p) ==
  IF b.page = "preparing"
  THEN [b EXCEPT !.payload = p, !.given = p, !.page = "booting"]
  ELSE RequestRestart([b EXCEPT !.payload = p])

----------------------------------------------------------------------------
\* The life of a tab.

Open(t) ==
  /\ tab[t].page = "away"
  /\ tab' = [tab EXCEPT ![t] = [Away EXCEPT !.page = "preparing", !.reset = Requested,
                                            !.consume = (Requested # 0)]]
  /\ UNCHANGED <<token, record, asked, suggested, owed>>

\* The page is closed or reloaded, or shows another workspace.
Leave(t) ==
  /\ tab[t].page # "away"
  /\ \/ "abandon" \in Faults
     \/ "leave" \in Faults /\ tab[t].page \in {"up", "failed"}
  /\ tab' = [tab EXCEPT ![t] = Away]
  /\ owed' = owed \ {t}
  /\ UNCHANGED <<token, record, asked, suggested>>

Refresh ==
  /\ token < MaxTokens
  /\ token' = token + 1
  /\ UNCHANGED <<record, asked, suggested, tab, owed>>

PayloadArrives(t) ==
  /\ tab[t].page # "away" /\ tab[t].payload # token
  /\ tab' = [tab EXCEPT ![t] = Payload(@, token)]
  /\ UNCHANGED <<token, record, asked, suggested, owed>>

PayloadFails(t) ==
  /\ \/ tab[t].page = "preparing"
     \/ "auth" \in Faults /\ tab[t].page # "away" /\ tab[t].payload # NoToken
  /\ tab' = [tab EXCEPT ![t] = Payload(@, NoToken)]
  /\ UNCHANGED <<token, record, asked, suggested, owed>>

\* The effect of the mount: consumeRepairRequestSync.
Consume(t) ==
  /\ tab[t].consume
  /\ tab' = [tab EXCEPT ![t].consume = FALSE]
  /\ record' = IF record.status = "requested"
               THEN [record EXCEPT !.status = "attempted"] ELSE record
  /\ UNCHANGED <<token, asked, suggested, owed>>

Done(t) == IF tab[t].reset # 0 THEN {} ELSE owed

\* handleStoreReady of the coordinator that was mounted with the store.
BootEnds(t) ==
  /\ tab[t].page = "booting" /\ ~tab[t].consume
  /\ tab' = [tab EXCEPT ![t].page = "up", ![t].hasStore = TRUE]
  /\ owed' = Done(t)
  /\ UNCHANGED <<token, record, asked, suggested>>

BootFails(t) ==
  /\ "boot" \in Faults
  /\ tab[t].page = "booting" /\ ~tab[t].consume
  /\ tab' = [tab EXCEPT ![t].page = "failed", ![t].given = NoToken]
  /\ owed' = Done(t)
  /\ UNCHANGED <<token, record, asked, suggested>>

\* An error reaches the boundary: the coordinator goes, its shutdown is not active.
Throws(t) ==
  /\ "throw" \in Faults
  /\ tab[t].page = "up"
  /\ tab' = [tab EXCEPT ![t].page = "failed", ![t].closing = FALSE,
                        ![t].given = NoToken, ![t].stalls = 0, ![t].dialog = FALSE,
                        ![t].lost = IF tab[t].pending THEN "late" ELSE @]
  /\ UNCHANGED <<token, record, asked, suggested, owed>>

\* mutant: the flag of the restarting screen is not taken back.
ShutdownForgets(t) ==
  /\ tab[t].closing
  /\ tab' = [tab EXCEPT ![t] = Mount([@ EXCEPT !.pending = FALSE], Requested)]
  /\ UNCHANGED <<token, record, asked, suggested, owed>>

\* runShutdown ends, after two seconds at the latest: handleShutdownComplete.
ShutdownEnds(t) ==
  /\ tab[t].closing
  /\ tab' = [tab EXCEPT ![t] = Mount([@ EXCEPT !.pending = FALSE, !.restarting = FALSE],
                                   Requested)]
  /\ UNCHANGED <<token, record, asked, suggested, owed>>

----------------------------------------------------------------------------
\* Who asks for restarts and repairs.

\* mutant: the history is not cut.
CountsAll(stalls, recorded) == stalls + recorded

\* recordRestart: entries beyond the threshold change nothing.
Counts(stalls, recorded) == IF stalls < Threshold THEN stalls + recorded ELSE stalls

\* A check of LiveStoreHealthMonitor: offline (not recorded), sync stalled or status
\* stale.  Its cooldown is longer than a shutdown takes.
HealthRestart(t) ==
  /\ "health" \in Faults
  /\ tab[t].page = "up" /\ tab[t].payload # NoToken
  /\ tab[t].closing => tab[t].stalls = 0
  /\ \E recorded \in {0, 1} :
       LET stalls == Counts(tab[t].stalls, recorded)
       IN  /\ tab' = [tab EXCEPT ![t] = RequestRestart([@ EXCEPT !.stalls = stalls])]
           /\ suggested' = (suggested \/ (recorded = 1 /\ stalls = Threshold))
  /\ UNCHANGED <<token, record, asked, owed>>

RepairRecorded(t) ==
  /\ asked < MaxRequests
  /\ asked' = asked + 1
  /\ record' = [status |-> "requested", id |-> asked + 1]
  /\ suggested' = FALSE
  /\ owed' = owed \cup {t}

\* The button of LiveStoreStatus, there while a repair is suggested, opens a dialog, which
\* stays when the suggestion goes.
OpenDialog(t) ==
  /\ tab[t].page = "up" /\ ~tab[t].restarting /\ suggested
  /\ tab' = [tab EXCEPT ![t].dialog = TRUE]
  /\ UNCHANGED <<token, record, asked, suggested, owed>>

CloseDialog(t) ==
  /\ tab[t].dialog
  /\ tab' = [tab EXCEPT ![t].dialog = FALSE]
  /\ UNCHANGED <<token, record, asked, suggested, owed>>

\* The user confirms.
AskRepair(t) ==
  /\ tab[t].dialog
  /\ RepairRecorded(t)
  /\ tab' = [tab EXCEPT ![t] = RequestRestart(@)]
  /\ UNCHANGED token

\* The prompt of the boot boundary: repair, or try again.
AskRepairAtBoot(t) ==
  /\ tab[t].page = "failed"
  /\ RepairRecorded(t)
  /\ tab' = [tab EXCEPT ![t] = ForceRestart(@, asked + 1)]
  /\ UNCHANGED token

Retry(t) ==
  /\ tab[t].page = "failed"
  /\ tab' = [tab EXCEPT ![t] = ForceRestart(@, Requested)]
  /\ UNCHANGED <<token, record, asked, suggested, owed>>

\* Requests, attempts and suggestions are removed by a read when they are too old.
RecordExpires ==
  /\ "expire" \in Faults
  /\ record # NoRepair
  /\ record' = NoRepair
  /\ owed' = IF Requested # 0 THEN {} ELSE owed
  /\ UNCHANGED <<token, asked, suggested, tab>>

SuggestionExpires ==
  /\ "expire" \in Faults
  /\ suggested
  /\ suggested' = FALSE
  /\ UNCHANGED <<token, record, asked, tab, owed>>

Next ==
  \/ Refresh \/ RecordExpires \/ SuggestionExpires
  \/ \E t \in Tabs :
       \/ Open(t) \/ Leave(t) \/ PayloadArrives(t) \/ PayloadFails(t)
       \/ Consume(t) \/ BootEnds(t) \/ BootFails(t) \/ Throws(t) \/ ShutdownEnds(t)
       \/ HealthRestart(t) \/ Retry(t)
       \/ OpenDialog(t) \/ CloseDialog(t) \/ AskRepair(t) \/ AskRepairAtBoot(t)

Spec == Init /\ [][Next]_vars

\* Effects run, the first payload comes with a token or an error, a boot ends
\* somehow, a shutdown is given two seconds.
FirstPayload(t) == tab[t].page = "preparing" /\ (PayloadArrives(t) \/ PayloadFails(t))

Fairness ==
  \A t \in Tabs :
    /\ WF_vars(FirstPayload(t))
    /\ WF_vars(Consume(t)) /\ WF_vars(BootEnds(t) \/ BootFails(t))
    /\ WF_vars(ShutdownEnds(t))

FairSpec == Spec /\ Fairness

----------------------------------------------------------------------------
TypeOK ==
  /\ token \in 1..MaxTokens
  /\ record \in [status: {"none", "requested", "attempted"}, id: 0..MaxRequests]
  /\ asked \in 0..MaxRequests /\ suggested \in BOOLEAN
  /\ tab \in [Tabs -> Tab]
  /\ owed \subseteq Tabs

\* A tab is on its way to another store: it shows the screen of a restart, or a store
\* that was mounted with an older token than the one of the payload; and the request for
\* the restart was not lost.
OnItsWay(t) ==
  \/ tab[t].restarting /\ tab[t].lost # "late"
  \/ tab[t].page = "up" /\ tab[t].given # tab[t].payload /\ tab[t].lost = "none"

\* No tab stays on its way: the screen "Restarting LiveStore" goes, and a store that is
\* shown gets the newest token, whoever asks for restarts meanwhile (Root.tsx,
\* LiveStoreRestartCoordinator and the effect on the token).
RestartEnds == \A t \in Tabs : []<>~OnItsWay(t)

\* A restart that was asked for is heard: while one is pending the coordinator awaits the
\* shutdown, unless none was mounted when it was asked for (requestRestart).
PendingIsHeard == \A t \in Tabs : tab[t].pending => tab[t].closing \/ tab[t].lost = "late"

\* A repair the user confirms is carried out by a boot that resets the local data, in this
\* tab or in another one, although all tabs read and mark one record (useLiveStoreRepair.ts),
\* except one that no coordinator was mounted to hear (lost is "late").  Those are all that
\* are confirmed at the prompt of the boot boundary once a store of the tab was ready
\* (Root.tsx:194), although docs/context-library/CONVENTIONS.md:100 promises the repair
\* there; only a reload of the page helps.
RepairRuns ==
  \A t \in Tabs : t \in owed ~> (t \notin owed \/ tab[t].lost = "late")

\* A confirmed repair resets the local data once; to do it again takes another
\* confirmation (docs/context-library/CONVENTIONS.md).
ResetsOnce ==
  [][\A t \in Tabs :
       tab[t].page = "up" /\ tab'[t].page = "booting" /\ tab'[t].reset # 0
         => tab'[t].reset # tab[t].reset]_vars
=============================================================================

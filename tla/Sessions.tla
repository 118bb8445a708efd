------------------------------ MODULE Sessions ------------------------------
(***************************************************************************)
(* The session of one user in the tabs of one browser, and how the sync    *)
(* worker admits their connections to a workspace.                         *)
(*                                                                         *)
(*  - packages/web/src/utils/auth.ts, contexts/AuthContext.tsx and         *)
(*    hooks/useSyncPayload.ts: the tokens in localStorage, the lock around *)
(*    a refresh, the storage events between tabs, the token of the sync    *)
(*    payload;                                                             *)
(*  - packages/auth-worker/src/handlers/auth.ts: tokens are stateless and  *)
(*    carry the claims and their version at the time they are made;        *)
(*  - UserStore.ts persistUser: a change of membership raises the version  *)
(*    and then writes it to a KV namespace;                                *)
(*  - packages/worker/functions/_worker.ts: a connection is refused when   *)
(*    the token's version is below the one in KV, which is cached.         *)
(*                                                                         *)
(* The claims are those on one workspace.  A token is the version of its   *)
(* claims; an access token and its refresh token are stored and removed    *)
(* together.  Tokens past the grace period, the user info, the rooms of    *)
(* the interface and the analytics are left out.                           *)
(***************************************************************************)
EXTENDS Integers, FiniteSets

CONSTANTS
  Tabs,
  MaxVersion,  \* bound: changes of the user's memberships
  MaxCalls,    \* bound: calls under way at the same time
  MaxWatched,  \* bound: open tabs while memberships change and connections open
  Faults       \* what the environment may do, see FaultKinds

\* A request fails, a user logs out, a tab is closed, a read from KV fails.
FaultKinds == {"fail", "logout", "close", "unread"}

Free == "free"

ASSUME SessionAssumption ==
  /\ Free \notin Tabs /\ MaxVersion \in Nat /\ MaxCalls \in Nat /\ MaxWatched \in Nat
  /\ Faults \subseteq FaultKinds

VARIABLES
  version,   \* workspaceClaimsVersion of the user's record
  granting,  \* versions whose claims hold the workspace
  kv,        \* the version in the KV namespace
  puts,      \* writes to KV on their way, in no order; a failed one stays there
  cached,    \* workspaceVersionCache: empty, or the one entry that has not expired
  stored,    \* localStorage: the tokens
  lock,      \* localStorage: owner of the refresh lock, Free when expired or missing
  shown,     \* AuthContext of each tab: "in" with tokens, "out", or the tab is "closed"
  events,    \* tabs with a storage event to handle
  payload,   \* the version of the sync payload's token
  online,    \* tabs with a sync connection
  calls,     \* refreshes and logouts under way
  ended      \* history: a request failed or a user logged out since the last login

claims  == <<version, granting, kv, puts>>
browser == <<stored, lock, shown, events>>
link    == <<payload, online>>
vars == <<claims, cached, browser, link, calls, ended>>

None     == -1
Versions == 0..MaxVersion
NoTokens == [ver |-> None, fresh |-> FALSE]
Tokens   == [ver: Versions, fresh: BOOLEAN]

\* "timer" stands for refreshToken (the timer, a tab that becomes visible),
\* "payload" for updateSyncPayload.  A call waits for the lock at first ("lock"),
\* polls the storage ("poll"), waits for the lock again ("again"), for the auth
\* worker ("fetch") or for its answer ("got"); a logout waits for "bye".
Kinds == {"timer", "payload", "logout"}
Call(t, k, at, v) == [tab |-> t, kind |-> k, at |-> at, ver |-> v]
Calls == [tab: Tabs, kind: Kinds, at: {"lock", "poll", "again", "fetch", "got", "bye"},
          ver: Versions \cup {None}]
Waits == {"lock", "poll", "again"}

Calling(t, k) == \E c \in calls : c.tab = t /\ c.kind = k
Open          == {t \in Tabs : shown[t] # "closed"}
LockFree(t)   == lock \in {Free, t}
Watched       == Cardinality(Open) <= MaxWatched

Init ==
  /\ version = 0 /\ granting = {0} /\ kv = 0 /\ puts = {} /\ cached = {}
  /\ stored = [ver |-> 0, fresh |-> TRUE] /\ lock = Free
  /\ shown = [t \in Tabs |-> "in"] /\ events = {}
  /\ payload = [t \in Tabs |-> None] /\ online = {}
  /\ calls = {} /\ ended = FALSE

----------------------------------------------------------------------------
\* The auth worker and the sync worker.

\* A membership changes: the record has the next version, the write to KV follows.
Bump ==
  /\ version < MaxVersion /\ Watched
  /\ version' = version + 1
  /\ \E g \in {granting, granting \cup {version + 1}} : granting' = g
  /\ puts' = puts \cup {version + 1}
  /\ UNCHANGED <<kv, cached, browser, link, calls, ended>>

PutLands(v) ==
  /\ puts' = puts \ {v} /\ kv' = v
  /\ UNCHANGED <<version, granting, cached, browser, link, calls, ended>>

Latest == IF cached # {} THEN cached
          ELSE {kv} \cup (IF "unread" \in Faults THEN {None} ELSE {})

\* mutant: the sync worker only looks at the claims.
AdmitsAnyVersion(v, latest) == v \in granting

\* validateSyncPayload: fresh claims that hold the workspace.
Admits(v, latest) == (latest = None \/ v >= latest) /\ v \in granting

Connect(t) ==
  /\ shown[t] = "in" /\ payload[t] # None /\ t \notin online /\ Watched
  /\ \E latest \in Latest :
       /\ cached' = {latest}
       /\ online' = IF Admits(payload[t], latest) THEN online \cup {t} ELSE online
  /\ UNCHANGED <<claims, browser, payload, calls, ended>>

Drop(t) ==
  /\ t \in online
  /\ online' = online \ {t}
  /\ UNCHANGED <<claims, cached, browser, payload, calls, ended>>

CacheExpires ==
  /\ cached # {} /\ cached' = {}
  /\ UNCHANGED <<claims, browser, link, calls, ended>>

----------------------------------------------------------------------------
\* What a tab shows.

\* The tab has tokens; its sync payload follows in a call of its own.
Enters(t) == shown' = [shown EXCEPT ![t] = "in"]

\* mutant: the store stays when the tokens go.
LeavesConnected(t, to) ==
  /\ shown' = [shown EXCEPT ![t] = to]
  /\ payload' = [payload EXCEPT ![t] = None]
  /\ UNCHANGED online

\* The tab has none: the payload loses its token and the store is taken down.
Leaves(t, to) ==
  /\ shown' = [shown EXCEPT ![t] = to]
  /\ payload' = [payload EXCEPT ![t] = None]
  /\ online' = online \ {t}

\* The other tabs hear of a change to the stored tokens.
Tell(t) == events' = events \cup (Open \ {t})

\* refreshAccessToken returns null: the storage is empty, logout() clears what is
\* left of it and the tab shows nothing.
ReturnNull(t) == Leaves(t, "out") /\ lock' = Free /\ UNCHANGED <<stored, events, ended>>

\* It returns tokens: a "payload" call passes them to the sync payload.
ReturnTokens(c, v) ==
  /\ Enters(c.tab)
  /\ payload' = IF c.kind = "payload" THEN [payload EXCEPT ![c.tab] = v] ELSE payload
  /\ UNCHANGED online

\* clearStoredAuth, and the tab's own state after it.
ClearAuth(t) ==
  /\ stored' = NoTokens /\ lock' = Free
  /\ IF stored = NoTokens THEN UNCHANGED events ELSE Tell(t)
  /\ Leaves(t, "out")
  /\ ended' = TRUE

\* mutant: the handler of the storage event only treats tokens that were set.
HearLogin(t) ==
  /\ t \in events
  /\ events' = events \ {t}
  /\ IF stored = NoTokens THEN UNCHANGED shown ELSE Enters(t)
  /\ UNCHANGED <<claims, cached, stored, lock, link, calls, ended>>

\* handleStorageChange: the tab reads the storage again.
Hear(t) ==
  /\ t \in events
  /\ events' = events \ {t}
  /\ IF stored = NoTokens THEN Leaves(t, "out") ELSE Enters(t) /\ UNCHANGED link
  /\ UNCHANGED <<claims, cached, stored, lock, calls, ended>>

----------------------------------------------------------------------------
\* refreshAccessToken.

\* Moves call c to a new place, or ends it.
Goes(c, at) == calls' = (calls \ {c}) \cup {[c EXCEPT !.at = at]}
Ends(c)     == calls' = calls \ {c}

\* The lock is taken and the request sent.
Sends(c) == /\ lock' = c.tab /\ Goes(c, "fetch")
            /\ UNCHANGED <<stored, shown, events, link, ended>>

Waiting(c, at) == Goes(c, at) /\ UNCHANGED <<browser, link, ended>>

Starts(t, k) ==
  /\ shown[t] = "in" /\ ~Calling(t, k)
  /\ LET c == Call(t, k, "lock", None) IN
     \/ stored = NoTokens /\ ReturnNull(t) /\ UNCHANGED calls
     \/ /\ stored.fresh /\ k = "payload"
        /\ ReturnTokens(c, stored.ver)
        /\ UNCHANGED <<stored, lock, events, calls, ended>>
     \/ /\ stored # NoTokens /\ ~(stored.fresh /\ k = "payload")
        /\ Cardinality(calls) < MaxCalls
        /\ IF LockFree(t) THEN Sends(c) ELSE Waiting(c, "lock")
  /\ UNCHANGED <<claims, cached>>

StartTimer(t)   == Starts(t, "timer")
StartPayload(t) == payload[t] = None /\ Starts(t, "payload")

\* The wait for the lock ends, in time or after four seconds; only a call that
\* has waited longer reads the tokens again.
TakeLock(c) ==
  /\ c.at \in {"lock", "again"} /\ LockFree(c.tab)
  /\ IF c.at = "again" /\ stored = NoTokens
       THEN Ends(c) /\ ReturnNull(c.tab)
       ELSE Sends(c)
  /\ UNCHANGED <<claims, cached>>

\* mutant: a call that does not get the lock in time returns null, and the tab logs out.
GiveUpForGood(c) ==
  /\ c.at \in {"lock", "again"} /\ ~LockFree(c.tab)
  /\ Ends(c) /\ stored' = NoTokens /\ lock' = Free /\ Tell(c.tab) /\ Leaves(c.tab, "out")
  /\ UNCHANGED <<claims, cached, ended>>

GiveUp(c) ==
  /\ c.at \in {"lock", "again"} /\ ~LockFree(c.tab)
  /\ Waiting(c, "poll")
  /\ UNCHANGED <<claims, cached>>

Poll(c) ==
  /\ c.at = "poll"
  /\ CASE stored = NoTokens -> Ends(c) /\ ReturnNull(c.tab)
       [] stored.fresh      -> /\ Ends(c) /\ ReturnTokens(c, stored.ver)
                               /\ UNCHANGED <<stored, lock, events, ended>>
       [] OTHER             -> IF LockFree(c.tab) THEN Sends(c) ELSE Waiting(c, "again")
  /\ UNCHANGED <<claims, cached>>

\* handleRefresh: the claims and their version are read together.
Serve(c) ==
  /\ c.at = "fetch"
  /\ calls' = (calls \ {c}) \cup {[c EXCEPT !.at = "got", !.ver = version]}
  /\ UNCHANGED <<claims, cached, browser, link, ended>>

StoreTokens(c) ==
  /\ c.at = "got"
  /\ Ends(c)
  /\ stored' = [ver |-> c.ver, fresh |-> TRUE]
  /\ lock' = IF lock = c.tab THEN Free ELSE lock
  /\ Tell(c.tab)
  /\ ReturnTokens(c, c.ver)
  /\ UNCHANGED <<claims, cached, ended>>

\* The request or its answer fails: every tab loses its tokens.
RequestFails(c) ==
  /\ "fail" \in Faults
  /\ c.at \in {"fetch", "got"}
  /\ Ends(c) /\ ClearAuth(c.tab)
  /\ UNCHANGED <<claims, cached>>

\* mutant: removeExpiredRefreshLock is not called.
NeverExpires == FALSE /\ UNCHANGED vars

\* The lock's five seconds end, whether or not its owner is done.
LockExpires ==
  /\ lock # Free /\ lock' = Free
  /\ UNCHANGED <<claims, cached, stored, shown, events, link, calls, ended>>

\* The access token comes within two minutes of its end.  A wait for the lock is
\* short against the thirteen minutes before that.
Age ==
  /\ stored.fresh /\ ~\E c \in calls : c.at \in Waits
  /\ stored' = [stored EXCEPT !.fresh = FALSE]
  /\ UNCHANGED <<claims, cached, lock, shown, events, link, calls, ended>>

----------------------------------------------------------------------------
\* The user.

Logout(t) ==
  /\ "logout" \in Faults
  /\ shown[t] = "in" /\ ~Calling(t, "logout")
  /\ IF stored = NoTokens
       THEN ClearAuth(t) /\ UNCHANGED calls
       ELSE /\ Cardinality(calls) < MaxCalls
            /\ calls' = calls \cup {Call(t, "logout", "bye", None)}
            /\ UNCHANGED <<browser, link, ended>>
  /\ UNCHANGED <<claims, cached>>

\* The answer to the logout request, or its failure: both clear the storage.
Bye(c) ==
  /\ c.at = "bye"
  /\ Ends(c) /\ ClearAuth(c.tab)
  /\ UNCHANGED <<claims, cached>>

Login(t) ==
  /\ shown[t] = "out"
  /\ stored' = [ver |-> version, fresh |-> TRUE]
  /\ Tell(t) /\ Enters(t)
  /\ ended' = FALSE
  /\ UNCHANGED <<claims, cached, lock, link, calls>>

\* A closed tab ends its calls; the lock they hold stays in the storage.
Close(t) ==
  /\ "close" \in Faults
  /\ shown[t] # "closed"
  /\ Leaves(t, "closed")
  /\ events' = events \ {t}
  /\ calls' = {c \in calls : c.tab # t}
  /\ UNCHANGED <<claims, cached, stored, lock, ended>>

----------------------------------------------------------------------------

CallStep(c) == TakeLock(c) \/ GiveUp(c) \/ Poll(c) \/ Serve(c) \/ StoreTokens(c) \/ Bye(c)

Next ==
  \/ Bump \/ (\E v \in puts : PutLands(v)) \/ CacheExpires
  \/ LockExpires \/ Age
  \/ \E t \in Tabs : \/ Connect(t) \/ Drop(t) \/ Hear(t) \/ StartTimer(t) \/ StartPayload(t)
                     \/ Logout(t) \/ Login(t) \/ Close(t)
  \/ \E c \in calls : CallStep(c) \/ RequestFails(c)

Spec == Init /\ [][Next]_vars

\* Timers, polls and storage events come, and the browser ends every request.
\* Nothing is assumed of the user, of connections or of the writes to KV.
Fairness ==
  /\ WF_vars(LockExpires)
  /\ \A t \in Tabs : WF_vars(Hear(t)) /\ WF_vars(StartPayload(t))
  /\ \A t \in Tabs, k \in Kinds : WF_vars(\E c \in calls : c.tab = t /\ c.kind = k /\ CallStep(c))

FairSpec == Spec /\ Fairness

----------------------------------------------------------------------------
\* Type correctness: the shape of tokens, calls and tabs; a logout is the only
\* call that waits for "bye", and a closed tab has no call, event or connection.
TypeOK ==
  /\ version \in Versions /\ granting \subseteq 0..version
  /\ kv \in 0..version /\ puts \subseteq 1..version
  /\ Cardinality(cached) <= 1 /\ cached \subseteq Versions \cup {None}
  /\ stored \in Tokens \cup {NoTokens} /\ lock \in Tabs \cup {Free}
  /\ shown \in [Tabs -> {"in", "out", "closed"}]
  /\ payload \in [Tabs -> Versions \cup {None}]
  /\ calls \subseteq Calls /\ ended \in BOOLEAN
  /\ online \subseteq {t \in Open : payload[t] # None}
  /\ events \subseteq Open
  /\ \A c \in calls : c.tab \in Open /\ (c.kind = "logout" <=> c.at = "bye")

\* A user who has lost the workspace cannot open a connection to it any more once
\* the new version is in KV and the sync worker's cache of the old one has expired,
\* whatever token a tab still holds (persistUser, ensureWorkspaceClaimsVersionFresh).
RemovedIsRefused ==
  [][(version \notin granting /\ kv = version /\ cached' \subseteq {version})
       => online' \subseteq online]_vars

\* A session ends for one of two reasons only: someone logged out, or a request to
\* the auth worker failed.  Two tabs that refresh at the same time, one that waits
\* for a lock nobody releases and one that is closed half-way do not end it, and
\* every open tab shows it or has still to hear of it.
SessionSurvives ==
  ~ended => /\ stored # NoTokens
            /\ \A t \in Open : shown[t] = "in" \/ t \in events

\* Every tab comes to show what the storage holds, over and over, whoever changed it
\* (handleStorageChange, syncAuthStateFromStorage, the logout after a failed refresh).
TabsFollowStorage ==
  \A t \in Tabs : []<>(shown[t] = "closed" \/ (shown[t] = "in" <=> stored # NoTokens))

\* Every refresh and logout ends, although the owner of the lock may be closed or
\* outlive its lock and the others take turns at it (acquireRefreshLock and the
\* polling in refreshAccessToken).
CallsEnd == \A t \in Tabs, k \in Kinds : Calling(t, k) ~> ~Calling(t, k)
=============================================================================

---------------------- MODULE WorkspaceMonitoring_proofs ----------------------
(***************************************************************************)
(* Theorems about WorkspaceMonitoring for every number of workspaces,      *)
(* requests, stores, attempts and restarts: the types, and                 *)
(* MonitoredIsHeard as long as no call meets a stop of the same workspace. *)
(*                                                                         *)
(* The invariant of the latter is about one workspace at a time (Sound):   *)
(* what a stop, a cleanup or a reconnection that is under way has made of  *)
(* the store, the subscription and the metadata.  A step that is about one *)
(* workspace leaves the others alone (PartsElsewhere).                     *)
(***************************************************************************)
EXTENDS WorkspaceMonitoring, TLAPS

\* No call for a workspace meets a stop of it.
Apart == "overlap" \notin Faults

\* What the actions need of the types.
Shapes ==
  /\ metadata \in [Workspaces -> {"none", "monitoring", "stopped"}]
  /\ entry \in [Workspaces -> 0..MaxStores]
  /\ open \in [Workspaces -> SUBSET Stores]
  /\ state \in [Workspaces -> States]
  /\ cleanups \in [Workspaces -> Nat]
  /\ swap \in [Workspaces -> Swaps]
  /\ rejoin \in [Workspaces -> 0..MaxStores]
  /\ failed \subseteq Workspaces /\ crossed \subseteq Workspaces
  /\ orphan \in [Workspaces -> SUBSET Stores]
  /\ call \in [Callers -> Calls]
  /\ notices \subseteq Notices

\* A stop has the workspace to itself, but for a reconnection; it removes the entry that
\* is there when it ends.
StopIsAlone(w) ==
  \A c \in StopsOn(w) :
    /\ CallsOn(w) = {c}
    /\ call[c].store = 0 => entry[w] = 0 /\ swap[w] # "entry"

\* While a cleanup waits, its stop is under way or has left no entry behind.
CleanupsOk(w) ==
  cleanups[w] # 0 /\ StopsOn(w) = {} =>
    CallsOn(w) = {} /\ entry[w] = 0 /\ metadata[w] # "monitoring"

\* The store that a reconnection will subscribe to is open, and no stop shuts it down.
RejoinOk(w) ==
  /\ Reconnecting(w) => rejoin[w] = 0
  /\ rejoin[w] # 0 =>
       rejoin[w] \in open[w] /\ \A c \in StopsOn(w) : call[c].store # rejoin[w]

\* A workspace that is being stopped has no state once the cleanup is done, or that of a
\* reconnection.
StoppedOk(w) ==
  StopsOn(w) # {} =>
    \/ state[w] = NoState
    \/ Subscribed(w) /\ \A c \in StopsOn(w) : call[c].store # state[w].on

\* One that is at rest is heard, has no state or has lost its reconnection.
RestOk(w) ==
  StopsOn(w) = {} =>
    /\ state[w] = NoState \/ Subscribed(w) \/ Reconnecting(w) \/ w \in failed
    /\ metadata[w] = "monitoring" => state[w] # NoState \/ w \in failed

StateOk(w) == cleanups[w] = 0 /\ rejoin[w] = 0 => StoppedOk(w) /\ RestOk(w)

\* The entry is an open store, unless a reconnection is replacing it or has failed to.
EntryOk(w) ==
  /\ swap[w] = "entry" => entry[w] # 0
  /\ entry[w] # 0 =>
       \/ entry[w] \in open[w] \/ swap[w] = "entry"
       \/ w \in failed /\ swap[w] = "none" /\ rejoin[w] = 0

Sound(w) ==
  /\ StopIsAlone(w) /\ CleanupsOk(w) /\ RejoinOk(w) /\ StateOk(w) /\ EntryOk(w)

\* A server that is down has forgotten everything.
DownIsBlank ==
  server = "down" =>
    /\ cleanups = Each(0) /\ swap = Each("none") /\ rejoin = Each(0) /\ call = NoCalls
    /\ work = NoneToDo /\ listing = Unlisted

Orderly == Shapes /\ DownIsBlank /\ \A w \in Workspaces : Sound(w)

-----------------------------------------------------------------------------
(* Basic facts *)

\* An unused store is a store, and none that is open.
LEMMA UnusedStore ==
  ASSUME NEW w \in Workspaces, FreeStores(w) # {}
  PROVE  /\ Unused(w) \in Stores /\ Unused(w) \notin open[w] /\ Unused(w) # 0
         /\ \A c \in StopsOn(w) : call[c].store # Unused(w)
  <1>1. PICK s : s \in FreeStores(w)
    OBVIOUS
  <1>2. Unused(w) \in FreeStores(w)
    BY <1>1 DEF Unused
  <1> QED BY <1>2, MonitoringBounds DEF FreeStores, Stores

\* The invariant gives the property.
LEMMA SoundIsHeard ==
  ASSUME Orderly
  PROVE  MonitoredIsHeard
  <1> SUFFICES ASSUME NEW w \in Workspaces, metadata[w] = "monitoring", w \notin failed,
                      ~Settling(w)
               PROVE  Reconnecting(w) \/ Heard(w)
    BY DEF MonitoredIsHeard, Monitored
  <1> QED BY DEF Orderly, Sound, StateOk, StoppedOk, RestOk, Settling, Heard, Reconnecting

\* What Sound is about stays as it is for a workspace whose parts and calls do.
Kept(w) ==
  /\ metadata'[w] = metadata[w] /\ entry'[w] = entry[w] /\ open'[w] = open[w]
  /\ state'[w] = state[w] /\ cleanups'[w] = cleanups[w] /\ rejoin'[w] = rejoin[w]
  /\ swap'[w] = swap[w] /\ (w \in failed' <=> w \in failed)
  /\ CallsOn(w)' = CallsOn(w) /\ \A c \in CallsOn(w) : call'[c] = call[c]

LEMMA KeptIsSound ==
  ASSUME NEW w \in Workspaces, Sound(w), Kept(w)
  PROVE  Sound(w)'
  <1>1. StopsOn(w)' = StopsOn(w)
    BY DEF Kept, StopsOn
  <1>2. Subscribed(w)' <=> Subscribed(w)
    BY DEF Kept, Subscribed
  <1> QED BY <1>1, <1>2 DEF Sound, Kept, StopIsAlone, CleanupsOk, RejoinOk, StateOk,
                            StoppedOk, RestOk, EntryOk,
             StopsOn, Reconnecting

\* A call for a workspace that begins or ends is no call for another one.
LEMMA CallsElsewhere ==
  ASSUME Shapes, NEW w \in Workspaces, NEW u \in Workspaces, u # w, NEW c \in Callers, NEW k,
         call[c] = Idle \/ call[c].ws = w, k = Idle \/ k.ws = w,
         call' = [call EXCEPT ![c] = k]
  PROVE  CallsOn(u)' = CallsOn(u) /\ \A d \in CallsOn(u) : call'[d] = call[d]
  BY DEF Shapes, CallsOn

-----------------------------------------------------------------------------
(* What the calls of the orchestrator do to the workspace they are for *)

\* A workspace that may be ensured, or stopped, is at rest.
LEMMA AtRest ==
  ASSUME Orderly, Apart, NEW w \in Workspaces, MayEnsure(w) \/ MayStop(w)
  PROVE  /\ StopsOn(w) = {} /\ cleanups[w] = 0 /\ rejoin[w] = 0
         /\ state[w] = NoState \/ Subscribed(w) \/ Reconnecting(w) \/ w \in failed
         /\ metadata[w] = "monitoring" => state[w] # NoState \/ w \in failed
  <1>1. ~Settling(w)
    BY DEF Apart, MayEnsure, MayStop
  <1> QED BY <1>1 DEF Settling, Orderly, Sound, StateOk, StoppedOk, RestOk, Reconnecting

LEMMA KnownIsSound ==
  ASSUME Orderly, Apart, NEW w \in Workspaces, MayEnsure(w), EnsureKnown(w), UNCHANGED call
  PROVE  Sound(w)'
  <1>1. /\ StopsOn(w) = {} /\ cleanups[w] = 0 /\ rejoin[w] = 0
        /\ state[w] = NoState \/ Subscribed(w) \/ Reconnecting(w) \/ w \in failed
    BY AtRest
  <1>2. /\ state' = IF state[w] = NoState
                    THEN [state EXCEPT ![w] = [on |-> entry[w], stopping |-> FALSE]]
                    ELSE state
        /\ UNCHANGED <<entry, open, cleanups, swap, rejoin, failed, call>> /\ entry[w] # 0
    BY DEF EnsureKnown, Monitor, StartMonitoring, reconnection
  <1>3. EntryOk(w)
    BY DEF Orderly, Sound
  <1>4. state'[w] # NoState /\ (Subscribed(w)' \/ Reconnecting(w)' \/ w \in failed')
    <2>1. CASE state[w] = NoState
      <3>1. state'[w] = [on |-> entry[w], stopping |-> FALSE]
        BY <1>2, <2>1 DEF Orderly, Shapes
      <3> QED BY <3>1, <1>2, <1>3 DEF EntryOk, Subscribed, Reconnecting, NoState
    <2>2. CASE state[w] # NoState
      BY <2>2, <1>1, <1>2 DEF Subscribed, Reconnecting
    <2> QED BY <2>1, <2>2
  <1>5. StopsOn(w)' = {}
    BY <1>1, <1>2 DEF StopsOn, CallsOn
  <1> QED BY <1>1, <1>2, <1>3, <1>4, <1>5
       DEF Sound, StopIsAlone, CleanupsOk, RejoinOk, StateOk, StoppedOk, RestOk, EntryOk

\* A call to ensure that begins is the only change.
LEMMA CreatesIsSound ==
  ASSUME Orderly, Apart, NEW w \in Workspaces, MayEnsure(w), NEW c \in Callers, NEW of,
         call[c] = Idle, EnsureCreates(w, c, of)
  PROVE  Sound(w)'
  <1>1. /\ StopsOn(w) = {} /\ cleanups[w] = 0 /\ rejoin[w] = 0
        /\ state[w] = NoState \/ Subscribed(w) \/ Reconnecting(w) \/ w \in failed
        /\ metadata[w] = "monitoring" => state[w] # NoState \/ w \in failed
    BY AtRest
  <1>2. /\ call' = [call EXCEPT ![c] = [op |-> "ensure", ws |-> w, of |-> of]]
        /\ UNCHANGED <<metadata, entry, open, state, cleanups, swap, rejoin, failed>>
    BY DEF EnsureCreates, Awaits, storeVars, reconnection
  <1>3. StopsOn(w)' = {}
    <2> SUFFICES ASSUME NEW d \in Callers, call'[d] # Idle, call'[d].ws = w, call'[d].op = "stop"
                 PROVE  FALSE
      BY DEF StopsOn, CallsOn
    <2>1. CASE d = c
      <3>1. call'[c] = [op |-> "ensure", ws |-> w, of |-> of]
        BY <1>2 DEF Orderly, Shapes
      <3> QED BY <3>1, <2>1
    <2>2. CASE d # c
      BY <2>2, <1>1, <1>2 DEF StopsOn, CallsOn, Orderly, Shapes
    <2> QED BY <2>1, <2>2
  <1>4. Subscribed(w)' <=> Subscribed(w)
    BY <1>2 DEF Subscribed
  <1>5. EntryOk(w)
    BY DEF Orderly, Sound
  <1> QED BY <1>1, <1>2, <1>3, <1>4, <1>5
       DEF Sound, StopIsAlone, CleanupsOk, RejoinOk, StateOk, StoppedOk, RestOk, EntryOk,
           Reconnecting

\* A stop that begins has the workspace to itself.
LEMMA BeginStopIsSound ==
  ASSUME Orderly, Apart, NEW w \in Workspaces, MayStop(w), NEW c \in Callers,
         call[c] = Idle, BeginStop(w, c)
  PROVE  Sound(w)'
  <1>1. /\ StopsOn(w) = {} /\ cleanups[w] = 0 /\ rejoin[w] = 0
    BY AtRest
  <1>2. CallsOn(w) = {}
    BY DEF MayStop, Apart
  <1>3. /\ call' = [call EXCEPT ![c] = [op |-> "stop", ws |-> w, store |-> entry[w]]]
        /\ UNCHANGED <<metadata, entry, open, swap, rejoin, failed>>
    BY DEF BeginStop, Awaits
  <1>4. call'[c] = [op |-> "stop", ws |-> w, store |-> entry[w]]
    BY <1>3 DEF Orderly, Shapes
  <1>5. call'[c] # Idle
    BY <1>4 DEF Idle
  <1>6. CallsOn(w)' = {c}
    BY <1>2, <1>3, <1>4, <1>5 DEF CallsOn, Orderly, Shapes
  <1>7. StopsOn(w)' = {c}
    BY <1>4, <1>6 DEF StopsOn
  <1>8. \/ state[w] = NoState /\ UNCHANGED <<state, cleanups>>
        \/ cleanups'[w] # 0
    BY <1>1 DEF BeginStop, StopMonitoring, Orderly, Shapes
  <1>9. EntryOk(w)
    BY DEF Orderly, Sound
  <1>10. StopIsAlone(w)'
    BY <1>3, <1>4, <1>6, <1>7, <1>9 DEF StopIsAlone, EntryOk
  <1>11. CleanupsOk(w)' /\ RejoinOk(w)' /\ EntryOk(w)'
    BY <1>1, <1>3, <1>7, <1>9 DEF CleanupsOk, RejoinOk, EntryOk, Reconnecting
  <1>12. StateOk(w)'
    BY <1>7, <1>8 DEF StateOk, StoppedOk, RestOk, Reconnecting
  <1> QED BY <1>10, <1>11, <1>12 DEF Sound

\* What the end of a call does to the calls for its workspace.
LEMMA CallReturns ==
  ASSUME Shapes, NEW c \in Callers, call[c] # Idle, Returns(c), NEW w \in Workspaces
  PROVE  /\ CallsOn(w)' = CallsOn(w) \ {c}
         /\ \A d \in CallsOn(w)' : call'[d] = call[d]
         /\ StopsOn(w)' = StopsOn(w) \ {c}
  <1>1. call' = [call EXCEPT ![c] = Idle]
    BY DEF Returns
  <1>2. CallsOn(w)' = CallsOn(w) \ {c}
    BY <1>1 DEF CallsOn, Shapes
  <1>3. \A d \in CallsOn(w)' : call'[d] = call[d]
    BY <1>1, <1>2 DEF CallsOn, Shapes
  <1> QED BY <1>2, <1>3 DEF StopsOn

\* The workspace of a call is one.
LEMMA CallHasWorkspace ==
  ASSUME Shapes, NEW c \in Callers, call[c].op \in {"ensure", "stop"}
  PROVE  /\ call[c] # Idle /\ call[c].ws \in Workspaces /\ c \in CallsOn(call[c].ws)
         /\ call[c].op = "stop" => call[c].store \in 0..MaxStores
         /\ call[c].op = "ensure" => call[c].of \in Notices \cup {Idle}
  <1>1. call[c] \in Calls
    BY DEF Shapes
  <1>2. call[c] # Idle
    BY DEF Idle
  <1> QED BY <1>1, <1>2 DEF Calls, CallsOn

\* A call to ensure waits only while no stop and no cleanup is under way.
LEMMA NoStopBeside ==
  ASSUME Orderly, NEW c \in Callers, call[c].op = "ensure"
  PROVE  StopsOn(call[c].ws) = {} /\ cleanups[call[c].ws] = 0
  <1> DEFINE w == call[c].ws
  <1>1. w \in Workspaces /\ c \in CallsOn(w)
    BY CallHasWorkspace DEF Orderly
  <1>2. StopIsAlone(w) /\ CleanupsOk(w)
    BY <1>1 DEF Orderly, Sound
  <1>3. StopsOn(w) = {}
    BY <1>1, <1>2 DEF StopIsAlone, StopsOn
  <1> QED BY <1>1, <1>2, <1>3 DEF CleanupsOk

\* The store that was created is new, so what was heard still is.
LEMMA EnsureEndsIsSound ==
  ASSUME Orderly, NEW c \in Callers, EnsureEnds(c), NEW w \in Workspaces, w = call[c].ws
  PROVE  Sound(w)'
  <1>0. PICK s : s = Unused(w)
    OBVIOUS
  <1>1. call[c] # Idle
    BY CallHasWorkspace DEF Orderly, EnsureEnds
  <1>2. StopsOn(w) = {} /\ cleanups[w] = 0
    BY NoStopBeside DEF EnsureEnds
  <1>3. s \in Stores /\ s # 0
    BY <1>0, UnusedStore DEF EnsureEnds, StoreAdded
  <1>4. /\ entry' = [entry EXCEPT ![w] = s]
        /\ open' = [open EXCEPT ![w] = @ \cup {s}]
        /\ UNCHANGED <<cleanups, rejoin, failed>>
        /\ \/ /\ state' = IF state[w] = NoState
                          THEN [state EXCEPT ![w] = [on |-> s, stopping |-> FALSE]]
                          ELSE state
           \/ state[w] = NoState /\ UNCHANGED <<state, metadata>>
        /\ swap' = [swap EXCEPT ![w] = IF @ = "entry" THEN "gone" ELSE @]
    BY <1>0 DEF EnsureEnds, StoreAdded, Monitor, SubscribeFails, StartMonitoring, EntryReplaced
  <1>5. StopsOn(w)' = {}
    BY <1>1, <1>2, CallReturns DEF Orderly, EnsureEnds
  <1>6. entry'[w] = s /\ open'[w] = open[w] \cup {s}
    BY <1>1, <1>4 DEF Orderly, Shapes
  <1>12. Reconnecting(w)' <=> Reconnecting(w)
    BY <1>1, <1>4 DEF Reconnecting, Orderly, Shapes
  <1>7. StopIsAlone(w)' /\ EntryOk(w)'
    BY <1>3, <1>5, <1>6 DEF StopIsAlone, EntryOk
  <1>8. CleanupsOk(w)'
    BY <1>2, <1>4 DEF CleanupsOk
  <1>9. RejoinOk(w)'
    BY <1>1, <1>2, <1>4, <1>5, <1>6, <1>12 DEF RejoinOk, Orderly, Sound
  <1>10. ASSUME rejoin[w] = 0
         PROVE  \/ (Subscribed(w)' \/ Reconnecting(w)' \/ w \in failed') /\ state'[w] # NoState
                \/ state'[w] = NoState /\ (metadata'[w] # "monitoring" \/ w \in failed')
    <2>1. StateOk(w)
      BY <1>1 DEF Orderly, Sound
    <2>2. CASE state[w] # NoState
      <3>1. Subscribed(w) \/ Reconnecting(w) \/ w \in failed
        BY <2>1, <2>2, <1>2, <1>10 DEF StateOk, StoppedOk, RestOk
      <3>2. state' = state
        BY <2>2, <1>4
      <3> QED BY <3>1, <3>2, <2>2, <1>4, <1>6, <1>12 DEF Subscribed
    <2>3. CASE state[w] = NoState /\ state' = [state EXCEPT ![w] = [on |-> s, stopping |-> FALSE]]
      <3>1. state'[w] = [on |-> s, stopping |-> FALSE]
        BY <1>1, <2>3 DEF Orderly, Shapes
      <3> QED BY <3>1, <1>3, <1>6 DEF Subscribed, NoState
    <2>4. CASE state[w] = NoState /\ UNCHANGED <<state, metadata>>
      BY <2>1, <2>4, <1>2, <1>4, <1>10 DEF StateOk, StoppedOk, RestOk
    <2> QED BY <1>4, <2>2, <2>3, <2>4
  <1>11. StateOk(w)'
    BY <1>4, <1>5, <1>10 DEF StateOk, StoppedOk, RestOk
  <1> QED BY <1>7, <1>8, <1>9, <1>11 DEF Sound

\* A stop leaves no entry behind; a state that is there then waits for the cleanup or is that
\* of a reconnection, whose store stays open.
LEMMA StopEndsIsSound ==
  ASSUME Orderly, NEW c \in Callers, StopEnds(c), NEW w \in Workspaces, w = call[c].ws
  PROVE  Sound(w)'
  <1>0. PICK s : s = call[c].store
    OBVIOUS
  <1>1. call[c] # Idle /\ c \in CallsOn(w) /\ c \in StopsOn(w)
    BY CallHasWorkspace DEF Orderly, StopEnds, StopsOn
  <1>2. Sound(w)
    BY DEF Orderly
  <1>3. CallsOn(w) = {c} /\ (s = 0 => entry[w] = 0 /\ swap[w] # "entry")
    BY <1>0, <1>1, <1>2 DEF Sound, StopIsAlone
  <1>4. CallsOn(w)' = {} /\ StopsOn(w)' = {}
    BY <1>1, <1>3, CallReturns DEF Orderly, StopEnds, StopsOn
  <1>5. /\ open' = [open EXCEPT ![w] = @ \ {s}]
        /\ metadata' = [metadata EXCEPT ![w] = "stopped"]
        /\ UNCHANGED <<state, cleanups, rejoin>>
        /\ \/ s = 0 /\ UNCHANGED <<entry, swap>>
           \/ /\ entry' = [entry EXCEPT ![w] = 0]
              /\ swap' = [swap EXCEPT ![w] = IF @ = "entry" THEN "gone" ELSE @]
    BY <1>0 DEF StopEnds, StoreRemoved, EntryRemoved, EntryReplaced
  <1>6. /\ entry'[w] = 0 /\ swap'[w] # "entry" /\ metadata'[w] = "stopped"
        /\ open'[w] = open[w] \ {s} /\ (Reconnecting(w)' <=> Reconnecting(w))
    BY <1>3, <1>5 DEF Orderly, Shapes, Reconnecting
  <1>7. StopIsAlone(w)' /\ CleanupsOk(w)' /\ EntryOk(w)'
    BY <1>4, <1>6 DEF StopIsAlone, CleanupsOk, EntryOk
  <1>8. RejoinOk(w)'
    BY <1>0, <1>1, <1>2, <1>4, <1>5, <1>6 DEF Sound, RejoinOk
  <1>9. cleanups[w] = 0 /\ rejoin[w] = 0 => state[w] = NoState \/ Subscribed(w)'
    BY <1>0, <1>1, <1>2, <1>5, <1>6 DEF Sound, StateOk, StoppedOk, Subscribed
  <1>10. StateOk(w)'
    BY <1>4, <1>5, <1>6, <1>9 DEF StateOk, StoppedOk, RestOk
  <1> QED BY <1>7, <1>8, <1>10 DEF Sound

\* A creation that fails ends a call and nothing else.
LEMMA CreateFailsIsSound ==
  ASSUME Orderly, NEW c \in Callers, CreateFails(c), NEW w \in Workspaces, w = call[c].ws
  PROVE  Sound(w)'
  <1>1. call[c] # Idle
    BY CallHasWorkspace DEF Orderly, CreateFails
  <1>2. StopsOn(w) = {} /\ cleanups[w] = 0
    BY NoStopBeside DEF CreateFails
  <1>3. StopsOn(w)' = {}
    BY <1>1, <1>2, CallReturns DEF Orderly, CreateFails
  <1>4. UNCHANGED <<metadata, entry, open, state, cleanups, swap, rejoin, failed>>
    BY DEF CreateFails, storeVars, reconnection
  <1>5. Sound(w)
    BY <1>1 DEF Orderly
  <1>6. Subscribed(w)' <=> Subscribed(w)
    BY <1>4 DEF Subscribed
  <1> QED BY <1>2, <1>3, <1>4, <1>5, <1>6
       DEF Sound, StopIsAlone, CleanupsOk, RejoinOk, StateOk, StoppedOk, RestOk, EntryOk,
           Reconnecting

-----------------------------------------------------------------------------
(* The steps of the EventProcessor and the StoreManager *)

\* The cleanup of a stop deletes a state nobody needs any more.
LEMMA FinishStopIsSound ==
  ASSUME Orderly, NEW w \in Workspaces, FinishStop(w)
  PROVE  Sound(w)'
  <1>1. /\ state' = [state EXCEPT ![w] = NoState]
        /\ cleanups[w] # 0 /\ UNCHANGED <<metadata, entry, open, swap, rejoin, failed, call>>
    BY DEF FinishStop, reconnection, Orderly, Shapes
  <1>2. Sound(w)
    BY DEF Orderly
  <1>3. CallsOn(w)' = CallsOn(w) /\ StopsOn(w)' = StopsOn(w)
    BY <1>1 DEF CallsOn, StopsOn
  <1>4. StopsOn(w) = {} => metadata[w] # "monitoring"
    BY <1>1, <1>2 DEF Sound, CleanupsOk
  <1>5. state'[w] = NoState
    BY <1>1 DEF Orderly, Shapes
  <1>6. StateOk(w)'
    BY <1>1, <1>3, <1>4, <1>5 DEF StateOk, StoppedOk, RestOk, Reconnecting
  <1>7. StopIsAlone(w)' /\ CleanupsOk(w)' /\ RejoinOk(w)' /\ EntryOk(w)'
    BY <1>1, <1>2, <1>3, <1>4 DEF Sound, StopIsAlone, CleanupsOk, RejoinOk, EntryOk,
                                  Reconnecting
  <1> QED BY <1>6, <1>7 DEF Sound

\* A reconnection that begins closes the store of the entry and says so.
LEMMA ReconnectBeginsIsSound ==
  ASSUME Orderly, Apart, NEW w \in Workspaces, ReconnectBegins(w)
  PROVE  Sound(w)'
  <1>1. /\ StopsOn(w) = {} /\ entry[w] # 0 /\ rejoin[w] = 0
        /\ swap' = [swap EXCEPT ![w] = "entry"]
        /\ UNCHANGED <<metadata, entry, state, cleanups, rejoin, failed, call>>
    BY MonitoringBounds DEF ReconnectBegins, MayReconnect, Apart, Orderly, Shapes, Stores
  <1>2. Sound(w)
    BY DEF Orderly
  <1>3. cleanups[w] = 0
    BY <1>1, <1>2 DEF Sound, CleanupsOk
  <1>4. StopsOn(w)' = {}
    BY <1>1 DEF StopsOn, CallsOn
  <1>5. swap'[w] = "entry"
    BY <1>1 DEF Orderly, Shapes
  <1> QED BY <1>1, <1>2, <1>3, <1>4, <1>5
       DEF Sound, StopIsAlone, CleanupsOk, RejoinOk, StateOk, StoppedOk, RestOk, EntryOk,
           Reconnecting

\* A reconnection opens a new store; a workspace that was heard will be again.
LEMMA ReconnectedIsSound ==
  ASSUME Orderly, NEW w \in Workspaces, Reconnected(w)
  PROVE  Sound(w)'
  <1>0. PICK s : s = Unused(w)
    OBVIOUS
  <1>1. s \in Stores /\ s # 0 /\ \A c \in StopsOn(w) : call[c].store # s
    BY <1>0, UnusedStore DEF Reconnected
  <1>2. Sound(w) /\ Reconnecting(w) /\ rejoin[w] = 0
    BY DEF Orderly, Reconnected
  <1>3. /\ entry' = IF swap[w] = "entry" THEN [entry EXCEPT ![w] = s] ELSE entry
        /\ open' = [open EXCEPT ![w] = @ \cup {s}]
        /\ swap' = [swap EXCEPT ![w] = "none"]
        /\ UNCHANGED <<metadata, cleanups, failed, call>>
        /\ \/ state[w] = NoState /\ UNCHANGED <<state, rejoin>>
           \/ rejoin' = [rejoin EXCEPT ![w] = s]
    BY <1>0 DEF Reconnected
  <1>4. /\ open'[w] = open[w] \cup {s} /\ swap'[w] = "none"
        /\ entry'[w] = IF swap[w] = "entry" THEN s ELSE entry[w]
    BY <1>3 DEF Orderly, Shapes
  <1>5. CallsOn(w)' = CallsOn(w) /\ StopsOn(w)' = StopsOn(w)
    BY <1>3 DEF StopsOn, CallsOn
  <1>6. EntryOk(w)'
    BY <1>2, <1>4 DEF Sound, EntryOk, Reconnecting
  <1>7. StopIsAlone(w)'
    BY <1>2, <1>3, <1>4, <1>5 DEF Sound, StopIsAlone
  <1>8. CleanupsOk(w)'
    BY <1>2, <1>3, <1>4, <1>5 DEF Sound, CleanupsOk, EntryOk
  <1>9. CASE state[w] = NoState /\ UNCHANGED <<state, rejoin>>
    <2>1. RejoinOk(w)'
      BY <1>2, <1>4, <1>9 DEF RejoinOk, Reconnecting
    <2>2. StateOk(w)'
      BY <1>2, <1>3, <1>5, <1>9 DEF Sound, StateOk, StoppedOk, RestOk
    <2> QED BY <2>1, <2>2, <1>6, <1>7, <1>8 DEF Sound
  <1>10. CASE rejoin' = [rejoin EXCEPT ![w] = s]
    <2>1. rejoin'[w] = s
      BY <1>10 DEF Orderly, Shapes
    <2>2. RejoinOk(w)'
      BY <2>1, <1>1, <1>3, <1>4, <1>5 DEF RejoinOk, Reconnecting
    <2>3. StateOk(w)'
      BY <2>1, <1>1 DEF StateOk
    <2> QED BY <2>2, <2>3, <1>6, <1>7, <1>8 DEF Sound
  <1> QED BY <1>3, <1>9, <1>10

\* The new subscription is on a store that is still open, or there is none.
LEMMA RejoinedIsSound ==
  ASSUME Orderly, NEW w \in Workspaces, Rejoined(w)
  PROVE  Sound(w)'
  <1>0. PICK s : s = rejoin[w]
    OBVIOUS
  <1>1. /\ rejoin' = [rejoin EXCEPT ![w] = 0]
        /\ s # 0 /\ UNCHANGED <<metadata, entry, open, cleanups, swap, call>>
        /\ \/ state' = [state EXCEPT ![w] = [on |-> s, stopping |-> FALSE]]
           \/ state' = [state EXCEPT ![w] = NoState] /\ w \in failed'
    BY <1>0 DEF Rejoined
  <1>2. Sound(w)
    BY DEF Orderly
  <1>3. /\ s \in open[w] /\ \A c \in StopsOn(w) : call[c].store # s
        /\ ~Reconnecting(w) /\ (entry[w] # 0 => entry[w] \in open[w])
    BY <1>0, <1>1, <1>2 DEF Sound, RejoinOk, EntryOk, Reconnecting
  <1>4. CallsOn(w)' = CallsOn(w) /\ StopsOn(w)' = StopsOn(w)
    BY <1>1 DEF StopsOn, CallsOn
  <1>5. rejoin'[w] = 0
    BY <1>1 DEF Orderly, Shapes
  <1>6. StateOk(w)'
    <2>1. CASE state' = [state EXCEPT ![w] = [on |-> s, stopping |-> FALSE]]
      <3>1. state'[w] = [on |-> s, stopping |-> FALSE]
        BY <2>1 DEF Orderly, Shapes
      <3>2. Subscribed(w)' /\ state'[w] # NoState
        BY <1>1, <1>3, <3>1 DEF Subscribed, NoState
      <3> QED BY <1>1, <1>3, <1>4, <3>1, <3>2 DEF StateOk, StoppedOk, RestOk
    <2>2. CASE state' = [state EXCEPT ![w] = NoState] /\ w \in failed'
      <3>1. state'[w] = NoState
        BY <2>2 DEF Orderly, Shapes
      <3> QED BY <2>2, <3>1 DEF StateOk, StoppedOk, RestOk
    <2> QED BY <1>1, <2>1, <2>2
  <1>7. StopIsAlone(w)' /\ CleanupsOk(w)'
    BY <1>1, <1>2, <1>4 DEF Sound, StopIsAlone, CleanupsOk
  <1>8. RejoinOk(w)' /\ EntryOk(w)'
    BY <1>1, <1>2, <1>3, <1>5 DEF Sound, RejoinOk, EntryOk, Reconnecting
  <1> QED BY <1>6, <1>7, <1>8 DEF Sound

\* A reconnection that fails is over, and noted.
LEMMA ReconnectFailsIsSound ==
  ASSUME Orderly, NEW w \in Workspaces, ReconnectFails(w)
  PROVE  Sound(w)'
  <1>1. /\ Reconnecting(w) /\ swap' = [swap EXCEPT ![w] = "none"] /\ w \in failed'
        /\ UNCHANGED <<metadata, entry, open, state, cleanups, rejoin, call>>
    BY DEF ReconnectFails
  <1>2. Sound(w) /\ rejoin[w] = 0
    BY <1>1 DEF Orderly, Sound, RejoinOk
  <1>3. CallsOn(w)' = CallsOn(w) /\ StopsOn(w)' = StopsOn(w)
    BY <1>1 DEF StopsOn, CallsOn
  <1>4. swap'[w] = "none"
    BY <1>1 DEF Orderly, Shapes
  <1>5. StateOk(w)'
    <2>1. Subscribed(w)' <=> Subscribed(w)
      BY <1>1 DEF Subscribed
    <2> QED BY <2>1, <1>1, <1>2, <1>3 DEF Sound, StateOk, StoppedOk, RestOk
  <1>6. StopIsAlone(w)' /\ CleanupsOk(w)' /\ RejoinOk(w)' /\ EntryOk(w)'
    BY <1>1, <1>2, <1>3, <1>4
       DEF Sound, StopIsAlone, CleanupsOk, RejoinOk, EntryOk, Reconnecting
  <1> QED BY <1>5, <1>6 DEF Sound

LEMMA ReconnectsIsSound ==
  ASSUME Orderly, Apart, NEW w \in Workspaces, Reconnects(w)
  PROVE  Sound(w)'
  BY ReconnectBeginsIsSound, ReconnectedIsSound, ReconnectFailsIsSound, RejoinedIsSound
     DEF Reconnects

-----------------------------------------------------------------------------
(* Every workspace after a step about one of them *)

\* A step that changes the parts of w only.
PartsElsewhere(w) ==
  \A u \in Workspaces \ {w} :
    /\ metadata'[u] = metadata[u] /\ entry'[u] = entry[u] /\ open'[u] = open[u]
    /\ state'[u] = state[u] /\ cleanups'[u] = cleanups[u] /\ rejoin'[u] = rejoin[u]
    /\ swap'[u] = swap[u] /\ (u \in failed' <=> u \in failed)

LEMMA OrchestratorElsewhere ==
  ASSUME Shapes, NEW w \in Workspaces, NEW c \in Callers, NEW of,
         EnsureKnown(w) \/ EnsureFails(w) \/ EnsureCreates(w, c, of) \/ BeginStop(w, c)
  PROVE  PartsElsewhere(w)
  <1>1. CASE EnsureKnown(w)
    BY <1>1 DEF EnsureKnown, Monitor, StartMonitoring, reconnection, PartsElsewhere, Shapes
  <1>2. CASE EnsureFails(w)
    BY <1>2 DEF EnsureFails, SubscribeFails, reconnection, PartsElsewhere
  <1>3. CASE EnsureCreates(w, c, of)
    BY <1>3 DEF EnsureCreates, storeVars, reconnection, PartsElsewhere
  <1>4. CASE BeginStop(w, c)
    BY <1>4 DEF BeginStop, StopMonitoring, reconnection, PartsElsewhere, Shapes
  <1> QED BY <1>1, <1>2, <1>3, <1>4

LEMMA StoreAddedElsewhere ==
  ASSUME Shapes, NEW w \in Workspaces, StoreAdded(w)
  PROVE  PartsElsewhere(w)
  BY DEF StoreAdded, EntryReplaced, Monitor, StartMonitoring, SubscribeFails, PartsElsewhere,
         Shapes

LEMMA StoreRemovedElsewhere ==
  ASSUME Shapes, NEW k, NEW w \in Workspaces, w = k.ws, StoreRemoved(k)
  PROVE  PartsElsewhere(w)
  BY DEF StoreRemoved, EntryRemoved, EntryReplaced, PartsElsewhere, Shapes

LEMMA ProcessorElsewhere ==
  ASSUME Shapes, NEW w \in Workspaces, FinishStop(w) \/ Reconnects(w)
  PROVE  PartsElsewhere(w)
  <1>1. CASE FinishStop(w)
    BY <1>1 DEF FinishStop, reconnection, PartsElsewhere, Shapes
  <1>2. CASE ReconnectBegins(w)
    BY <1>2 DEF ReconnectBegins, PartsElsewhere, Shapes
  <1>3. CASE Reconnected(w)
    BY <1>3 DEF Reconnected, PartsElsewhere, Shapes
  <1>4. CASE ReconnectFails(w)
    BY <1>4 DEF ReconnectFails, PartsElsewhere, Shapes
  <1>5. CASE Rejoined(w)
    BY <1>5 DEF Rejoined, PartsElsewhere, Shapes
  <1> QED BY <1>1, <1>2, <1>3, <1>4, <1>5 DEF Reconnects

\* A step that begins or ends one call for w.
OneCall(w) ==
  \E c \in Callers, k \in Calls :
    /\ call[c] = Idle \/ call[c].ws = w
    /\ k = Idle \/ k.ws = w
    /\ call' = [call EXCEPT ![c] = k]

\* If it leaves w sound, all of them are.
LEMMA AllSound ==
  ASSUME Orderly, NEW w \in Workspaces, Sound(w)', PartsElsewhere(w),
         UNCHANGED call \/ OneCall(w)
  PROVE  \A u \in Workspaces : Sound(u)'
  <1> SUFFICES ASSUME NEW u \in Workspaces, u # w
               PROVE  Sound(u)'
    OBVIOUS
  <1>1. CallsOn(u)' = CallsOn(u) /\ \A d \in CallsOn(u) : call'[d] = call[d]
    <2>1. CASE UNCHANGED call
      BY <2>1 DEF CallsOn
    <2>2. CASE OneCall(w)
      <3>1. PICK c \in Callers, k \in Calls :
               /\ call[c] = Idle \/ call[c].ws = w
               /\ k = Idle \/ k.ws = w
               /\ call' = [call EXCEPT ![c] = k]
        BY <2>2 DEF OneCall
      <3> QED BY <3>1, CallsElsewhere DEF Orderly
    <2> QED BY <2>1, <2>2
  <1>2. Kept(u)
    BY <1>1 DEF Kept, PartsElsewhere
  <1> QED BY <1>2, KeptIsSound DEF Orderly

\* A step that touches none of this.
LEMMA UntouchedIsSound ==
  ASSUME Orderly, UNCHANGED <<metadata, storeVars, call>>
  PROVE  \A u \in Workspaces : Sound(u)'
  <1> SUFFICES ASSUME NEW u \in Workspaces
               PROVE  Sound(u)'
    OBVIOUS
  <1>1. Kept(u)
    BY DEF Kept, storeVars, reconnection, CallsOn
  <1> QED BY <1>1, KeptIsSound DEF Orderly

-----------------------------------------------------------------------------
(* The shapes, and a server that is down *)

\* A notice that is tried again is a notice.
LEMMA RetriedAreNotices ==
  ASSUME NEW n \in Notices
  PROVE  Retried(n) \subseteq Notices
  <1>1. n.left \in 1..MaxAttempts
    BY DEF Notices
  <1>2. CASE n.left = 1
    BY <1>2 DEF Retried
  <1>3. CASE n.left # 1
    <2>1. n.left - 1 \in 1..MaxAttempts
      BY <1>1, <1>3, MonitoringBounds
    <2>2. [n EXCEPT !.left = n.left - 1] \in Notices
      BY <2>1 DEF Notices
    <2> QED BY <2>2, <1>3 DEF Retried
  <1> QED BY <1>2, <1>3

\* The parts of the workspaces keep their shapes.
PartShapes ==
  /\ metadata \in [Workspaces -> {"none", "monitoring", "stopped"}]
  /\ entry \in [Workspaces -> 0..MaxStores]
  /\ open \in [Workspaces -> SUBSET Stores]
  /\ state \in [Workspaces -> States]
  /\ cleanups \in [Workspaces -> Nat]
  /\ swap \in [Workspaces -> Swaps]
  /\ rejoin \in [Workspaces -> 0..MaxStores]
  /\ failed \subseteq Workspaces /\ crossed \subseteq Workspaces
  /\ orphan \in [Workspaces -> SUBSET Stores]

\* A state of a store is one.
LEMMA StateShapes ==
  /\ \A s \in 0..MaxStores, b \in BOOLEAN : [on |-> s, stopping |-> b] \in States
  /\ \A t \in States : [t EXCEPT !.stopping = TRUE] \in States
  /\ NoState \in States
  <1>1. 0 \in 0..MaxStores
    BY MonitoringBounds
  <1>2. \A t \in States : [t EXCEPT !.stopping = TRUE] \in States
    BY DEF States
  <1> QED BY <1>1, <1>2 DEF States, NoState

LEMMA StartShapes ==
  ASSUME Shapes, NEW w \in Workspaces, NEW s \in 0..MaxStores, StartMonitoring(w, s)
  PROVE  state' \in [Workspaces -> States]
  BY StateShapes DEF StartMonitoring, Shapes

LEMMA StopShapes ==
  ASSUME Shapes, NEW w \in Workspaces, StopMonitoring(w)
  PROVE  state' \in [Workspaces -> States] /\ cleanups' \in [Workspaces -> Nat]
  <1>1. CASE state[w] = NoState
    BY <1>1 DEF StopMonitoring, Shapes
  <1>2. CASE state[w] # NoState
    <2>1. /\ state' = [state EXCEPT ![w] = [state[w] EXCEPT !.stopping = TRUE]]
          /\ cleanups' = [cleanups EXCEPT ![w] = cleanups[w] + 1]
      BY <1>2 DEF StopMonitoring
    <2> QED BY <2>1, StateShapes DEF Shapes
  <1> QED BY <1>1, <1>2

LEMMA OrchestratorShapes ==
  ASSUME Shapes, NEW w \in Workspaces, NEW c \in Callers, NEW of,
         EnsureKnown(w) \/ EnsureFails(w) \/ EnsureCreates(w, c, of) \/ BeginStop(w, c)
  PROVE  PartShapes'
  <1>1. CASE EnsureKnown(w)
    <2>1. entry[w] \in 0..MaxStores
      BY DEF Shapes
    <2>2. state' \in [Workspaces -> States]
      BY <1>1, <2>1, StartShapes DEF EnsureKnown, Monitor
    <2> QED BY <1>1, <2>2 DEF EnsureKnown, Monitor, reconnection, PartShapes, Shapes
  <1>2. CASE EnsureFails(w)
    BY <1>2 DEF EnsureFails, SubscribeFails, reconnection, PartShapes, Shapes
  <1>3. CASE EnsureCreates(w, c, of)
    BY <1>3 DEF EnsureCreates, storeVars, reconnection, PartShapes, Shapes
  <1>4. CASE BeginStop(w, c)
    BY <1>4, StopShapes DEF BeginStop, reconnection, PartShapes, Shapes
  <1> QED BY <1>1, <1>2, <1>3, <1>4

LEMMA ReplacedShapes ==
  ASSUME Shapes, NEW w, EntryReplaced(w)
  PROVE  swap' \in [Workspaces -> Swaps]
  BY DEF EntryReplaced, Shapes, Swaps

LEMMA ForgetsShapes ==
  ASSUME Shapes, NEW w \in Workspaces, Forgets(w)
  PROVE  orphan' \in [Workspaces -> SUBSET Stores]
  <1>1. CASE state[w] = NoState \/ state[w].stopping
    BY <1>1 DEF Forgets, Shapes
  <1>2. CASE state[w] # NoState /\ ~state[w].stopping
    <2>1. state[w] \in States
      BY DEF Shapes
    <2>2. state[w] = [on |-> state[w].on, stopping |-> state[w].stopping]
      BY <2>1 DEF States
    <2>3. state[w].on # 0
      BY <1>2, <2>1, <2>2 DEF States, NoState
    <2>4. state[w].on \in Stores
      BY <2>1, <2>3, MonitoringBounds DEF States, Stores
    <2>5. orphan' = [orphan EXCEPT ![w] = orphan[w] \cup {state[w].on}]
      BY <1>2 DEF Forgets
    <2> QED BY <2>4, <2>5 DEF Shapes
  <1> QED BY <1>1, <1>2

LEMMA StoreAddedShapes ==
  ASSUME Shapes, NEW w \in Workspaces, StoreAdded(w)
  PROVE  PartShapes'
  <1>0. PICK s : s = Unused(w)
    OBVIOUS
  <1>1. s \in Stores /\ s \in 0..MaxStores
    BY <1>0, UnusedStore, MonitoringBounds DEF StoreAdded, Stores
  <1>2. /\ entry' = [entry EXCEPT ![w] = s]
        /\ open' = [open EXCEPT ![w] = @ \cup {s}]
        /\ Monitor(w, s) \/ SubscribeFails(w)
        /\ EntryReplaced(w)
        /\ UNCHANGED <<cleanups, rejoin, failed, crossed, orphan>>
    BY <1>0 DEF StoreAdded
  <1>3. state' \in [Workspaces -> States]
    BY <1>1, <1>2, StartShapes DEF Monitor, SubscribeFails, Shapes
  <1>4. metadata' \in [Workspaces -> {"none", "monitoring", "stopped"}]
    BY <1>2 DEF Monitor, SubscribeFails, Shapes
  <1>5. entry' \in [Workspaces -> 0..MaxStores] /\ open' \in [Workspaces -> SUBSET Stores]
    BY <1>1, <1>2 DEF Shapes
  <1>6. swap' \in [Workspaces -> Swaps]
    BY <1>2, ReplacedShapes DEF Shapes
  <1> QED BY <1>2, <1>3, <1>4, <1>5, <1>6 DEF PartShapes, Shapes

LEMMA StoreRemovedShapes ==
  ASSUME Shapes, NEW k, StoreRemoved(k)
  PROVE  PartShapes'
  <1>1. 0 \in 0..MaxStores
    BY MonitoringBounds
  <1>2. entry' \in [Workspaces -> 0..MaxStores] /\ swap' \in [Workspaces -> Swaps]
    BY <1>1, ReplacedShapes DEF StoreRemoved, EntryRemoved, Shapes
  <1>3. open' \in [Workspaces -> SUBSET Stores]
    BY DEF StoreRemoved, Shapes
  <1> QED BY <1>2, <1>3 DEF StoreRemoved, PartShapes, Shapes

LEMMA ProcessorShapes ==
  ASSUME Shapes, NEW w \in Workspaces, FinishStop(w) \/ Reconnects(w)
  PROVE  PartShapes'
  <1>1. CASE FinishStop(w)
    <2>1. orphan' \in [Workspaces -> SUBSET Stores]
      BY <1>1, ForgetsShapes DEF FinishStop
    <2>2. state' \in [Workspaces -> States] /\ cleanups' \in [Workspaces -> Nat]
      BY <1>1, StateShapes DEF FinishStop, Shapes
    <2> QED BY <1>1, <2>1, <2>2 DEF FinishStop, reconnection, PartShapes, Shapes
  <1>2. CASE ReconnectBegins(w)
    <2>1. open' \in [Workspaces -> SUBSET Stores]
      BY <1>2 DEF ReconnectBegins, Shapes
    <2> QED BY <1>2, <2>1 DEF ReconnectBegins, PartShapes, Shapes, Swaps
  <1>3. CASE Reconnected(w)
    <2>0. PICK s : s = Unused(w)
      OBVIOUS
    <2>1. s \in Stores /\ s \in 0..MaxStores
      BY <2>0, <1>3, UnusedStore, MonitoringBounds DEF Reconnected, Stores
    <2>2. /\ entry' = IF swap[w] = "entry" THEN [entry EXCEPT ![w] = s] ELSE entry
          /\ open' = [open EXCEPT ![w] = @ \cup {s}]
          /\ swap' = [swap EXCEPT ![w] = "none"]
          /\ UNCHANGED <<metadata, cleanups, failed, crossed, orphan>>
          /\ \/ UNCHANGED <<state, rejoin>>
             \/ /\ state' = [state EXCEPT ![w] = [state[w] EXCEPT !.stopping = TRUE]]
                /\ rejoin' = [rejoin EXCEPT ![w] = s]
      BY <2>0, <1>3 DEF Reconnected
    <2>3. entry' \in [Workspaces -> 0..MaxStores] /\ open' \in [Workspaces -> SUBSET Stores]
      BY <2>1, <2>2 DEF Shapes
    <2>4. state' \in [Workspaces -> States] /\ rejoin' \in [Workspaces -> 0..MaxStores]
      BY <2>1, <2>2, StateShapes DEF Shapes
    <2> QED BY <2>2, <2>3, <2>4 DEF PartShapes, Shapes, Swaps
  <1>4. CASE ReconnectFails(w)
    BY <1>4 DEF ReconnectFails, PartShapes, Shapes, Swaps
  <1>5. CASE Rejoined(w)
    <2>1. /\ \/ state' = [state EXCEPT ![w] = [on |-> rejoin[w], stopping |-> FALSE]]
             \/ state' = [state EXCEPT ![w] = NoState]
          /\ rejoin' = [rejoin EXCEPT ![w] = 0]
          /\ rejoin[w] \in 0..MaxStores /\ 0 \in 0..MaxStores
      BY <1>5, MonitoringBounds DEF Rejoined, Shapes
    <2>2. state' \in [Workspaces -> States] /\ rejoin' \in [Workspaces -> 0..MaxStores]
      BY <2>1, StateShapes DEF Shapes
    <2>3. orphan' \in [Workspaces -> SUBSET Stores]
      BY <1>5, ForgetsShapes DEF Rejoined
    <2> QED BY <2>2, <2>3, <1>5 DEF Rejoined, PartShapes, Shapes
  <1> QED BY <1>1, <1>2, <1>3, <1>4, <1>5 DEF Reconnects

\* The calls and notices keep theirs.
LEMMA CallShapes ==
  ASSUME Shapes, NEW c \in Callers, NEW k \in Calls, call' = [call EXCEPT ![c] = k]
  PROVE  call' \in [Callers -> Calls]
  BY DEF Shapes

\* A step of a server that is up keeps the parts together.
LEMMA OrderlyStep ==
  ASSUME Orderly, PartShapes', call' \in [Callers -> Calls], notices' \subseteq Notices,
         server # "down", UNCHANGED server, \A w \in Workspaces : Sound(w)'
  PROVE  Orderly'
  BY DEF Orderly, Shapes, PartShapes, DownIsBlank

-----------------------------------------------------------------------------
(* The steps *)

\* A caller that goes to the orchestrator about w.
LEMMA CallerStep ==
  ASSUME Orderly, Apart, NEW w \in Workspaces, NEW c \in Callers, NEW of \in Notices \cup {Idle},
         call[c] = Idle, UNCHANGED server, server # "down", notices' \subseteq Notices,
         \/ MayEnsure(w) /\ EnsureKnown(w) /\ UNCHANGED call
         \/ MayEnsure(w) /\ EnsureFails(w) /\ UNCHANGED call
         \/ MayEnsure(w) /\ EnsureCreates(w, c, of)
         \/ MayStop(w) /\ BeginStop(w, c)
  PROVE  Orderly'
  <1>1. PartShapes' /\ PartsElsewhere(w)
    BY OrchestratorShapes, OrchestratorElsewhere DEF Orderly
  <1>2. UNCHANGED call \/ \E k \in Calls : k.ws = w /\ call' = [call EXCEPT ![c] = k]
    <2>1. CASE EnsureCreates(w, c, of)
      BY <2>1 DEF EnsureCreates, Awaits, Calls
    <2>2. CASE BeginStop(w, c)
      <3>1. entry[w] \in 0..MaxStores
        BY DEF Orderly, Shapes
      <3> QED BY <2>2, <3>1 DEF BeginStop, Awaits, Calls
    <2> QED BY <2>1, <2>2
  <1>3. call' \in [Callers -> Calls]
    BY <1>2 DEF Orderly, Shapes
  <1>4. UNCHANGED call \/ OneCall(w)
    BY <1>2 DEF OneCall
  <1>5. Sound(w)'
    <2>1. CASE MayEnsure(w) /\ EnsureKnown(w) /\ UNCHANGED call
      BY <2>1, KnownIsSound
    <2>2. CASE MayEnsure(w) /\ EnsureFails(w) /\ UNCHANGED call
      <3>1. UNCHANGED <<metadata, storeVars, call>>
        BY <2>2 DEF EnsureFails, SubscribeFails, storeVars, reconnection
      <3> QED BY <3>1, UntouchedIsSound
    <2>3. CASE MayEnsure(w) /\ EnsureCreates(w, c, of)
      BY <2>3, CreatesIsSound
    <2>4. CASE MayStop(w) /\ BeginStop(w, c)
      BY <2>4, BeginStopIsSound
    <2> QED BY <2>1, <2>2, <2>3, <2>4
  <1> QED BY <1>1, <1>3, <1>4, <1>5, AllSound, OrderlyStep

LEMMA ArrivesStep ==
  ASSUME Orderly, Apart, NEW n \in notices, NEW c \in Requests, Arrives(n, c)
  PROVE  Orderly'
  <1>1. n \in Notices /\ n.ws \in Workspaces /\ c \in Callers
    BY DEF Orderly, Shapes, Notices, Callers
  <1>2. UNCHANGED server /\ server # "down" /\ call[c] = Idle
    BY DEF Arrives
  <1>3. notices' \subseteq Notices
    BY <1>1, RetriedAreNotices DEF Arrives, Orderly, Shapes
  <1>4. \E of \in Notices \cup {Idle} :
          \/ MayEnsure(n.ws) /\ EnsureKnown(n.ws) /\ UNCHANGED call
          \/ MayEnsure(n.ws) /\ EnsureFails(n.ws) /\ UNCHANGED call
          \/ MayEnsure(n.ws) /\ EnsureCreates(n.ws, c, of)
          \/ MayStop(n.ws) /\ BeginStop(n.ws, c)
    BY <1>1 DEF Arrives
  <1> QED BY <1>1, <1>2, <1>3, <1>4, CallerStep

LEMMA TreatStep ==
  ASSUME Orderly, Apart, NEW l \in Loops, NEW w \in Workspaces, Treat(l, w)
  PROVE  Orderly'
  <1>1. l \in Callers /\ UNCHANGED <<server, notices>> /\ call[l] = Idle
    BY DEF Treat, Callers, authVars
  <1>2. server # "down"
    <2>1. w \in work[l].add \/ w \in work[l].remove
      BY DEF Treat
    <2>2. work # NoneToDo
      BY <2>1 DEF NoneToDo, NoWork
    <2> QED BY <2>2 DEF Orderly, DownIsBlank
  <1>3. \/ MayEnsure(w) /\ EnsureKnown(w) /\ UNCHANGED call
        \/ MayEnsure(w) /\ EnsureFails(w) /\ UNCHANGED call
        \/ MayEnsure(w) /\ EnsureCreates(w, l, Idle)
        \/ MayStop(w) /\ BeginStop(w, l)
    BY DEF Treat
  <1>4. notices' \subseteq Notices
    BY <1>1 DEF Orderly, Shapes
  <1> QED BY <1>1, <1>2, <1>3, <1>4, CallerStep

\* The end of a call.
LEMMA EndsStep ==
  ASSUME Orderly, NEW c \in Callers, EnsureEnds(c) \/ StopEnds(c) \/ CreateFails(c)
  PROVE  Orderly'
  <1> PICK w : w = call[c].ws
    OBVIOUS
  <1>1. call[c] # Idle /\ w \in Workspaces
    BY CallHasWorkspace DEF Orderly, EnsureEnds, StopEnds, CreateFails
  <1>2. server # "down"
    <2>1. call # NoCalls
      BY <1>1 DEF NoCalls
    <2> QED BY <2>1 DEF Orderly, DownIsBlank
  <1>3. call' = [call EXCEPT ![c] = Idle] /\ UNCHANGED server
    BY DEF EnsureEnds, StopEnds, CreateFails, Returns
  <1>4. OneCall(w) /\ call' \in [Callers -> Calls]
    BY <1>3, CallShapes DEF OneCall, Calls, Orderly
  <1>5. Sound(w)'
    BY <1>1, EnsureEndsIsSound, StopEndsIsSound, CreateFailsIsSound
  <1>6. PartsElsewhere(w) /\ PartShapes'
    <2>1. CASE EnsureEnds(c)
      BY <2>1, <1>1, StoreAddedElsewhere, StoreAddedShapes DEF EnsureEnds, Orderly
    <2>2. CASE StopEnds(c)
      BY <2>2, <1>1, StoreRemovedElsewhere, StoreRemovedShapes DEF StopEnds, Orderly
    <2>3. CASE CreateFails(c)
      BY <2>3 DEF CreateFails, storeVars, reconnection, PartsElsewhere, PartShapes, Orderly,
                  Shapes
    <2> QED BY <2>1, <2>2, <2>3
  <1>7. notices' \subseteq Notices
    <2>1. CASE CreateFails(c)
      <3>1. call[c].of \in Notices \cup {Idle}
        BY <2>1, CallHasWorkspace DEF CreateFails, Orderly
      <3> QED BY <3>1, <2>1, RetriedAreNotices DEF CreateFails, Orderly, Shapes
    <2> QED BY <2>1 DEF EnsureEnds, StopEnds, authVars, Orderly, Shapes
  <1> QED BY <1>1, <1>2, <1>3, <1>4, <1>5, <1>6, <1>7, AllSound, OrderlyStep

LEMMA ProcessorStep ==
  ASSUME Orderly, Apart, NEW w \in Workspaces, FinishStop(w) \/ Reconnects(w)
  PROVE  Orderly'
  <1>1. UNCHANGED <<server, notices, call>>
    BY DEF FinishStop, Reconnects, ReconnectBegins, Reconnected, ReconnectFails, Rejoined,
           authVars
  <1>2. server # "down"
    BY DEF FinishStop, Reconnects, ReconnectBegins, Reconnected, ReconnectFails, Rejoined,
       Reconnecting, Orderly, DownIsBlank, Each
  <1>3. Sound(w)'
    BY FinishStopIsSound, ReconnectsIsSound
  <1>4. PartsElsewhere(w) /\ PartShapes'
    BY ProcessorElsewhere, ProcessorShapes DEF Orderly
  <1>5. call' \in [Callers -> Calls] /\ notices' \subseteq Notices
    BY <1>1 DEF Orderly, Shapes
  <1> QED BY <1>1, <1>2, <1>3, <1>4, <1>5, AllSound, OrderlyStep

\* What happens in the auth worker, and with the lists of the reconciler.
LEMMA QuietStep ==
  ASSUME Orderly, UNCHANGED <<metadata, storeVars, call>>, notices' \subseteq Notices,
         \/ UNCHANGED <<server, work, listing>>
         \/ server # "down" /\ server' # "down"
  PROVE  Orderly'
  <1>1. \A w \in Workspaces : Sound(w)'
    BY UntouchedIsSound
  <1>2. Shapes'
    BY DEF Orderly, Shapes, storeVars, reconnection
  <1>3. DownIsBlank'
    BY DEF Orderly, DownIsBlank, storeVars, reconnection
  <1> QED BY <1>1, <1>2, <1>3 DEF Orderly

\* The process starts: nothing is under way, the stores of STORE_IDS are heard.
LEMMA BootStep ==
  ASSUME Orderly, Boot
  PROVE  Orderly'
  <1>1. /\ cleanups = Each(0) /\ swap = Each("none") /\ rejoin = Each(0) /\ call = NoCalls
        /\ UNCHANGED <<cleanups, reconnection, orphan, call, notices>> /\ server' # "down"
    BY DEF Boot, reconnection, Orderly, DownIsBlank, authVars
  <1>2. PICK S \in SUBSET Configured :
          /\ entry' = [w \in Workspaces |-> IF w \in S THEN 1 ELSE 0]
          /\ open' = [w \in Workspaces |-> IF w \in S THEN {1} ELSE {}]
          /\ state' = [w \in Workspaces |-> [on |-> IF w \in S THEN 1 ELSE 0, stopping |-> FALSE]]
          /\ metadata' = [w \in Workspaces |-> IF w \in S THEN "monitoring" ELSE "none"]
    BY DEF Boot
  <1>3. 0 \in 0..MaxStores /\ 1 \in 0..MaxStores /\ 1 \in Stores
    BY MonitoringBounds DEF Stores
  <1>4. Shapes'
    <2>1. state' \in [Workspaces -> States]
      BY <1>2, <1>3 DEF States
    <2>2. open' \in [Workspaces -> SUBSET Stores]
      BY <1>2, <1>3
    <2>3. entry' \in [Workspaces -> 0..MaxStores]
          /\ metadata' \in [Workspaces -> {"none", "monitoring", "stopped"}]
      BY <1>2, <1>3
    <2> QED BY <1>1, <2>1, <2>2, <2>3 DEF reconnection, Orderly, Shapes
  <1>5. ASSUME NEW w \in Workspaces
        PROVE  Sound(w)'
    <2>1. StopsOn(w)' = {} /\ cleanups'[w] = 0 /\ rejoin'[w] = 0 /\ swap'[w] = "none"
      BY <1>1 DEF StopsOn, CallsOn, NoCalls, Each, reconnection
    <2>2. CASE w \in S
      <3>1. /\ entry'[w] = 1 /\ open'[w] = {1}
            /\ state'[w] = [on |-> 1, stopping |-> FALSE]
        BY <1>2, <2>2
      <3>2. Subscribed(w)' /\ state'[w] # NoState
        BY <3>1 DEF Subscribed, NoState
      <3> QED BY <2>1, <3>1, <3>2
           DEF Sound, StopIsAlone, CleanupsOk, RejoinOk, StateOk, StoppedOk, RestOk, EntryOk,
               Reconnecting
    <2>3. CASE w \notin S
      <3>1. entry'[w] = 0 /\ state'[w] = NoState /\ metadata'[w] # "monitoring"
        BY <1>2, <2>3 DEF NoState
      <3> QED BY <2>1, <3>1
           DEF Sound, StopIsAlone, CleanupsOk, RejoinOk, StateOk, StoppedOk, RestOk, EntryOk,
               Reconnecting
    <2> QED BY <2>2, <2>3
  <1> QED BY <1>1, <1>4, <1>5 DEF reconnection, Orderly, DownIsBlank

\* A server that has forgotten everything is in order.
Blank ==
  /\ metadata = Each("none") /\ entry = Each(0) /\ open = Each({}) /\ state = Each(NoState)
  /\ cleanups = Each(0) /\ swap = Each("none") /\ rejoin = Each(0)
  /\ failed = {} /\ crossed = {} /\ orphan = Each({})
  /\ call = NoCalls /\ work = NoneToDo /\ listing = Unlisted

LEMMA BlankIsOrderly ==
  ASSUME Blank, notices \subseteq Notices
  PROVE  Orderly
  <1>1. Shapes
    <2>1. 0 \in 0..MaxStores /\ 0 \in Nat
      BY MonitoringBounds
    <2>2. call \in [Callers -> Calls]
      BY DEF Blank, NoCalls, Calls
    <2>3. state \in [Workspaces -> States]
      BY StateShapes DEF Blank, Each
    <2> QED BY <2>1, <2>2, <2>3 DEF Shapes, Blank, Each, Swaps
  <1>2. ASSUME NEW w \in Workspaces
        PROVE  Sound(w)
    <2>1. /\ StopsOn(w) = {} /\ cleanups[w] = 0 /\ rejoin[w] = 0 /\ entry[w] = 0
          /\ state[w] = NoState /\ metadata[w] # "monitoring" /\ swap[w] = "none"
      BY DEF Blank, Each, StopsOn, CallsOn, NoCalls
    <2> QED BY <2>1 DEF Sound, StopIsAlone, CleanupsOk, RejoinOk, StateOk, StoppedOk, RestOk,
                        EntryOk, Reconnecting
  <1> QED BY <1>1, <1>2 DEF Orderly, DownIsBlank, Blank

LEMMA ExitsStep ==
  ASSUME Orderly, Exits
  PROVE  Orderly'
  <1>1. Blank' /\ (notices \subseteq Notices)'
    BY DEF Exits, Blank, authVars, Orderly, Shapes
  <1> QED BY <1>1, BlankIsOrderly, PTL

-----------------------------------------------------------------------------
(* The invariant and the property *)

LEMMA OrderlyInitially ==
  ASSUME Init
  PROVE  Orderly
  <1>1. Blank /\ notices \subseteq Notices
    BY DEF Init, Blank
  <1> QED BY <1>1, BlankIsOrderly

LEMMA OrderlyStays ==
  ASSUME Orderly, Apart, [Next]_vars
  PROVE  Orderly'
  <1> USE DEF Orderly
  <1>1. ASSUME NEW w \in Workspaces,
               Created(w) \/ Deleted(w) \/ FinishStop(w) \/ Reconnects(w)
        PROVE  Orderly'
    <2>1. MaxAttempts \in 1..MaxAttempts
      BY MonitoringBounds
    <2>2. CASE Created(w)
      BY <2>1, <2>2, QuietStep DEF Created, Notices, Shapes
    <2>3. CASE Deleted(w)
      BY <2>1, <2>3, QuietStep DEF Deleted, Notices, Shapes
    <2> QED BY <1>1, <2>2, <2>3, ProcessorStep
  <1>2. ASSUME NEW n \in notices, Lost(n)
        PROVE  Orderly'
    <2>1. notices' \subseteq Notices
      BY <1>2, RetriedAreNotices DEF Lost, Shapes
    <2> QED BY <1>2, <2>1, QuietStep DEF Lost
  <1>3. ASSUME NEW n \in notices, NEW c \in Requests, Arrives(n, c)
        PROVE  Orderly'
    BY <1>3, ArrivesStep
  <1>4. CASE Reconcile
    BY <1>4, QuietStep DEF Reconcile, authVars, Shapes
  <1>5. CASE DirectoryAnswers \/ Compare \/ ListFails \/ ReconcileEnds
    <2>1. UNCHANGED <<metadata, storeVars, call, server, notices>>
      BY <1>5 DEF DirectoryAnswers, Compare, ListFails, ReconcileEnds, authVars
    <2>2. server # "down"
      BY <1>5 DEF DirectoryAnswers, Compare, ListFails, ReconcileEnds, DownIsBlank, Unlisted
    <2> QED BY <2>1, <2>2, QuietStep DEF Shapes
  <1>6. ASSUME NEW l \in Loops, NEW w \in Workspaces, Treat(l, w)
        PROVE  Orderly'
    BY <1>6, TreatStep
  <1>7. ASSUME NEW c \in Callers, EnsureEnds(c) \/ CreateFails(c) \/ StopEnds(c)
        PROVE  Orderly'
    BY <1>7, EndsStep
  <1>8. CASE Boot
    BY <1>8, BootStep
  <1>9. CASE Shutdown
    BY <1>9, QuietStep DEF Shutdown, authVars, Shapes
  <1>10. CASE Exit \/ Crash
    BY <1>10, ExitsStep DEF Exit, Crash
  <1>11. CASE UNCHANGED vars
    BY <1>11, QuietStep DEF vars, authVars, storeVars, reconnection, Shapes
  <1> QED BY <1>1, <1>2, <1>3, <1>4, <1>5, <1>6, <1>7, <1>8, <1>9, <1>10, <1>11 DEF Next

\* A workspace the orchestrator lists as monitored is heard: whatever webhooks,
\* retries, lost answers, failing creations and subscriptions, reconnections, restarts
\* and runs of the reconciler led there, for any number of them, and if reconnections
\* meet its stops.  Excepted are workspaces whose reconnection brought no store or no
\* subscription (failed).  Assumed is that no call for a workspace meets a stop of it
\* (Apart), which the code does not ensure.
THEOREM MonitoredAreHeard ==
  ASSUME Apart
  PROVE  Spec => []MonitoredIsHeard
  <1>1. Init => Orderly
    BY OrderlyInitially
  <1>2. Orderly /\ [Next]_vars => Orderly'
    BY OrderlyStays
  <1>3. Orderly => MonitoredIsHeard
    BY SoundIsHeard
  <1> QED BY <1>1, <1>2, <1>3, PTL DEF Spec

-----------------------------------------------------------------------------
(* Type correctness, with calls that meet as well *)

\* What the shapes leave out.  A shutdown is begun only while a restart is left, so
\* that its exit can be counted.
Rest ==
  /\ stage \in [Workspaces -> {"new", "present", "deleted"}]
  /\ server \in {"down", "up", "stopping"}
  /\ restarts \in 0..MaxRestarts
  /\ server = "stopping" => restarts < MaxRestarts
  /\ work \in [Loops -> [add: SUBSET Workspaces, remove: SUBSET Workspaces]]
  /\ listing \in [at: {"idle", "asked", "answered", "working"}, ids: SUBSET Workspaces]

LEMMA CallerShapes ==
  ASSUME Shapes, NEW w \in Workspaces, NEW c \in Callers, NEW of \in Notices \cup {Idle},
         \/ EnsureKnown(w) /\ UNCHANGED call
         \/ EnsureFails(w) /\ UNCHANGED call
         \/ EnsureCreates(w, c, of)
         \/ BeginStop(w, c)
  PROVE  PartShapes' /\ call' \in [Callers -> Calls]
  <1>1. UNCHANGED call \/ \E k \in Calls : call' = [call EXCEPT ![c] = k]
    <2>1. CASE EnsureCreates(w, c, of)
      BY <2>1 DEF EnsureCreates, Awaits, Calls
    <2>2. CASE BeginStop(w, c)
      <3>1. entry[w] \in 0..MaxStores
        BY DEF Shapes
      <3> QED BY <2>2, <3>1 DEF BeginStop, Awaits, Calls
    <2> QED BY <2>1, <2>2
  <1> QED BY <1>1, CallShapes, OrchestratorShapes DEF Shapes

\* A step that leaves the parts and the calls alone.
LEMMA QuietShapes ==
  ASSUME Shapes, UNCHANGED <<metadata, storeVars, call>>, notices' \subseteq Notices
  PROVE  Shapes'
  BY DEF Shapes, storeVars, reconnection

LEMMA NoticeShapes ==
  ASSUME Shapes, NEW w \in Workspaces, Created(w) \/ Deleted(w)
  PROVE  Shapes'
  <1>1. MaxAttempts \in 1..MaxAttempts
    BY MonitoringBounds
  <1> QED BY <1>1, QuietShapes DEF Created, Deleted, Notices, Shapes

LEMMA ArrivesShapes ==
  ASSUME Shapes, NEW n \in notices, NEW c \in Requests, Arrives(n, c)
  PROVE  Shapes'
  <1>1. n \in Notices /\ n.ws \in Workspaces /\ c \in Callers
    BY DEF Shapes, Notices, Callers
  <1>2. notices' \subseteq Notices
    BY <1>1, RetriedAreNotices DEF Arrives, Shapes
  <1>3. \E of \in Notices \cup {Idle} :
          \/ EnsureKnown(n.ws) /\ UNCHANGED call
          \/ EnsureFails(n.ws) /\ UNCHANGED call
          \/ EnsureCreates(n.ws, c, of)
          \/ BeginStop(n.ws, c)
    BY <1>1 DEF Arrives
  <1>4. PartShapes' /\ call' \in [Callers -> Calls]
    BY <1>1, <1>3, CallerShapes
  <1> QED BY <1>2, <1>4 DEF PartShapes, Shapes

LEMMA TreatShapes ==
  ASSUME Shapes, NEW l \in Loops, NEW w \in Workspaces, Treat(l, w)
  PROVE  Shapes'
  <1>1. l \in Callers /\ UNCHANGED notices
    BY DEF Treat, Callers, authVars
  <1>2. \/ EnsureKnown(w) /\ UNCHANGED call
        \/ EnsureFails(w) /\ UNCHANGED call
        \/ EnsureCreates(w, l, Idle)
        \/ BeginStop(w, l)
    BY DEF Treat
  <1>3. PartShapes' /\ call' \in [Callers -> Calls]
    BY <1>1, <1>2, CallerShapes
  <1> QED BY <1>1, <1>3 DEF PartShapes, Shapes

LEMMA EndShapes ==
  ASSUME Shapes, NEW c \in Callers, EnsureEnds(c) \/ StopEnds(c) \/ CreateFails(c)
  PROVE  Shapes'
  <1>1. call[c].ws \in Workspaces
    BY CallHasWorkspace DEF EnsureEnds, StopEnds, CreateFails
  <1>2. call' \in [Callers -> Calls]
    BY CallShapes DEF EnsureEnds, StopEnds, CreateFails, Returns, Calls
  <1>3. PartShapes'
    <2>1. CASE EnsureEnds(c)
      BY <2>1, <1>1, StoreAddedShapes DEF EnsureEnds
    <2>2. CASE StopEnds(c)
      BY <2>2, StoreRemovedShapes DEF StopEnds
    <2>3. CASE CreateFails(c)
      BY <2>3 DEF CreateFails, storeVars, reconnection, PartShapes, Shapes
    <2> QED BY <2>1, <2>2, <2>3
  <1>4. notices' \subseteq Notices
    <2>1. CASE CreateFails(c)
      <3>1. call[c].of \in Notices \cup {Idle}
        BY <2>1, CallHasWorkspace DEF CreateFails
      <3> QED BY <3>1, <2>1, RetriedAreNotices DEF CreateFails, Shapes
    <2> QED BY <2>1 DEF EnsureEnds, StopEnds, authVars, Shapes
  <1> QED BY <1>2, <1>3, <1>4 DEF PartShapes, Shapes

LEMMA BootShapes ==
  ASSUME Shapes, Boot
  PROVE  Shapes'
  <1>1. UNCHANGED <<cleanups, reconnection, orphan, call, notices>>
    BY DEF Boot, authVars
  <1>2. PICK S \in SUBSET Configured :
          /\ entry' = [w \in Workspaces |-> IF w \in S THEN 1 ELSE 0]
          /\ open' = [w \in Workspaces |-> IF w \in S THEN {1} ELSE {}]
          /\ state' = [w \in Workspaces |-> [on |-> IF w \in S THEN 1 ELSE 0, stopping |-> FALSE]]
          /\ metadata' = [w \in Workspaces |-> IF w \in S THEN "monitoring" ELSE "none"]
    BY DEF Boot
  <1>3. 0 \in 0..MaxStores /\ 1 \in 0..MaxStores /\ 1 \in Stores
    BY MonitoringBounds DEF Stores
  <1>4. state' \in [Workspaces -> States]
    BY <1>2, <1>3 DEF States
  <1>5. /\ open' \in [Workspaces -> SUBSET Stores]
        /\ entry' \in [Workspaces -> 0..MaxStores]
        /\ metadata' \in [Workspaces -> {"none", "monitoring", "stopped"}]
    BY <1>2, <1>3
  <1> QED BY <1>1, <1>4, <1>5 DEF reconnection, Shapes

LEMMA ExitsShapes ==
  ASSUME Shapes, Exits
  PROVE  Shapes'
  <1>1. Blank' /\ (notices \subseteq Notices)'
    BY DEF Exits, Blank, authVars, Shapes
  <1> QED BY <1>1, BlankIsOrderly, PTL DEF Orderly

LEMMA ShapesStay ==
  ASSUME Shapes, [Next]_vars
  PROVE  Shapes'
  <1>1. ASSUME NEW w \in Workspaces,
               Created(w) \/ Deleted(w) \/ FinishStop(w) \/ Reconnects(w)
        PROVE  Shapes'
    <2>1. CASE FinishStop(w) \/ Reconnects(w)
      <3>1. UNCHANGED <<call, notices>>
        BY <2>1 DEF FinishStop, Reconnects, ReconnectBegins, Reconnected, ReconnectFails,
           Rejoined, authVars
      <3> QED BY <2>1, <3>1, ProcessorShapes DEF PartShapes, Shapes
    <2> QED BY <1>1, <2>1, NoticeShapes
  <1>2. ASSUME NEW n \in notices, Lost(n)
        PROVE  Shapes'
    <2>1. notices' \subseteq Notices
      BY <1>2, RetriedAreNotices DEF Lost, Shapes
    <2> QED BY <1>2, <2>1, QuietShapes DEF Lost
  <1>3. CASE Reconcile \/ DirectoryAnswers \/ Compare \/ ListFails \/ ReconcileEnds \/ Shutdown
             \/ UNCHANGED vars
    <2>1. UNCHANGED <<metadata, storeVars, call, notices>>
      BY <1>3 DEF Reconcile, DirectoryAnswers, Compare, ListFails, ReconcileEnds, Shutdown,
         authVars, vars
    <2> QED BY <2>1, QuietShapes DEF Shapes
  <1>4. CASE Exit \/ Crash
    BY <1>4, ExitsShapes DEF Exit, Crash
  <1> QED BY <1>1, <1>2, <1>3, <1>4, ArrivesShapes, TreatShapes, EndShapes, BootShapes DEF Next

\* The steps that leave the rest alone: the processor, the webhooks, the calls.
LEMMA RestKept ==
  ASSUME Rest, UNCHANGED <<stage, server, restarts, work, listing>>
  PROVE  Rest'
  BY DEF Rest

LEMMA RestStays ==
  ASSUME Shapes, Rest, [Next]_vars
  PROVE  Rest'
  <1>1. ASSUME NEW w \in Workspaces,
               Created(w) \/ Deleted(w) \/ FinishStop(w) \/ Reconnects(w)
        PROVE  Rest'
    <2>1. CASE Created(w) \/ Deleted(w)
      <3>1. stage' \in [Workspaces -> {"new", "present", "deleted"}]
        BY <2>1 DEF Created, Deleted, Rest
      <3> QED BY <2>1, <3>1 DEF Created, Deleted, Rest
    <2> QED BY <1>1, <2>1, RestKept DEF FinishStop, Reconnects, ReconnectBegins, Reconnected,
         ReconnectFails, Rejoined, authVars
  <1>2. ASSUME NEW n \in notices, Lost(n) \/ \E c \in Requests : Arrives(n, c)
        PROVE  Rest'
    BY <1>2, RestKept DEF Lost, Arrives
  <1>3. CASE Reconcile \/ DirectoryAnswers \/ ListFails \/ ReconcileEnds
    <2>1. UNCHANGED <<stage, server, restarts, work>>
      BY <1>3 DEF Reconcile, DirectoryAnswers, ListFails, ReconcileEnds, authVars
    <2>2. listing' \in [at: {"idle", "asked", "answered", "working"}, ids: SUBSET Workspaces]
      BY <1>3 DEF Reconcile, DirectoryAnswers, ListFails, ReconcileEnds, Unlisted, Present
    <2> QED BY <2>1, <2>2 DEF Rest
  <1>4. CASE Compare
    <2>1. PICK d \in [add: SUBSET Workspaces, remove: SUBSET Workspaces] :
            work' = [work EXCEPT !["reconcile"] = d]
      <3>1. \A ids \in SUBSET Workspaces :
              Differences(ids) \in [add: SUBSET Workspaces, remove: SUBSET Workspaces]
        BY DEF Differences, Monitored
      <3>2. listing.ids \in SUBSET Workspaces /\ Present \in SUBSET Workspaces
        BY DEF Rest, Present
      <3> QED BY <1>4, <3>1, <3>2 DEF Compare
    <2>2. work' \in [Loops -> [add: SUBSET Workspaces, remove: SUBSET Workspaces]]
      BY <2>1 DEF Rest
    <2>3. /\ listing' \in [at: {"idle", "asked", "answered", "working"}, ids: SUBSET Workspaces]
          /\ UNCHANGED <<stage, server, restarts>>
      BY <1>4 DEF Compare, authVars
    <2> QED BY <2>2, <2>3 DEF Rest
  <1>5. ASSUME NEW l \in Loops, NEW w \in Workspaces, Treat(l, w)
        PROVE  Rest'
    <2>1. [add |-> work[l].add \ {w}, remove |-> work[l].remove \ {w}]
            \in [add: SUBSET Workspaces, remove: SUBSET Workspaces]
      BY DEF Rest
    <2>2. work' \in [Loops -> [add: SUBSET Workspaces, remove: SUBSET Workspaces]]
      BY <1>5, <2>1 DEF Treat, Treated, Rest
    <2> QED BY <1>5, <2>2 DEF Treat, authVars, Rest
  <1>6. ASSUME NEW c \in Callers, EnsureEnds(c) \/ CreateFails(c) \/ StopEnds(c)
        PROVE  Rest'
    BY <1>6, RestKept DEF EnsureEnds, CreateFails, StopEnds, authVars
  <1>7. CASE Boot
    BY <1>7 DEF Boot, authVars, Rest
  <1>8. CASE Shutdown
    <2>1. [add |-> {}, remove |-> Monitored] \in [add: SUBSET Workspaces, remove: SUBSET Workspaces]
      BY DEF Monitored
    <2>2. work' \in [Loops -> [add: SUBSET Workspaces, remove: SUBSET Workspaces]]
      BY <1>8, <2>1 DEF Shutdown, Rest
    <2> QED BY <1>8, <2>2 DEF Shutdown, authVars, Rest
  <1>9. CASE Exit \/ Crash
    <2>1. restarts < MaxRestarts /\ Exits
      BY <1>9 DEF Exit, Crash, Rest
    <2>2. restarts' \in 0..MaxRestarts
      BY <2>1, MonitoringBounds DEF Exits, Rest
    <2>3. /\ work' \in [Loops -> [add: SUBSET Workspaces, remove: SUBSET Workspaces]]
          /\ listing' \in [at: {"idle", "asked", "answered", "working"}, ids: SUBSET Workspaces]
          /\ server' = "down" /\ UNCHANGED stage
      BY <2>1 DEF Exits, NoneToDo, NoWork, Unlisted, authVars
    <2> QED BY <2>2, <2>3 DEF Rest
  <1>10. CASE UNCHANGED vars
    BY <1>10, RestKept DEF vars, authVars
  <1> QED BY <1>1, <1>2, <1>3, <1>4, <1>5, <1>6, <1>7, <1>8, <1>9, <1>10 DEF Next

\* Every part keeps its type, for any number of workspaces, callers and restarts and with
\* calls that meet as well: no notice is tried more often than the notifier may, and a
\* call has what the action that ends it reads.
THEOREM TypeCorrect == Spec => []TypeOK
  <1>1. Init => Shapes /\ Rest
    <2> SUFFICES ASSUME Init PROVE Shapes /\ Rest
      OBVIOUS
    <2>1. Shapes
      BY OrderlyInitially DEF Orderly
    <2>2. Rest
      BY MonitoringBounds DEF Init, Rest, NoneToDo, NoWork, Unlisted
    <2> QED BY <2>1, <2>2
  <1>2. Shapes /\ Rest /\ [Next]_vars => (Shapes /\ Rest)'
    BY ShapesStay, RestStays
  <1>3. Shapes /\ Rest => TypeOK
    BY DEF Shapes, Rest, TypeOK
  <1> QED BY <1>1, <1>2, <1>3, PTL DEF Spec

=============================================================================

------------------------------- MODULE AgentRuns -------------------------------
(***************************************************************************)
(* The agent runs of one store: handleUserMessage and processQueuedMessage *)
(* of EventProcessor from llmResponseStarted on, with runAgenticLoop, the  *)
(* cache of Pi sessions and the agent resources of the store.              *)
(*                                                                         *)
(* MessagePipeline takes a run for one step that ends; this module opens   *)
(* it, and takes from MessagePipeline what is shown there: a message is    *)
(* run at most once, and a conversation has one run at a time in each      *)
(* StoreProcessingState.  These states are the generations 1..gens.        *)
(*                                                                         *)
(* A session is named by the message whose run creates it.  piSessions of  *)
(* a generation is the sequence of its entries by lastAccessedAt.          *)
(*                                                                         *)
(* An action is what runs between two awaits.  The loops of an eviction    *)
(* await session.dispose(); when that takes no time ("dispose" is not in   *)
(* Faults) they end before any callback or answer (guard AwaitsDone).      *)
(***************************************************************************)
EXTENDS Integers, Sequences, FiniteSets, SequencesExt

CONSTANTS
  Messages,
  Conversations,
  ConvOf,       \* the conversation of a message
  MaxGen,       \* bound: StoreProcessingState objects ever created
  MaxSessions,  \* maxPiSessionsPerStore (0: unbounded)
  MaxActive,    \* active conversations per state
  Faults        \* what the environment may do, see FaultKinds

\* A commit throws, a session cannot be created, monitoring stops, the store
\* reconnects, session.dispose() takes its time.
FaultKinds == {"commit", "init", "stop", "reconnect", "dispose"}

ASSUME RunAssumption ==
  /\ ConvOf \in [Messages -> Conversations]
  /\ {MaxGen, MaxSessions, MaxActive} \subseteq Nat
  /\ Faults \subseteq FaultKinds

VARIABLES
  gens,      \* generations created so far
  current,   \* the generation in storeStates, 0 when there is none
  stopping,  \* generations marked as stopping
  closing,   \* cleanups under way: <<generation, "stop" or "reconnect">>
  store,     \* the entry of the StoreManager: see StoreStates
  cache,     \* piSessions of each generation, least recently used first
  live,      \* sessions created on which dispose() was not called
  ready,     \* piAgentResourcesByStore has the resources
  promise,   \* piAgentResourceInitPromises: the run that started the one there
  run        \* the run of each message

monitorVars == <<gens, current, stopping, closing, store>>
sessionVars == <<cache, live>>
resources   == <<ready, promise>>
vars == <<monitorVars, sessionVars, resources, run>>

Gens == 1..MaxGen

\* A run looks for idle sessions ("ttl"), makes room ("lru"), makes the directory
\* of its session, waits for the resources, creates the session and prompts it; it
\* ends, is aborted by an exception of its own error handler, or has found no store.
Phases   == {"waiting", "ttl", "lru", "directory", "resources", "creating", "failing",
             "prompting", "ended", "aborted", "unserved"}
Evicting == {"ttl", "lru"}
Over     == {"ended", "aborted", "unserved"}

\* removeStore has begun with a store that is leaving, and deletes it from the map at
\* its end.
StoreStates == {"absent", "there", "leaving"}

Entries == [conv: Conversations, session: Messages]

RunRecords ==
  [gen: Gens \cup {0}, phase: Phases,
   victims: Seq(Entries),        \* entries an eviction loop has still to look at
   spared: SUBSET Conversations, \* not among the candidates of the loop that makes room
   busy: BOOLEAN,                \* it awaits dispose() of the first one
   awaits: SUBSET Messages,      \* the promise the run waits for
   session: SUBSET Messages,     \* the session it prompts
   error: BOOLEAN,               \* the run has failed
   told: BOOLEAN,                \* an llmResponseReceived was committed
   completed: Nat]               \* llmResponseCompleted committed

ConvsIn(entries) == {e.conv : e \in ToSet(entries)}

TypeOK ==
  /\ gens \in 0..MaxGen /\ current \in 0..gens
  /\ stopping \subseteq 1..gens
  /\ closing \subseteq stopping \X {"stop", "reconnect"}
  /\ store \in StoreStates
  /\ cache \in [Gens -> Seq(Entries)]
  /\ \A g \in Gens : \A i, j \in DOMAIN cache[g] :
       cache[g][i].conv = cache[g][j].conv => i = j
  /\ live \subseteq Messages
  /\ ready \in BOOLEAN
  /\ promise \subseteq Messages /\ Cardinality(promise) <= 1
  /\ run \in [Messages -> RunRecords]

NewRun == [gen |-> 0, phase |-> "waiting", victims |-> <<>>, spared |-> {},
           busy |-> FALSE, awaits |-> {}, session |-> {}, error |-> FALSE,
           told |-> FALSE, completed |-> 0]

Init ==
  /\ gens = 0 /\ current = 0 /\ stopping = {} /\ closing = {} /\ store = "absent"
  /\ cache = [g \in Gens |-> <<>>] /\ live = {}
  /\ ready = FALSE /\ promise = {}
  /\ run = [m \in Messages |-> NewRun]

-----------------------------------------------------------------------------
InPhases(P) == {m \in Messages : run[m].phase \in P}

\* activeConversations
Active(g) == {ConvOf[m] : m \in {n \in Messages : run[n].gen = g
                                                  /\ run[n].phase \notin Over}}

AwaitsDone ==
  \/ "dispose" \in Faults
  \/ InPhases(Evicting \cup {"failing"}) = {} /\ \A c \in closing : c[2] = "stop"

Stopping(m) == run[m].gen \in stopping

Goes(m, p) == run' = [run EXCEPT ![m].phase = p]

\* piSessions.delete
Without(entries, c) ==
  IF c \in ConvsIn(entries)
  THEN RemoveAt(entries, CHOOSE i \in DOMAIN entries : entries[i].conv = c)
  ELSE entries

EntryOf(g, c) == {e \in ToSet(cache[g]) : e.conv = c}

\* mutant: the entry is given its new place and keeps its old one
TouchAgain(g, e) == cache' = [cache EXCEPT ![g] = Append(@, e)]

\* lastAccessedAt of the entry is now, or the entry is new.
Touch(g, e) == cache' = [cache EXCEPT ![g] = Append(Without(@, e.conv), e)]

-----------------------------------------------------------------------------
(* A run begins, and finds or makes room for its session *)

Starting(g, m) ==
  /\ AwaitsDone
  /\ run[m].phase = "waiting"
  /\ g <= gens
  /\ ConvOf[m] \notin Active(g) /\ Cardinality(Active(g)) < MaxActive

\* The store is gone: runAgenticLoop fails, and neither it nor its callers commit anything.
StartStoreless(g, m) ==
  /\ Starting(g, m)
  /\ store = "absent"
  /\ run' = [run EXCEPT ![m].gen = g, ![m].phase = "unserved", ![m].error = TRUE]
  /\ UNCHANGED <<monitorVars, sessionVars, resources>>

StartingServed(g, m) == Starting(g, m) /\ store # "absent"

Begins(g, m, p, victims) ==
  run' = [run EXCEPT ![m].gen = g, ![m].phase = p, ![m].victims = victims]

\* The message does not pass validation, or the conversation cannot be read.
StartRefused(g, m) ==
  /\ StartingServed(g, m)
  /\ Begins(g, m, "failing", <<>>)
  /\ UNCHANGED <<monitorVars, sessionVars, resources>>

\* The conversation has a session.
StartCached(g, m) ==
  /\ StartingServed(g, m)
  /\ \E e \in EntryOf(g, ConvOf[m]) :
       /\ Touch(g, e)
       /\ run' = [run EXCEPT ![m].gen = g, ![m].phase = "prompting",
                             ![m].session = {e.session}]
  /\ UNCHANGED <<monitorVars, live, resources>>

\* It has none: the entries not accessed for as long as the TTL are looked at first,
\* in the order of their last access.
StartWithoutSession(g, m) ==
  /\ StartingServed(g, m)
  /\ EntryOf(g, ConvOf[m]) = {}
  /\ \E k \in 0..Len(cache[g]) : Begins(g, m, "ttl", SubSeq(cache[g], 1, k))
  /\ UNCHANGED <<monitorVars, sessionVars, resources>>

\* mutant: only the session of the caller's conversation is preserved
PreservedForCaller(m, c) == c = ConvOf[m]

\* shouldPreservePiSession
Preserved(m, c) == c = ConvOf[m] \/ c \in Active(run[m].gen)

Victim(m) == Head(run[m].victims)
Full(g)   == MaxSessions > 0 /\ Len(cache[g]) >= MaxSessions

\* mutant: room for the new session is not made
RoomMadeLate(g) == Len(cache[g]) <= MaxSessions

RoomMade(g) == Len(cache[g]) <= MaxSessions - 1

\* The next entry of the loop is disposed: it is idle and nobody's, or room has to be made.
Doomed(m) ==
  /\ run[m].phase \in Evicting /\ ~run[m].busy /\ run[m].victims # <<>>
  /\ IF run[m].phase = "lru"
     THEN ~RoomMade(run[m].gen) /\ Victim(m).conv \notin run[m].spared
     ELSE ~Preserved(m, Victim(m).conv)

\* mutant: the entry is removed from the cache and its session is not disposed
DisposeNothing(m) ==
  /\ Doomed(m)
  /\ run' = [run EXCEPT ![m].busy = TRUE]
  /\ UNCHANGED <<monitorVars, sessionVars, resources>>

\* disposePiSessionEntry, up to the await.
Dispose(m) ==
  /\ Doomed(m)
  /\ live' = live \ {Victim(m).session}
  /\ run' = [run EXCEPT ![m].busy = TRUE]
  /\ UNCHANGED <<monitorVars, cache, resources>>

\* ... and its finally, also when dispose() rejects: whatever entry the
\* conversation has by now is removed.
DisposeEnds(m) ==
  /\ run[m].busy
  /\ cache' = [cache EXCEPT ![run[m].gen] = Without(@, Victim(m).conv)]
  /\ run' = [run EXCEPT ![m].busy = FALSE, ![m].victims = Tail(@)]
  /\ UNCHANGED <<monitorVars, live, resources>>

\* The next entry is left: it is in use, or there is room.
Spare(m) ==
  /\ run[m].phase \in Evicting /\ ~run[m].busy /\ run[m].victims # <<>>
  /\ ~Doomed(m)
  /\ run' = [run EXCEPT ![m].victims = Tail(@)]
  /\ UNCHANGED <<monitorVars, sessionVars, resources>>

\* The loop over idle sessions is over: the candidates by last access follow.
MakeRoom(m) ==
  LET g == run[m].gen IN
  /\ run[m].phase = "ttl" /\ run[m].victims = <<>>
  /\ IF Full(g)
     THEN run' = [run EXCEPT ![m].phase = "lru", ![m].victims = cache[g],
                             ![m].spared = {c \in Conversations : Preserved(m, c)}]
     ELSE Goes(m, "directory")
  /\ UNCHANGED <<monitorVars, sessionVars, resources>>

\* There is room, or there are no candidates left.
EndEviction(m) ==
  /\ run[m].phase = "lru" /\ ~run[m].busy
  /\ RoomMade(run[m].gen) \/ run[m].victims = <<>>
  /\ run' = [run EXCEPT ![m].phase = "directory", ![m].victims = <<>>,
                        ![m].spared = {}]
  /\ UNCHANGED <<monitorVars, sessionVars, resources>>

-----------------------------------------------------------------------------
(* Resources and session *)

\* The directory exists; getOrCreatePiAgentResources takes the resources, waits for
\* the initialisation under way, or starts one.
GetResources(m) ==
  /\ AwaitsDone
  /\ run[m].phase = "directory"
  /\ IF ready
     THEN Goes(m, "creating") /\ UNCHANGED promise
     ELSE /\ promise' = IF promise = {} THEN {m} ELSE promise
          /\ run' = [run EXCEPT ![m].phase = "resources", ![m].awaits = promise']
  /\ UNCHANGED <<monitorVars, sessionVars, ready>>

Initialising(m) == run[m].phase = "resources" /\ run[m].awaits = {m}

Waiting(p) == {m \in Messages : run[m].phase = "resources" /\ run[m].awaits = {p}}

Resume(p, to) ==
  run' = [m \in Messages |->
            IF m \in Waiting(p) THEN [run[m] EXCEPT !.phase = to, !.awaits = {}]
            ELSE run[m]]

\* mutant: the run that started the initialisation goes on alone
ResourcesReadyForOne(m) ==
  /\ AwaitsDone /\ Initialising(m)
  /\ ready' = TRUE /\ promise' = {}
  /\ run' = [run EXCEPT ![m].phase = "creating", ![m].awaits = {}]
  /\ UNCHANGED <<monitorVars, sessionVars>>

\* The initialisation of m ends.  Its finally removes whatever promise is there.
ResourcesReady(m) ==
  /\ AwaitsDone /\ Initialising(m)
  /\ ready' = TRUE /\ promise' = {}
  /\ Resume(m, "creating")
  /\ UNCHANGED <<monitorVars, sessionVars>>

ResourcesFail(m) ==
  /\ "init" \in Faults
  /\ AwaitsDone /\ Initialising(m)
  /\ promise' = {}
  /\ Resume(m, "failing")
  /\ UNCHANGED <<monitorVars, sessionVars, ready>>

\* The session is opened from the latest file of the conversation, or created; its
\* state may have stopped meanwhile.
CreateSession(m) ==
  /\ AwaitsDone
  /\ run[m].phase = "creating"
  /\ Touch(run[m].gen, [conv |-> ConvOf[m], session |-> m])
  /\ run' = [run EXCEPT ![m].phase = "prompting", ![m].session = {m}]
  /\ live' = live \cup {m}
  /\ UNCHANGED <<monitorVars, resources>>

CreateFails(m) ==
  /\ "init" \in Faults
  /\ AwaitsDone
  /\ run[m].phase \in {"directory", "creating"}
  /\ Goes(m, "failing")
  /\ UNCHANGED <<monitorVars, sessionVars, resources>>

-----------------------------------------------------------------------------
(* The end of a run *)

EndsRun(m, p, error, told, completed) ==
  run' = [run EXCEPT ![m].phase = p, ![m].session = {}, ![m].error = error,
                     ![m].told = told, ![m].completed = completed]

\* mutant: catch completes a run whose completion was committed before the exception
ReportsTwice(m) == EndsRun(m, "ended", TRUE, TRUE, 2)

\* The catch of handleUserMessage and processQueuedMessage.
Reports(m) == EndsRun(m, "ended", TRUE, TRUE, 1)

\* A commit of the run throws, and then, or not, a commit of the catch; what an
\* aborted run has told is not recorded.
Throws(m) ==
  /\ "commit" \in Faults
  /\ Reports(m) \/ EndsRun(m, "aborted", TRUE, FALSE, 0)

\* The run was refused, or has no session: the user is told.
ReportFailure(m) ==
  /\ run[m].phase = "failing"
  /\ EndsRun(m, "ended", TRUE, TRUE, 1) \/ Throws(m)
  /\ UNCHANGED <<monitorVars, sessionVars, resources>>

\* mutant: the fallback is left out
AnswersText(m, text, error, tool) == ~Stopping(m) /\ text

\* The text is committed, or the fallback for an error nobody has been told of;
\* nothing when the store is stopping.
Answers(m, text, error, tool) == ~Stopping(m) /\ (text \/ (error /\ ~tool))

\* session.prompt returns or throws.  Until then, and until the store was stopping,
\* the session has reported messages with a text or an error, and the output of
\* tools that failed, which is committed at once.
PromptEnds(m) ==
  /\ AwaitsDone
  /\ run[m].phase = "prompting"
  /\ \E text, error, tool \in BOOLEAN :
       EndsRun(m, "ended", error, tool \/ Answers(m, text, error, tool), 1)
  /\ UNCHANGED <<monitorVars, sessionVars, resources>>

\* A commit of the run throws, the one of a tool's output apart: its exception is
\* the session's.
PromptEndThrows(m) ==
  /\ AwaitsDone
  /\ run[m].phase = "prompting"
  /\ Throws(m)
  /\ UNCHANGED <<monitorVars, sessionVars, resources>>

-----------------------------------------------------------------------------
(* Monitoring, as far as it touches the runs *)

NewGeneration ==
  /\ gens' = gens + 1 /\ current' = gens + 1

\* The orchestrator's ensureMonitored: the store is added if there is none, and
\* subscribed to if there is no state.
StartMonitoring ==
  /\ current = 0 \/ store = "absent"
  /\ store' = IF store = "absent" THEN "there" ELSE store
  /\ IF current = 0 THEN gens < MaxGen /\ NewGeneration ELSE UNCHANGED <<gens, current>>
  /\ UNCHANGED <<stopping, closing, sessionVars, resources, run>>

\* Its stopMonitoring: that of the EventProcessor, and removeStore up to its await.
StopMonitoring ==
  /\ "stop" \in Faults
  /\ AwaitsDone /\ current # 0
  /\ stopping' = stopping \cup {current}
  /\ closing' = closing \cup {<<current, "stop">>}
  /\ store' = IF store = "there" THEN "leaving" ELSE store
  /\ UNCHANGED <<gens, current, sessionVars, resources, run>>

\* removeStore ends, whatever the state of the store is by now.
StoreRemoved ==
  /\ AwaitsDone /\ store = "leaving"
  /\ store' = "absent"
  /\ UNCHANGED <<gens, current, stopping, closing, sessionVars, resources, run>>

\* storeReconnected, from a reconnection that may have begun before the store was removed.
Reconnected ==
  /\ "reconnect" \in Faults
  /\ AwaitsDone /\ current # 0 /\ gens < MaxGen
  /\ store # "absent" \/ current \in stopping
  /\ stopping' = stopping \cup {current}
  /\ closing' = closing \cup {<<current, "reconnect">>}
  /\ UNCHANGED <<gens, current, store, sessionVars, resources, run>>

\* disposePiSessions and clearPiAgentResources; then the state leaves the map, with
\* whatever state is in it, and a reconnection starts the next.
CleanUp(g, how) ==
  /\ how = "reconnect" \/ AwaitsDone
  /\ <<g, how>> \in closing
  /\ closing' = closing \ {<<g, how>>}
  /\ live' = live \ {e.session : e \in ToSet(cache[g])}
  /\ cache' = [cache EXCEPT ![g] = <<>>]
  /\ ready' = FALSE /\ promise' = {}
  /\ IF how = "reconnect" /\ gens < MaxGen THEN NewGeneration
     ELSE current' = 0 /\ UNCHANGED gens
  /\ UNCHANGED <<stopping, store, run>>

-----------------------------------------------------------------------------
Evicts(m)   == Dispose(m) \/ DisposeEnds(m) \/ Spare(m) \/ MakeRoom(m) \/ EndEviction(m)
Resourced(m) == GetResources(m) \/ ResourcesReady(m) \/ ResourcesFail(m)
Creates(m)  == CreateSession(m) \/ CreateFails(m)
Starts(g, m) == \/ StartStoreless(g, m) \/ StartRefused(g, m) \/ StartCached(g, m)
                \/ StartWithoutSession(g, m)

Next ==
  \/ \E m \in Messages :
       \/ \E g \in Gens : Starts(g, m)
       \/ Evicts(m) \/ Resourced(m) \/ Creates(m)
       \/ PromptEnds(m) \/ PromptEndThrows(m) \/ ReportFailure(m)
  \/ StartMonitoring \/ StopMonitoring \/ StoreRemoved \/ Reconnected
  \/ \E g \in Gens : \E how \in {"stop", "reconnect"} : CleanUp(g, how)

Spec == Init /\ [][Next]_vars

-----------------------------------------------------------------------------
(* Properties *)

\* llmResponseCompleted is committed exactly once for a run that had a store and ends,
\* whichever of its commits, awaits and error handlers it ends by.  It is not committed
\* by a run that is under way, was aborted by its own error handler, or found no store
\* when it began (event-processor.ts:1227-1230): nothing ever ends that one in the chat.
CompletedOnce ==
  \A m \in Messages : run[m].completed = IF run[m].phase = "ended" THEN 1 ELSE 0

\* A run that had a store and failed has told the user something, a text, the output of
\* a tool or an error message, unless its store was stopping (runAgenticLoop,
\* handleUserMessage).
FailureIsTold ==
  \A m \in InPhases({"ended"}) : run[m].error /\ ~run[m].told => Stopping(m)

\* A session a run is prompting is not disposed by the evictions of other runs, as
\* long as its state is monitored (shouldPreservePiSession).
PromptIsLive ==
  \A m \in InPhases({"prompting"}) : run[m].session \subseteq live \/ Stopping(m)

\* A session lives in the cache of its generation until it is disposed: none is lost
\* between evictions, creations and overlapping runs while the store is monitored.
NoSessionLeak ==
  \A g \in 1..gens \ stopping, m \in live :
    run[m].gen = g => [conv |-> ConvOf[m], session |-> m] \in ToSet(cache[g])

\* When a run has made room for its session, the cache is below its maximum or holds
\* sessions of active conversations only (evictPiSessionsIfNeeded): it outgrows the
\* maximum only by creations that overlap.
EvictionMakesRoom ==
  [][\A m \in InPhases(Evicting) :
       LET g == run[m].gen IN
       (MaxSessions > 0 /\ run'[m].phase = "directory")
         => Len(cache[g]) < MaxSessions \/ ConvsIn(cache[g]) \subseteq Active(g)]_vars

\* A run that waits for the resources of the store waits for an initialisation that is
\* under way, although cleanups drop the promise and later runs start another one.
ResourcesComing ==
  \A m \in InPhases({"resources"}) :
    \E p \in Messages : run[m].awaits = {p} /\ Initialising(p)
=============================================================================

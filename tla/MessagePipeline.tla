--------------------------- MODULE MessagePipeline ---------------------------
(***************************************************************************)
(* The server's message pipeline for one LiveStore: EventProcessor with    *)
(* its ProcessedMessageTracker, MessageQueueManager and                    *)
(* AsyncQueueProcessor (packages/server/src/services).                     *)
(*                                                                         *)
(* A subscription to the chatMessages table redelivers every recent row on *)
(* every change.  Rows are buffered, checked against a persistent table of *)
(* processed ids and claimed there; a claimed message is handed to         *)
(* setImmediate, where it is refused, queued behind the run of its         *)
(* conversation, or starts a run of the agent.  When a run ends, a loop    *)
(* starts the queued messages of the conversation one after the other.     *)
(*                                                                         *)
(* startMonitoring creates a StoreProcessingState; a reconnection replaces *)
(* it while runs of the old one go on.  These objects are the generations  *)
(* 1..gens here; `current' is the one in the storeStates map.              *)
(*                                                                         *)
(* The process is single-threaded: an action is what runs between two      *)
(* awaits.  `loops' holds the conversations whose loop is about to take    *)
(* its next step in a microtask; a setImmediate callback or a timer never  *)
(* runs before these (guard MicrotasksDone).                               *)
(***************************************************************************)
EXTENDS Integers, Sequences, FiniteSets, Functions, SequencesExt

CONSTANTS
  Messages,        \* user and system messages of the store
  Conversations,
  ConvOf,          \* the conversation of a message
  BeforeCutoff,    \* messages older than MESSAGE_PROCESSING_CUTOFF_TIMESTAMP
  MaxGen,          \* bound: StoreProcessingState objects ever created
  MaxCalls,        \* maxConcurrentLLMCalls (0: unbounded)
  MaxQueued,       \* maxQueuedMessages (0: unbounded)
  MaxQueueSize,    \* MessageQueueManager.maxQueueSize
  MaxActive,       \* active conversations per store
  MaxDrain,        \* maxProcessedMessages of one loop
  Faults           \* what the environment may do, see FaultKinds

FaultKinds == {"db", "commit", "timeout", "stale", "rate", "stop", "reconnect", "crash"}

ASSUME ConvOfAssumption == ConvOf \in [Messages -> Conversations]
ASSUME BoundsAssumption ==
  /\ BeforeCutoff \subseteq Messages
  /\ {MaxGen, MaxCalls, MaxQueued, MaxQueueSize, MaxActive, MaxDrain} \subseteq Nat
  /\ Faults \subseteq FaultKinds

VARIABLES
  \* persistent: the chatMessages table and the processed_messages table
  posted,       \* messages in the table, oldest first
  claimed,      \* rows of processed_messages
  \* intake, per generation
  since,        \* how many of the oldest messages the one-hour filter of the query hides
  dirty,        \* the query result changed since the last callback
  buffer,       \* eventBuffer.events
  batch,        \* events processBufferedEvents has taken; `processing' is batch # <<>>
  checked,      \* isProcessed has answered "no" for the head of the batch
  dbOpen,       \* databaseInitialized, and the tracker not closed
  \* dispatch
  deferred,     \* setImmediate callbacks, in order: <<generation, message>>
  active,       \* activeConversations
  queue,        \* the queues of messageQueue
  runs,         \* agent runs under way
  loops,        \* processQueuedMessages loops about to take a step
  \* LLM call slots
  inflight,     \* llmCallsInFlight: <<generation, message>>
  activeCalls,  \* activeLLMCalls
  \* monitoring
  gens,         \* generations created so far
  stopping,     \* stopping, per generation
  current,      \* the generation in storeStates, 0 when there is none
  closing,      \* generations whose stopMonitoring waits for processingQueue
  detaching,    \* generations a reconnection is disposing
  shutdown,     \* isShutdown
  \* history
  attempts,     \* runs started for a message
  fate          \* how the handling of a message ended

intakeVars  == <<since, dirty, buffer, batch, checked>>
workVars    == <<active, queue, runs, loops>>
callVars    == <<inflight, activeCalls>>
monitorVars == <<gens, stopping, current, closing, detaching, shutdown>>
vars == <<posted, claimed, intakeVars, dbOpen, deferred, workVars, callVars,
          monitorVars, attempts, fate>>

Gens  == 1..MaxGen
Fates == {"none", "skipped", "refused", "dropped", "expired", "answered", "unanswered", "lost"}

Runs  == [gen: Gens, msg: Messages, count: 0..MaxDrain]
Loops == [gen: Gens, conv: Conversations, count: 0..MaxDrain]

TypeOK ==
  /\ posted \in Seq(Messages)
  /\ claimed \subseteq Messages
  /\ since \in [Gens -> Nat]
  /\ dirty \in [Gens -> BOOLEAN]
  /\ buffer \in [Gens -> Seq(Messages)]
  /\ batch \in [Gens -> Seq(Messages)]
  /\ checked \in [Gens -> BOOLEAN]
  /\ dbOpen \in BOOLEAN
  /\ deferred \in Seq(Gens \X Messages)
  /\ active \in [Gens -> SUBSET Conversations]
  /\ queue \in [Gens -> [Conversations -> Seq(Messages)]]
  /\ runs \subseteq Runs
  /\ loops \subseteq Loops
  /\ inflight \subseteq Gens \X Messages
  /\ activeCalls \in Nat
  /\ gens \in 0..MaxGen
  /\ stopping \in [Gens -> BOOLEAN]
  /\ current \in 0..MaxGen
  /\ closing \subseteq Gens
  /\ detaching \subseteq Gens
  /\ shutdown \in BOOLEAN
  /\ attempts \in [Messages -> Nat]
  /\ fate \in [Messages -> Fates]

EmptyQueues == [c \in Conversations |-> <<>>]

Init ==
  /\ posted = <<>> /\ claimed = {}
  /\ since = [g \in Gens |-> 0]
  /\ dirty = [g \in Gens |-> FALSE]
  /\ buffer = [g \in Gens |-> <<>>]
  /\ batch = [g \in Gens |-> <<>>]
  /\ checked = [g \in Gens |-> FALSE]
  /\ dbOpen \in IF "db" \in Faults THEN BOOLEAN ELSE {TRUE}
  /\ deferred = <<>>
  /\ active = [g \in Gens |-> {}]
  /\ queue = [g \in Gens |-> EmptyQueues]
  /\ runs = {} /\ loops = {}
  /\ inflight = {} /\ activeCalls = 0
  /\ gens = 0
  /\ stopping = [g \in Gens |-> FALSE]
  /\ current = 0
  /\ closing = {} /\ detaching = {}
  /\ shutdown = FALSE
  /\ attempts = [m \in Messages |-> 0]
  /\ fate = [m \in Messages |-> "none"]

-----------------------------------------------------------------------------
(* Shared operators *)

\* The subscription of a generation lasts from its creation until it stops.
Subscribed(g) == g <= gens /\ ~stopping[g]

\* A committed chat message changes the result of every subscribed query.
Touched == [g \in Gens |-> Subscribed(g)]

\* The messages ms end with fate f.
Settle(ms, f) == fate' = [m \in Messages |-> IF m \in ms THEN f ELSE fate[m]]

QueuedIn(g) == UNION {ToSet(queue[g][c]) : c \in Conversations}

\* getTotalQueuedMessages of the states in the map
TotalQueued ==
  IF current = 0 THEN 0
  ELSE SumFunction([c \in Conversations |-> Len(queue[current][c])])

\* mutant: the count goes down for a call that has already ended
EndCallTwice(call) ==
  /\ inflight' = inflight \ {call}
  /\ activeCalls' = activeCalls - 1

\* endLLMCall: a call the timeout has ended already is not ended again.
EndCall(call) ==
  /\ inflight' = inflight \ {call}
  /\ activeCalls' = IF call \in inflight /\ activeCalls > 0
                    THEN activeCalls - 1 ELSE activeCalls

BeginCall(call) ==
  /\ inflight' = inflight \cup {call}
  /\ activeCalls' = activeCalls + 1

-----------------------------------------------------------------------------
(* Intake: subscription callback, buffer, deduplication, claim *)

\* A client's message reaches the chatMessages table.
Post(m) ==
  /\ m \notin ToSet(posted)
  /\ posted' = Append(posted, m)
  /\ dirty' = Touched
  /\ UNCHANGED <<claimed, since, buffer, batch, checked, dbOpen, deferred, workVars,
                 callVars, monitorVars, attempts, fate>>

\* mutant: the newest row is buffered first
DeliverNewestFirst(g) ==
  /\ Subscribed(g) /\ dirty[g]
  /\ dirty' = [dirty EXCEPT ![g] = FALSE]
  /\ buffer' = [buffer EXCEPT ![g] = @ \o Reverse(SubSeq(posted, since[g] + 1, Len(posted)))]
  /\ UNCHANGED <<posted, claimed, since, batch, checked, dbOpen, deferred, workVars,
                 callVars, monitorVars, attempts, fate>>

\* mutant: a callback during processBufferedEvents is not buffered
DeliverUnlessProcessing(g) ==
  /\ Subscribed(g) /\ dirty[g]
  /\ dirty' = [dirty EXCEPT ![g] = FALSE]
  /\ buffer' = IF batch[g] # <<>> THEN buffer
               ELSE [buffer EXCEPT ![g] = @ \o SubSeq(posted, since[g] + 1, Len(posted))]
  /\ UNCHANGED <<posted, claimed, since, batch, checked, dbOpen, deferred, workVars,
                 callVars, monitorVars, attempts, fate>>

\* handleTableUpdate and bufferEvents: every visible row is buffered again.
Deliver(g) ==
  /\ Subscribed(g) /\ dirty[g]
  /\ dirty' = [dirty EXCEPT ![g] = FALSE]
  /\ buffer' = [buffer EXCEPT ![g] = @ \o SubSeq(posted, since[g] + 1, Len(posted))]
  /\ UNCHANGED <<posted, claimed, since, batch, checked, dbOpen, deferred, workVars,
                 callVars, monitorVars, attempts, fate>>

\* processBufferedEvents, chained by scheduleEventProcessing or by the flush timer.
TakeBatch(g) ==
  /\ batch[g] = <<>> /\ buffer[g] # <<>> /\ ~stopping[g]
  /\ batch' = [batch EXCEPT ![g] = buffer[g]]
  /\ buffer' = [buffer EXCEPT ![g] = <<>>]
  /\ UNCHANGED <<posted, claimed, since, dirty, checked, dbOpen, deferred, workVars,
                 callVars, monitorVars, attempts, fate>>

\* The next event of the batch; a stop does not cut the batch short.
NextEvent(g) ==
  /\ batch' = [batch EXCEPT ![g] = Tail(@)]
  /\ checked' = [checked EXCEPT ![g] = FALSE]

\* await isProcessed: a processed message ends here.
CheckProcessed(g) ==
  /\ batch[g] # <<>> /\ ~checked[g] /\ dbOpen
  /\ IF Head(batch[g]) \in claimed
     THEN NextEvent(g)
     ELSE /\ checked' = [checked EXCEPT ![g] = TRUE]
          /\ UNCHANGED batch
  /\ UNCHANGED <<posted, claimed, since, dirty, buffer, dbOpen, deferred, workVars,
                 callVars, monitorVars, attempts, fate>>

\* mutant: the result of the insert is not looked at
WinsAlways(m) == TRUE

\* INSERT OR IGNORE: the insert that changed a row wins the message.
WinsClaim(m) == m \notin claimed

\* mutant: a stopping state drops what it has just claimed
ClaimUnlessStopping(g) ==
  /\ batch[g] # <<>> /\ checked[g] /\ dbOpen
  /\ LET m == Head(batch[g]) IN
       /\ claimed' = claimed \cup {m}
       /\ deferred' = IF m \notin BeforeCutoff /\ WinsClaim(m) /\ ~stopping[g]
                      THEN Append(deferred, <<g, m>>) ELSE deferred
       /\ IF m \in BeforeCutoff THEN Settle({m}, "skipped") ELSE UNCHANGED fate
  /\ NextEvent(g)
  /\ UNCHANGED <<posted, since, dirty, buffer, dbOpen, workVars, callVars,
                 monitorVars, attempts>>

\* await markProcessed: the winner defers the message to setImmediate; a message
\* before the cutoff is only marked; the loser lets go.
Claim(g) ==
  /\ batch[g] # <<>> /\ checked[g] /\ dbOpen
  /\ LET m == Head(batch[g]) IN
       /\ claimed' = claimed \cup {m}
       /\ deferred' = IF m \notin BeforeCutoff /\ WinsClaim(m)
                      THEN Append(deferred, <<g, m>>) ELSE deferred
       /\ IF m \in BeforeCutoff THEN Settle({m}, "skipped") ELSE UNCHANGED fate
  /\ NextEvent(g)
  /\ UNCHANGED <<posted, since, dirty, buffer, dbOpen, workVars, callVars,
                 monitorVars, attempts>>

\* The database is not initialised, is closed or fails: the event is dropped unclaimed.
SkipOnDbError(g) ==
  /\ batch[g] # <<>>
  /\ "db" \in Faults \/ ~dbOpen
  /\ NextEvent(g)
  /\ UNCHANGED <<posted, claimed, since, dirty, buffer, dbOpen, deferred, workVars,
                 callVars, monitorVars, attempts, fate>>

-----------------------------------------------------------------------------
(* Dispatch: the setImmediate callback handleUserMessage *)

MicrotasksDone == loops = {}

\* The callback of message m, claimed by generation g, runs.
Handling(g, m) ==
  /\ MicrotasksDone
  /\ deferred # <<>> /\ Head(deferred) = <<g, m>>
  /\ deferred' = Tail(deferred)

\* mutant: off by one
AtCapLate == MaxCalls > 0 /\ activeCalls > MaxCalls

\* canStartLLMCall fails
AtCap == MaxCalls > 0 /\ activeCalls >= MaxCalls

\* canAcceptIncomingMessage fails by the queue limit
QueueLimitReached == MaxQueued > 0 /\ TotalQueued >= MaxQueued

Accepted == ~AtCap /\ ~QueueLimitReached

Busy(g, c) == c \in active[g]

\* Too many calls: the user is answered that the system is under load.
RejectAtCap(g, m) ==
  /\ Handling(g, m)
  /\ AtCap
  /\ Settle({m}, "refused")
  /\ dirty' = Touched
  /\ UNCHANGED <<posted, claimed, since, buffer, batch, checked, dbOpen, workVars,
                 callVars, monitorVars, attempts>>

\* The queue limit, or the rate limit of the last minute: dropped without an answer.
RefuseIntake(g, m) ==
  /\ Handling(g, m)
  /\ ~AtCap
  /\ QueueLimitReached \/ "rate" \in Faults
  /\ Settle({m}, "dropped")
  /\ UNCHANGED <<posted, claimed, intakeVars, dbOpen, workVars, callVars,
                 monitorVars, attempts>>

\* cleanStaleMessages: the oldest entries may have waited for five minutes.
StalePrefixes(q) == IF "stale" \in Faults THEN 0..Len(q) ELSE {0}

DropOldest(q, k) == SubSeq(q, k + 1, Len(q))

\* The conversation is busy: the message waits in its queue.
EnqueueMessage(g, m) ==
  LET c == ConvOf[m]
      q == queue[g][c] IN
  /\ Handling(g, m)
  /\ Accepted
  /\ Busy(g, c)
  /\ Len(q) < MaxQueueSize
  /\ \E k \in StalePrefixes(q) :
       /\ queue' = [queue EXCEPT ![g][c] = Append(DropOldest(q, k), m)]
       /\ Settle(ToSet(SubSeq(q, 1, k)), "expired")
  /\ UNCHANGED <<posted, claimed, intakeVars, dbOpen, active, runs, loops, callVars,
                 monitorVars, attempts>>

\* The queue is full: enqueue throws and the user is told.
RefuseOverflow(g, m) ==
  /\ Handling(g, m)
  /\ Accepted
  /\ Busy(g, ConvOf[m])
  /\ Len(queue[g][ConvOf[m]]) >= MaxQueueSize
  /\ Settle({m}, "refused")
  /\ dirty' = Touched
  /\ UNCHANGED <<posted, claimed, since, buffer, batch, checked, dbOpen, workVars,
                 callVars, monitorVars, attempts>>

\* Too many active conversations: dropped without an answer.
RefuseConversation(g, m) ==
  /\ Handling(g, m)
  /\ Accepted
  /\ ~Busy(g, ConvOf[m])
  /\ Cardinality(active[g]) >= MaxActive
  /\ Settle({m}, "dropped")
  /\ UNCHANGED <<posted, claimed, intakeVars, dbOpen, workVars, callVars,
                 monitorVars, attempts>>

\* The conversation becomes active, a slot is taken, llmResponseStarted is committed.
MayStart(g, m) ==
  /\ Handling(g, m)
  /\ Accepted
  /\ ~Busy(g, ConvOf[m])
  /\ Cardinality(active[g]) < MaxActive
  /\ active' = [active EXCEPT ![g] = @ \cup {ConvOf[m]}]
  /\ BeginCall(<<g, m>>)

StartRun(g, m) ==
  /\ MayStart(g, m)
  /\ runs' = runs \cup {[gen |-> g, msg |-> m, count |-> 0]}
  /\ attempts' = [attempts EXCEPT ![m] = @ + 1]
  /\ UNCHANGED <<posted, claimed, intakeVars, dbOpen, queue, loops, monitorVars, fate>>

\* The commit of llmResponseStarted throws: it stands before the try block, so
\* neither the conversation nor the slot is released.
StartFails(g, m) ==
  /\ "commit" \in Faults
  /\ MayStart(g, m)
  /\ Settle({m}, "unanswered")
  /\ UNCHANGED <<posted, claimed, intakeVars, dbOpen, queue, runs, loops, monitorVars,
                 attempts>>

HandleUserMessage(g, m) ==
  \/ RejectAtCap(g, m)    \/ RefuseIntake(g, m)
  \/ EnqueueMessage(g, m) \/ RefuseOverflow(g, m)
  \/ RefuseConversation(g, m)
  \/ StartRun(g, m)       \/ StartFails(g, m)

-----------------------------------------------------------------------------
(* Runs, and the loop over the queue of a conversation *)

Loop(r) == [gen |-> r.gen, conv |-> ConvOf[r.msg], count |-> r.count]

\* What the end of a run does in every case.
ReleaseRun(r, f) ==
  /\ runs' = runs \ {r}
  /\ EndCall(<<r.gen, r.msg>>)
  /\ active' = [active EXCEPT ![r.gen] = @ \ {ConvOf[r.msg]}]
  /\ Settle({r.msg}, f)
  /\ dirty' = Touched
  /\ UNCHANGED <<posted, claimed, since, buffer, batch, checked, dbOpen, deferred,
                 queue, monitorVars, attempts>>

\* The orchestrator removes the store after a stop, whichever state is there by then.
StoreRemovable == \E g \in Gens : stopping[g]

\* mutant: the end of a run does not look at the queue
FinishRunOnly(r) ==
  /\ \/ ReleaseRun(r, "answered")
     \/ StoreRemovable /\ ReleaseRun(r, "unanswered")
  /\ UNCHANGED loops

\* runAgenticLoop returns, or throws and the error is committed; a run whose
\* store was removed returns without committing llmResponseCompleted.
FinishRun(r) ==
  /\ \/ ReleaseRun(r, "answered")
     \/ StoreRemovable /\ ReleaseRun(r, "unanswered")
  /\ loops' = loops \cup {Loop(r)}

\* The error handler's own commit throws (the store is closed).  The rejection ends
\* a run started by handleUserMessage; a queued one is caught by the loop it belongs
\* to, which goes on unless its own report cannot be committed either.
AbortRun(r) ==
  /\ "commit" \in Faults
  /\ ReleaseRun(r, "unanswered")
  /\ \/ UNCHANGED loops
     \/ r.count > 0 /\ loops' = loops \cup {Loop(r)}

\* mutant: the head of the queue is read and not removed
DequeuePeek(l) ==
  /\ queue[l.gen][l.conv] # <<>> /\ l.count < MaxDrain
  /\ UNCHANGED queue

\* processQueuedMessages, one iteration: the oldest message leaves the queue.
Dequeue(l) ==
  LET q == queue[l.gen][l.conv] IN
  /\ q # <<>> /\ l.count < MaxDrain
  /\ queue' = [queue EXCEPT ![l.gen][l.conv] = Tail(q)]

\* processQueuedMessage asks for the limit on conversations, not for the one on calls.
MayStartQueued(l) ==
  /\ Dequeue(l)
  /\ Cardinality(active[l.gen]) < MaxActive
  /\ active' = [active EXCEPT ![l.gen] = @ \cup {l.conv}]
  /\ BeginCall(<<l.gen, Head(queue[l.gen][l.conv])>>)

NextRound(l) == (loops \ {l}) \cup {[l EXCEPT !.count = @ + 1]}

\* mutant: the loop does not await the run
StartQueuedUnawaited(l) ==
  LET m == Head(queue[l.gen][l.conv]) IN
  /\ MayStartQueued(l)
  /\ runs' = runs \cup {[gen |-> l.gen, msg |-> m, count |-> l.count + 1]}
  /\ loops' = NextRound(l)
  /\ attempts' = [attempts EXCEPT ![m] = @ + 1]
  /\ UNCHANGED <<posted, claimed, intakeVars, dbOpen, deferred, monitorVars, fate>>

StartQueued(l) ==
  LET m == Head(queue[l.gen][l.conv]) IN
  /\ MayStartQueued(l)
  /\ runs' = runs \cup {[gen |-> l.gen, msg |-> m, count |-> l.count + 1]}
  /\ loops' = loops \ {l}
  /\ attempts' = [attempts EXCEPT ![m] = @ + 1]
  /\ UNCHANGED <<posted, claimed, intakeVars, dbOpen, deferred, monitorVars, fate>>

\* The commit of llmResponseStarted throws: the loop reports it and goes on, unless
\* the report cannot be committed either.
StartQueuedFails(l) ==
  /\ "commit" \in Faults
  /\ MayStartQueued(l)
  /\ Settle({Head(queue[l.gen][l.conv])}, "unanswered")
  /\ loops' \in {NextRound(l), loops \ {l}}
  /\ dirty' = Touched
  /\ UNCHANGED <<posted, claimed, since, buffer, batch, checked, dbOpen, deferred, runs,
                 monitorVars, attempts>>

\* Too many active conversations, which counts the ones a failed start never released:
\* the message is dropped without an answer.
DropQueued(l) ==
  /\ Dequeue(l)
  /\ Cardinality(active[l.gen]) >= MaxActive
  /\ Settle({Head(queue[l.gen][l.conv])}, "dropped")
  /\ loops' = NextRound(l)
  /\ UNCHANGED <<posted, claimed, intakeVars, dbOpen, deferred, active, runs, callVars,
                 monitorVars, attempts>>

\* The queue is empty, or the safety limit of the loop is reached.
EndLoop(l) ==
  /\ queue[l.gen][l.conv] = <<>> \/ l.count >= MaxDrain
  /\ loops' = loops \ {l}
  /\ UNCHANGED <<posted, claimed, intakeVars, dbOpen, deferred, active, queue, runs,
                 callVars, monitorVars, attempts, fate>>

\* The timer of beginLLMCall: the slot is given back, the run goes on.
CallTimeout(call) ==
  /\ "timeout" \in Faults
  /\ MicrotasksDone
  /\ call \in inflight
  /\ EndCall(call)
  /\ UNCHANGED <<posted, claimed, intakeVars, dbOpen, deferred, workVars, monitorVars,
                 attempts, fate>>

\* cleanupAllStaleMessages, each minute until the manager is destroyed.
ExpireStale(g, c) ==
  LET q == queue[g][c] IN
  /\ MicrotasksDone
  /\ Subscribed(g) \/ g \in closing
  /\ \E k \in StalePrefixes(q) \ {0} :
       /\ queue' = [queue EXCEPT ![g][c] = DropOldest(q, k)]
       /\ Settle(ToSet(SubSeq(q, 1, k)), "expired")
  /\ UNCHANGED <<posted, claimed, intakeVars, dbOpen, deferred, active, runs, loops,
                 callVars, monitorVars, attempts>>

-----------------------------------------------------------------------------
(* Monitoring: start, stop, reconnection, shutdown, crash *)

\* startMonitoring: a new state, whose query shows the messages of the last hour.
NewGeneration ==
  LET n == gens + 1
      hidden == IF gens = 0 THEN 0 ELSE since[gens] IN
  /\ gens < MaxGen
  /\ gens' = n
  /\ current' = n
  /\ \E k \in hidden..Len(posted) : since' = [since EXCEPT ![n] = k]

StartMonitoring ==
  /\ current = 0
  /\ NewGeneration
  /\ dirty' = [dirty EXCEPT ![gens + 1] = TRUE]
  /\ UNCHANGED <<posted, claimed, buffer, batch, checked, dbOpen, deferred, workVars,
                 callVars, stopping, closing, detaching, shutdown, attempts, fate>>

\* The state stops: the subscription ends and its buffered events are never taken.
Unsubscribe(g) ==
  /\ stopping' = [stopping EXCEPT ![g] = TRUE]
  /\ dirty' = [dirty EXCEPT ![g] = FALSE]
  /\ buffer' = [buffer EXCEPT ![g] = <<>>]

\* messageQueue.destroy: the queued messages are gone.
DestroyQueues(g) ==
  /\ queue' = [queue EXCEPT ![g] = EmptyQueues]
  /\ Settle(QueuedIn(g), "lost")

StopMonitoring ==
  /\ "stop" \in Faults
  /\ current # 0
  /\ Unsubscribe(current)
  /\ closing' = closing \cup {current}
  /\ UNCHANGED <<posted, claimed, since, batch, checked, dbOpen, deferred, workVars,
                 callVars, gens, current, detaching, shutdown, attempts, fate>>

\* processingQueue.finally: whatever entry the map holds by now is deleted.
FinishStop(g) ==
  /\ g \in closing /\ batch[g] = <<>>
  /\ closing' = closing \ {g}
  /\ DestroyQueues(g)
  /\ current' = 0
  /\ UNCHANGED <<posted, claimed, intakeVars, dbOpen, deferred, active, runs, loops,
                 callVars, gens, stopping, detaching, shutdown, attempts>>

\* storeReconnected, up to the await of disposePiSessions: forceCleanupStoreState.
Reconnected ==
  /\ "reconnect" \in Faults
  /\ current # 0 /\ ~shutdown /\ gens < MaxGen
  /\ Unsubscribe(current)
  /\ DestroyQueues(current)
  /\ detaching' = detaching \cup {current}
  /\ UNCHANGED <<posted, claimed, since, batch, checked, dbOpen, deferred, active, runs,
                 loops, callVars, gens, current, closing, shutdown, attempts>>

\* The old entry is deleted and startMonitoring runs for the new store; when it
\* cannot subscribe, its state is removed again and nothing is monitored.
FinishReconnect(g) ==
  /\ g \in detaching
  /\ detaching' = detaching \ {g}
  /\ \/ /\ NewGeneration
        /\ dirty' = [dirty EXCEPT ![gens + 1] = TRUE]
     \/ /\ current' = 0
        /\ UNCHANGED <<gens, since, dirty>>
  /\ UNCHANGED <<posted, claimed, buffer, batch, checked, dbOpen, deferred, workVars,
                 callVars, stopping, closing, shutdown, attempts, fate>>

\* stopAll: monitoring stops, the call tracking is cleared, the tracker closed.
StopAll ==
  /\ "crash" \in Faults
  /\ ~shutdown
  /\ shutdown' = TRUE
  /\ dbOpen' = FALSE
  /\ inflight' = {} /\ activeCalls' = 0
  /\ IF current # 0
     THEN Unsubscribe(current) /\ closing' = closing \cup {current}
     ELSE UNCHANGED <<stopping, dirty, buffer, closing>>
  /\ UNCHANGED <<posted, claimed, since, batch, checked, deferred, workVars, gens,
                 current, detaching, attempts, fate>>

\* What the process holds in memory for messages it has claimed.
InMemory ==
  {d[2] : d \in ToSet(deferred)} \cup {r.msg : r \in runs}
    \cup (UNION {QueuedIn(g) : g \in Gens})

\* mutant: the processed ids are kept in memory
CrashForgets ==
  /\ "crash" \in Faults
  /\ gens < MaxGen
  /\ dirty' = [g \in Gens |-> FALSE]
  /\ buffer' = [g \in Gens |-> <<>>]
  /\ batch' = [g \in Gens |-> <<>>]
  /\ checked' = [g \in Gens |-> FALSE]
  /\ dbOpen' \in IF "db" \in Faults THEN BOOLEAN ELSE {TRUE}
  /\ deferred' = <<>>
  /\ active' = [g \in Gens |-> {}]
  /\ queue' = [g \in Gens |-> EmptyQueues]
  /\ runs' = {} /\ loops' = {}
  /\ inflight' = {} /\ activeCalls' = 0
  /\ stopping' = [g \in Gens |-> g <= gens]
  /\ current' = 0
  /\ closing' = {} /\ detaching' = {}
  /\ shutdown' = FALSE
  /\ Settle(InMemory, "lost")
  /\ claimed' = {}
  /\ UNCHANGED <<posted, since, gens, attempts>>

\* The process ends, at any time, and is started again: only the tables survive.
Crash ==
  /\ "crash" \in Faults
  /\ gens < MaxGen
  /\ dirty' = [g \in Gens |-> FALSE]
  /\ buffer' = [g \in Gens |-> <<>>]
  /\ batch' = [g \in Gens |-> <<>>]
  /\ checked' = [g \in Gens |-> FALSE]
  /\ dbOpen' \in IF "db" \in Faults THEN BOOLEAN ELSE {TRUE}
  /\ deferred' = <<>>
  /\ active' = [g \in Gens |-> {}]
  /\ queue' = [g \in Gens |-> EmptyQueues]
  /\ runs' = {} /\ loops' = {}
  /\ inflight' = {} /\ activeCalls' = 0
  /\ stopping' = [g \in Gens |-> g <= gens]
  /\ current' = 0
  /\ closing' = {} /\ detaching' = {}
  /\ shutdown' = FALSE
  /\ Settle(InMemory, "lost")
  /\ UNCHANGED <<posted, claimed, since, gens, attempts>>

-----------------------------------------------------------------------------
Intake ==
  \E g \in Gens : \/ Deliver(g)        \/ TakeBatch(g)
                  \/ CheckProcessed(g) \/ Claim(g) \/ SkipOnDbError(g)

Dispatch ==
  \/ \E g \in Gens, m \in Messages : HandleUserMessage(g, m)
  \/ \E r \in runs : FinishRun(r) \/ AbortRun(r)
  \/ \E l \in loops : \/ StartQueued(l) \/ StartQueuedFails(l)
                    \/ DropQueued(l)  \/ EndLoop(l)

Timers ==
  \/ \E call \in inflight : CallTimeout(call)
  \/ \E g \in Gens, c \in Conversations : ExpireStale(g, c)

Monitoring ==
  \/ StartMonitoring \/ StopMonitoring \/ Reconnected \/ StopAll \/ Crash
  \/ \E g \in Gens : FinishStop(g) \/ FinishReconnect(g)

Next ==
  \/ \E m \in Messages : Post(m)
  \/ Intake
  \/ Dispatch
  \/ Timers
  \/ Monitoring

Spec == Init /\ [][Next]_vars

(***************************************************************************)
(* Fairness: the event loop serves callbacks, microtasks and the flush     *)
(* timer (of the states in the map), awaits on the database return, a      *)
(* provider call ends (by an answer or an exception), and the cleanups of  *)
(* a stop or a reconnection end.  Nothing is assumed of clients, timeouts, *)
(* stops or crashes.                                                       *)
(***************************************************************************)
Fairness ==
  /\ \A g \in Gens :
       /\ WF_vars(Deliver(g)) /\ WF_vars(g = current /\ TakeBatch(g))
       /\ WF_vars(CheckProcessed(g)) /\ WF_vars(Claim(g))
       /\ WF_vars(~dbOpen /\ SkipOnDbError(g))
       /\ WF_vars(FinishStop(g)) /\ WF_vars(FinishReconnect(g))
       /\ \A m \in Messages :
            /\ WF_vars(HandleUserMessage(g, m))
            /\ WF_vars(\E r \in runs : r.gen = g /\ r.msg = m /\ FinishRun(r))
       /\ \A c \in Conversations :
            WF_vars(\E l \in loops : l.gen = g /\ l.conv = c
                                     /\ (StartQueued(l) \/ DropQueued(l) \/ EndLoop(l)))

FairSpec == Spec /\ Fairness

-----------------------------------------------------------------------------
(* Properties *)

\* No message is given to the agent twice, whatever is redelivered, whichever
\* generations see it and however often the server restarts: the claim in
\* processed_messages decides (processChatMessage, markProcessed).
AtMostOneRun == \A m \in Messages : attempts[m] <= 1

\* Within one processing state a conversation has at most one agent run at a time,
\* and no loop over its queue is about to start another (activeConversations).
Workers(g, c) ==
  {r \in runs : r.gen = g /\ ConvOf[r.msg] = c} \cup {l \in loops : l.gen = g /\ l.conv = c}

ConversationSerial ==
  \A g \in Gens, c \in Conversations : \A v, w \in Workers(g, c) : v = w

\* Where a claimed message is held.
Holders(m) ==
  {<<"deferred", i>> : i \in {j \in DOMAIN deferred : deferred[j][2] = m}}
    \cup {<<"queue", p>> : p \in
            {t \in Gens \X Conversations \X (1..MaxQueueSize) :
               t[3] \in DOMAIN queue[t[1]][t[2]] /\ queue[t[1]][t[2]][t[3]] = m}}
    \cup {<<"run", r>> : r \in {q \in runs : q.msg = m}}

\* A claimed message whose handling has not ended is in exactly one place: deferred,
\* in one queue, or in one run; an ended or unclaimed message is in none.  No message
\* disappears between the awaits of the pipeline, and none is handled after its end.
Accounted ==
  \A m \in Messages :
    Cardinality(Holders(m)) = IF m \in claimed /\ fate[m] = "none" THEN 1 ELSE 0

\* maxConcurrentLLMCalls bounds the agent runs of the process (canStartLLMCall),
\* although queued messages start without asking, until stopAll resets the count.
CapRespected == (MaxCalls > 0 /\ ~shutdown) => Cardinality(runs) <= MaxCalls

\* A message waits in the queue of a monitored store only while a run or a loop of
\* its conversation is there to take it out ("Process any queued messages for a
\* conversation", processQueuedMessages).
QueueHasRunner ==
  \A g \in Gens, c \in Conversations :
    Subscribed(g) /\ queue[g][c] # <<>> => Workers(g, c) # {}

PostedBefore(m1, m2) ==
  \E i, j \in DOMAIN posted : i < j /\ posted[i] = m1 /\ posted[j] = m2

WaitingIn(g) == QueuedIn(g) \cup {d[2] : d \in {e \in ToSet(deferred) : e[1] = g}}

\* The messages of a conversation are given to the agent in the order they were
\* posted: a run never starts while an earlier message waits in the same state.
RunsInPostOrder ==
  [][\A r \in runs' \ runs : \A m \in WaitingIn(r.gen)' :
       ConvOf[m] = ConvOf[r.msg] => ~PostedBefore(m, r.msg)]_vars

VisibleIn(g) == ToSet(SubSeq(posted, since[g] + 1, Len(posted)))

\* A message a monitored store shows is claimed, unless its monitoring ends first.
VisibleIsClaimed ==
  \A m \in Messages, g \in Gens :
    (Subscribed(g) /\ g = current /\ m \in VisibleIn(g))
      ~> (m \in claimed \/ ~(Subscribed(g) /\ g = current))

\* The handling of a claimed message ends: it is not forgotten in memory.
ClaimedEnds == \A m \in Messages : (m \in claimed) ~> (fate[m] # "none")

-----------------------------------------------------------------------------
(* The pipeline implements MessageHandling *)

StatusOf(m) ==
  CASE m \in {r.msg : r \in runs} -> "running"
    [] m \in InMemory \ {r.msg : r \in runs} -> "pending"
    [] m \notin InMemory /\ m \in claimed -> "ended"
    [] OTHER -> "unclaimed"

Handled == INSTANCE MessageHandling WITH status <- [m \in Messages |-> StatusOf(m)]

\* Every step of the pipeline is a step, or no step, of MessageHandling.
HandlesOnce == Handled!Spec
=============================================================================

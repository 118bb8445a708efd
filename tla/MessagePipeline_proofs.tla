------------------------ MODULE MessagePipeline_proofs ------------------------
(***************************************************************************)
(* Theorems about MessagePipeline for every set of messages and            *)
(* conversations, every bound and every set of faults.                     *)
(***************************************************************************)
EXTENDS MessagePipeline, SequenceTheorems, FiniteSetTheorems, TLAPS

(* What type correctness says of the values an action reads. *)
LEMMA EndCallType ==
  ASSUME NEW call, TypeOK, EndCall(call)
  PROVE  /\ inflight' \subseteq Gens \X Messages
         /\ activeCalls' \in Nat
BY DEF TypeOK, EndCall

LEMMA BeginCallType ==
  ASSUME NEW call \in Gens \X Messages, TypeOK, BeginCall(call)
  PROVE  /\ inflight' \subseteq Gens \X Messages
         /\ activeCalls' \in Nat
BY DEF TypeOK, BeginCall

LEMMA SettleType ==
  ASSUME NEW ms, NEW f \in Fates, TypeOK, Settle(ms, f)
  PROVE  fate' \in [Messages -> Fates]
BY DEF TypeOK, Settle

LEMMA TouchedType == Touched \in [Gens -> BOOLEAN]
BY DEF Touched, Subscribed

LEMMA NextEventType ==
  ASSUME NEW g \in Gens, TypeOK, batch[g] # <<>>, NextEvent(g)
  PROVE  /\ batch' \in [Gens -> Seq(Messages)]
         /\ checked' \in [Gens -> BOOLEAN]
BY DEF TypeOK, NextEvent

(***************************************************************************)
(* Intake keeps the types: rows are buffered, taken, checked and claimed.  *)
(***************************************************************************)
LEMMA IntakeType ==
  ASSUME TypeOK, Intake
  PROVE  TypeOK'
<1> SUFFICES ASSUME NEW g \in Gens,
                    \/ Deliver(g) \/ TakeBatch(g)
                    \/ CheckProcessed(g) \/ Claim(g) \/ SkipOnDbError(g)
             PROVE  TypeOK'
  BY DEF Intake
<1>1. CASE Deliver(g)
  <2>1. SubSeq(posted, since[g] + 1, Len(posted)) \in Seq(Messages)
    BY DEF TypeOK
  <2>2. buffer[g] \o SubSeq(posted, since[g] + 1, Len(posted)) \in Seq(Messages)
    BY <2>1, ConcatProperties DEF TypeOK
  <2> QED BY <1>1, <2>2 DEF TypeOK, Deliver, workVars, callVars, monitorVars
<1>2. CASE TakeBatch(g)
  BY <1>2 DEF TypeOK, TakeBatch, workVars, callVars, monitorVars
<1>3. CASE CheckProcessed(g)
  <2>1. batch' \in [Gens -> Seq(Messages)] /\ checked' \in [Gens -> BOOLEAN]
    BY <1>3, NextEventType DEF TypeOK, CheckProcessed
  <2> QED BY <1>3, <2>1 DEF TypeOK, CheckProcessed, workVars, callVars, monitorVars
<1>4. CASE Claim(g)
  <2>1. batch' \in [Gens -> Seq(Messages)] /\ checked' \in [Gens -> BOOLEAN]
    BY <1>4, NextEventType DEF Claim
  <2>2. Head(batch[g]) \in Messages
    BY <1>4 DEF TypeOK, Claim
  <2>3. fate' \in [Messages -> Fates]
    BY <1>4, SettleType DEF TypeOK, Claim, Fates
  <2>4. deferred' \in Seq(Gens \X Messages) /\ claimed' \subseteq Messages
    BY <1>4, <2>2 DEF TypeOK, Claim
  <2> QED BY <1>4, <2>1, <2>3, <2>4 DEF TypeOK, Claim, workVars, callVars, monitorVars
<1>5. CASE SkipOnDbError(g)
  <2>1. batch' \in [Gens -> Seq(Messages)] /\ checked' \in [Gens -> BOOLEAN]
    BY <1>5, NextEventType DEF SkipOnDbError
  <2> QED BY <1>5, <2>1 DEF TypeOK, SkipOnDbError, workVars, callVars, monitorVars
<1> QED BY <1>1, <1>2, <1>3, <1>4, <1>5

LEMMA DropOldestType ==
  ASSUME NEW q \in Seq(Messages), NEW k \in 0..Len(q)
  PROVE  DropOldest(q, k) \in Seq(Messages)
BY DEF DropOldest

LEMMA StalePrefixesType ==
  ASSUME NEW q \in Seq(Messages)
  PROVE  StalePrefixes(q) \subseteq 0..Len(q)
BY DEF StalePrefixes

LEMMA HandlingType ==
  ASSUME TypeOK, NEW g, NEW m, Handling(g, m)
  PROVE  deferred' \in Seq(Gens \X Messages)
BY DEF TypeOK, Handling

LEMMA MayStartType ==
  ASSUME TypeOK, NEW g \in Gens, NEW m \in Messages, MayStart(g, m)
  PROVE  /\ deferred' \in Seq(Gens \X Messages)
         /\ active' \in [Gens -> SUBSET Conversations]
         /\ inflight' \subseteq Gens \X Messages
         /\ activeCalls' \in Nat
<1>1. ConvOf[m] \in Conversations
  BY ConvOfAssumption
<1> QED BY <1>1, HandlingType, BeginCallType DEF TypeOK, MayStart

(***************************************************************************)
(* The setImmediate callback keeps the types, whatever becomes of the      *)
(* message.                                                                *)
(***************************************************************************)
LEMMA HandleUserMessageType ==
  ASSUME TypeOK, NEW g \in Gens, NEW m \in Messages, HandleUserMessage(g, m)
  PROVE  TypeOK'
<1> USE DEF workVars, callVars, monitorVars, intakeVars, Fates
<1>0. ConvOf[m] \in Conversations
  BY ConvOfAssumption
<1>1. CASE RejectAtCap(g, m)
  <2>1. fate' \in [Messages -> Fates]
    BY <1>1, SettleType DEF RejectAtCap
  <2> QED BY <1>1, <2>1, HandlingType, TouchedType DEF TypeOK, RejectAtCap
<1>2. CASE RefuseIntake(g, m)
  <2>1. fate' \in [Messages -> Fates]
    BY <1>2, SettleType DEF RefuseIntake
  <2> QED BY <1>2, <2>1, HandlingType DEF TypeOK, RefuseIntake
<1>3. CASE EnqueueMessage(g, m)
  <2> DEFINE c == ConvOf[m]
  <2> DEFINE q == queue[g][c]
  <2>1. q \in Seq(Messages)
    BY <1>0 DEF TypeOK
  <2>2. PICK k \in StalePrefixes(q) :
          /\ queue' = [queue EXCEPT ![g][c] = Append(DropOldest(q, k), m)]
          /\ Settle(ToSet(SubSeq(q, 1, k)), "expired")
    BY <1>3 DEF EnqueueMessage
  <2>3. Append(DropOldest(q, k), m) \in Seq(Messages)
    BY <2>1, DropOldestType, StalePrefixesType
  <2>4. queue' \in [Gens -> [Conversations -> Seq(Messages)]]
    BY <1>0, <2>2, <2>3 DEF TypeOK
  <2>5. fate' \in [Messages -> Fates]
    BY <2>2, SettleType
  <2>6. deferred' \in Seq(Gens \X Messages)
    BY <1>3, HandlingType DEF EnqueueMessage
  <2>7. UNCHANGED <<posted, claimed, intakeVars, dbOpen, active, runs, loops, callVars,
                    monitorVars, attempts>>
    BY <1>3 DEF EnqueueMessage
  <2> QED BY <2>4, <2>5, <2>6, <2>7 DEF TypeOK
<1>4. CASE RefuseOverflow(g, m)
  <2>1. fate' \in [Messages -> Fates]
    BY <1>4, SettleType DEF RefuseOverflow
  <2> QED BY <1>4, <2>1, HandlingType, TouchedType DEF TypeOK, RefuseOverflow
<1>5. CASE RefuseConversation(g, m)
  <2>1. fate' \in [Messages -> Fates]
    BY <1>5, SettleType DEF RefuseConversation
  <2> QED BY <1>5, <2>1, HandlingType DEF TypeOK, RefuseConversation
<1>6. CASE StartRun(g, m)
  <2>1. [gen |-> g, msg |-> m, count |-> 0] \in Runs
    BY BoundsAssumption DEF Runs
  <2>2. MayStart(g, m)
    BY <1>6 DEF StartRun
  <2>3. attempts' \in [Messages -> Nat]
    BY <1>6 DEF TypeOK, StartRun
  <2> QED BY <1>6, <2>1, <2>2, <2>3, MayStartType DEF TypeOK, StartRun
<1>7. CASE StartFails(g, m)
  <2>1. fate' \in [Messages -> Fates]
    BY <1>7, SettleType DEF StartFails
  <2>2. MayStart(g, m)
    BY <1>7 DEF StartFails
  <2> QED BY <1>7, <2>1, <2>2, MayStartType DEF TypeOK, StartFails
<1> QED BY <1>1, <1>2, <1>3, <1>4, <1>5, <1>6, <1>7 DEF HandleUserMessage

LEMMA ReleaseRunType ==
  ASSUME TypeOK, NEW r \in runs, NEW f \in Fates, ReleaseRun(r, f),
         loops' \subseteq Loops
  PROVE  TypeOK'
<1> USE DEF workVars, callVars, monitorVars, intakeVars
<1>1. fate' \in [Messages -> Fates]
  BY SettleType DEF ReleaseRun
<1>2. inflight' \subseteq Gens \X Messages /\ activeCalls' \in Nat
  BY EndCallType DEF ReleaseRun
<1>3. active' \in [Gens -> SUBSET Conversations]
  BY DEF TypeOK, ReleaseRun
<1> QED BY <1>1, <1>2, <1>3, TouchedType DEF TypeOK, ReleaseRun

LEMMA LoopType ==
  ASSUME TypeOK, NEW r \in runs
  PROVE  Loop(r) \in Loops
BY ConvOfAssumption DEF TypeOK, Runs, Loops, Loop

LEMMA DequeueType ==
  ASSUME TypeOK, NEW l \in loops, Dequeue(l)
  PROVE  /\ Head(queue[l.gen][l.conv]) \in Messages
         /\ queue' \in [Gens -> [Conversations -> Seq(Messages)]]
         /\ l.count + 1 \in 0..MaxDrain
<1>1. l.gen \in Gens /\ l.conv \in Conversations /\ l.count \in 0..MaxDrain
  BY DEF TypeOK, Loops
<1>2. queue[l.gen][l.conv] \in Seq(Messages) /\ queue[l.gen][l.conv] # <<>>
  BY <1>1 DEF TypeOK, Dequeue
<1>3. MaxDrain \in Nat
  BY BoundsAssumption
<1>4. Tail(queue[l.gen][l.conv]) \in Seq(Messages)
  BY <1>2
<1>5. queue' \in [Gens -> [Conversations -> Seq(Messages)]]
  BY <1>1, <1>4 DEF TypeOK, Dequeue
<1>6. l.count + 1 \in 0..MaxDrain
  BY <1>1, <1>3 DEF Dequeue
<1> QED BY <1>2, <1>5, <1>6

LEMMA NextRoundType ==
  ASSUME TypeOK, NEW l \in loops, Dequeue(l)
  PROVE  NextRound(l) \subseteq Loops
BY DequeueType DEF TypeOK, Loops, NextRound

LEMMA MayStartQueuedType ==
  ASSUME TypeOK, NEW l \in loops, MayStartQueued(l)
  PROVE  /\ active' \in [Gens -> SUBSET Conversations]
         /\ inflight' \subseteq Gens \X Messages
         /\ activeCalls' \in Nat
<1>1. l.gen \in Gens /\ l.conv \in Conversations
  BY DEF TypeOK, Loops
<1>2. <<l.gen, Head(queue[l.gen][l.conv])>> \in Gens \X Messages
  BY <1>1, DequeueType DEF MayStartQueued
<1> QED BY <1>1, <1>2, BeginCallType DEF TypeOK, MayStartQueued

(***************************************************************************)
(* Runs end and loops over a queue take their steps: types are kept.       *)
(***************************************************************************)
LEMMA DispatchType ==
  ASSUME TypeOK, Dispatch
  PROVE  TypeOK'
<1> USE DEF workVars, callVars, monitorVars, intakeVars, Fates
<1>1. CASE \E g \in Gens, m \in Messages : HandleUserMessage(g, m)
  BY <1>1, HandleUserMessageType
<1>2. ASSUME NEW r \in runs, FinishRun(r) PROVE TypeOK'
  <2>1. loops' \subseteq Loops
    BY <1>2, LoopType DEF TypeOK, FinishRun
  <2> QED BY <1>2, <2>1, ReleaseRunType DEF FinishRun
<1>3. ASSUME NEW r \in runs, AbortRun(r) PROVE TypeOK'
  <2>0. loops' \subseteq loops \cup {Loop(r)}
    BY <1>3 DEF AbortRun
  <2>1. loops' \subseteq Loops
    BY <2>0, LoopType DEF TypeOK
  <2>2. ReleaseRun(r, "unanswered")
    BY <1>3 DEF AbortRun
  <2> QED BY <2>1, <2>2, ReleaseRunType
<1>4. ASSUME NEW l \in loops, StartQueued(l) PROVE TypeOK'
  <2> DEFINE m == Head(queue[l.gen][l.conv])
  <2>1. MayStartQueued(l) /\ Dequeue(l)
    BY <1>4 DEF StartQueued, MayStartQueued
  <2>2. [gen |-> l.gen, msg |-> m, count |-> l.count + 1] \in Runs
    BY <2>1, DequeueType DEF TypeOK, Loops, Runs
  <2>3. attempts' \in [Messages -> Nat]
    <3>1. attempts' = [attempts EXCEPT ![m] = @ + 1]
      BY <1>4 DEF StartQueued
    <3>2. m \in Messages
      BY <2>1, DequeueType
    <3> HIDE DEF m
    <3> QED BY <3>1, <3>2 DEF TypeOK
  <2> QED BY <1>4, <2>1, <2>2, <2>3, DequeueType, MayStartQueuedType
          DEF TypeOK, StartQueued
<1>5. ASSUME NEW l \in loops, StartQueuedFails(l) PROVE TypeOK'
  <2>1. MayStartQueued(l) /\ Dequeue(l)
    BY <1>5 DEF StartQueuedFails, MayStartQueued
  <2>2. fate' \in [Messages -> Fates]
    BY <1>5, SettleType DEF StartQueuedFails
  <2>3. loops' \subseteq Loops
    BY <1>5, <2>1, NextRoundType DEF TypeOK, StartQueuedFails
  <2> QED BY <1>5, <2>1, <2>2, <2>3, DequeueType, MayStartQueuedType, TouchedType
          DEF TypeOK, StartQueuedFails
<1>6. ASSUME NEW l \in loops, DropQueued(l) PROVE TypeOK'
  <2>1. Dequeue(l)
    BY <1>6 DEF DropQueued
  <2>2. fate' \in [Messages -> Fates]
    BY <1>6, SettleType DEF DropQueued
  <2>3. loops' \subseteq Loops
    BY <1>6, <2>1, NextRoundType DEF DropQueued
  <2> QED BY <1>6, <2>1, <2>2, <2>3, DequeueType DEF TypeOK, DropQueued
<1>7. ASSUME NEW l \in loops, EndLoop(l) PROVE TypeOK'
  BY <1>7 DEF TypeOK, EndLoop
<1> QED BY <1>1, <1>2, <1>3, <1>4, <1>5, <1>6, <1>7 DEF Dispatch

(***************************************************************************)
(* The call timeout and the cleanup of stale messages keep the types.      *)
(***************************************************************************)
LEMMA TimersType ==
  ASSUME TypeOK, Timers
  PROVE  TypeOK'
<1> USE DEF workVars, callVars, monitorVars, intakeVars, Fates
<1>1. ASSUME NEW call \in inflight, CallTimeout(call) PROVE TypeOK'
  BY <1>1, EndCallType DEF TypeOK, CallTimeout
<1>2. ASSUME NEW g \in Gens, NEW c \in Conversations, ExpireStale(g, c) PROVE TypeOK'
  <2> DEFINE q == queue[g][c]
  <2>1. q \in Seq(Messages)
    BY DEF TypeOK
  <2>2. PICK k \in StalePrefixes(q) \ {0} :
          /\ queue' = [queue EXCEPT ![g][c] = DropOldest(q, k)]
          /\ Settle(ToSet(SubSeq(q, 1, k)), "expired")
    BY <1>2 DEF ExpireStale
  <2>3. DropOldest(q, k) \in Seq(Messages)
    BY <2>1, DropOldestType, StalePrefixesType
  <2>4. queue' \in [Gens -> [Conversations -> Seq(Messages)]]
    BY <2>2, <2>3 DEF TypeOK
  <2>5. fate' \in [Messages -> Fates]
    BY <2>2, SettleType
  <2>6. UNCHANGED <<posted, claimed, intakeVars, dbOpen, deferred, active, runs, loops,
                    callVars, monitorVars, attempts>>
    BY <1>2 DEF ExpireStale
  <2> QED BY <2>4, <2>5, <2>6 DEF TypeOK
<1> QED BY <1>1, <1>2 DEF Timers

LEMMA NewGenerationType ==
  ASSUME TypeOK, NewGeneration
  PROVE  /\ since' \in [Gens -> Nat]
         /\ gens' \in 0..MaxGen
         /\ current' \in 0..MaxGen
<1>1. MaxGen \in Nat /\ Len(posted) \in Nat
  BY BoundsAssumption DEF TypeOK
<1>2. gens + 1 \in Gens /\ gens' = gens + 1 /\ current' = gens + 1
  BY <1>1 DEF TypeOK, NewGeneration, Gens
<1>3. (IF gens = 0 THEN 0 ELSE since[gens]) \in Nat
  BY <1>1 DEF TypeOK, Gens
<1>4. since' \in [Gens -> Nat]
  BY <1>1, <1>2, <1>3 DEF TypeOK, NewGeneration
<1> QED BY <1>1, <1>2, <1>4 DEF Gens

LEMMA UnsubscribeType ==
  ASSUME TypeOK, NEW g, Unsubscribe(g)
  PROVE  /\ stopping' \in [Gens -> BOOLEAN]
         /\ dirty' \in [Gens -> BOOLEAN]
         /\ buffer' \in [Gens -> Seq(Messages)]
<1>1. <<>> \in Seq(Messages)
  OBVIOUS
<1>2. buffer' \in [Gens -> Seq(Messages)]
  BY <1>1 DEF TypeOK, Unsubscribe
<1> QED BY <1>2 DEF TypeOK, Unsubscribe

LEMMA DestroyQueuesType ==
  ASSUME TypeOK, NEW g, DestroyQueues(g)
  PROVE  /\ queue' \in [Gens -> [Conversations -> Seq(Messages)]]
         /\ fate' \in [Messages -> Fates]
<1>1. fate' \in [Messages -> Fates]
  BY SettleType DEF DestroyQueues, Fates
<1>2. EmptyQueues \in [Conversations -> Seq(Messages)]
  BY DEF EmptyQueues
<1> QED BY <1>1, <1>2 DEF TypeOK, DestroyQueues

(***************************************************************************)
(* Starts, stops, reconnections, shutdown and crash keep the types.        *)
(***************************************************************************)
LEMMA MonitoringType ==
  ASSUME TypeOK, Monitoring
  PROVE  TypeOK'
<1> USE DEF workVars, callVars, monitorVars, intakeVars, Fates
<1>0. current \in Gens \/ current = 0
  BY BoundsAssumption DEF TypeOK, Gens
<1>1. CASE StartMonitoring
  BY <1>1, NewGenerationType DEF TypeOK, StartMonitoring
<1>2. CASE StopMonitoring
  BY <1>0, <1>2, UnsubscribeType DEF TypeOK, StopMonitoring
<1>3. CASE Reconnected
  BY <1>0, <1>3, UnsubscribeType, DestroyQueuesType, ZenonT(60) DEF TypeOK, Reconnected
<1>4. CASE StopAll
  <2>1. /\ stopping' \in [Gens -> BOOLEAN] /\ dirty' \in [Gens -> BOOLEAN]
        /\ buffer' \in [Gens -> Seq(Messages)] /\ closing' \subseteq Gens
    BY <1>0, <1>4, UnsubscribeType, ZenonT(60) DEF TypeOK, StopAll
  <2>2. /\ shutdown' \in BOOLEAN /\ dbOpen' \in BOOLEAN
        /\ inflight' \subseteq Gens \X Messages /\ activeCalls' \in Nat
    BY <1>4 DEF StopAll
  <2>3. UNCHANGED <<posted, claimed, since, batch, checked, deferred, workVars, gens,
                    current, detaching, attempts, fate>>
    BY <1>4 DEF StopAll
  <2> QED BY <2>1, <2>2, <2>3 DEF TypeOK
<1>5. CASE Crash
  <2>1. fate' \in [Messages -> Fates]
    BY <1>5, SettleType DEF Crash
  <2>2. EmptyQueues \in [Conversations -> Seq(Messages)]
    BY DEF EmptyQueues
  <2>3. current' \in 0..MaxGen
    BY <1>5, BoundsAssumption DEF Crash
  <2>4. /\ dirty' \in [Gens -> BOOLEAN] /\ checked' \in [Gens -> BOOLEAN]
        /\ stopping' \in [Gens -> BOOLEAN]
    BY <1>5 DEF Crash
  <2>5. /\ buffer' \in [Gens -> Seq(Messages)] /\ batch' \in [Gens -> Seq(Messages)]
        /\ deferred' \in Seq(Gens \X Messages)
    BY <1>5, EmptySeq DEF Crash
  <2>6. /\ active' \in [Gens -> SUBSET Conversations]
        /\ queue' \in [Gens -> [Conversations -> Seq(Messages)]]
    BY <1>5, <2>2 DEF Crash
  <2>7. /\ runs' \subseteq Runs /\ loops' \subseteq Loops
        /\ inflight' \subseteq Gens \X Messages /\ activeCalls' \in Nat
        /\ closing' \subseteq Gens /\ detaching' \subseteq Gens
        /\ dbOpen' \in BOOLEAN /\ shutdown' \in BOOLEAN
    BY <1>5 DEF Crash
  <2>8. UNCHANGED <<posted, claimed, since, gens, attempts>>
    BY <1>5 DEF Crash
  <2> QED BY <2>1, <2>3, <2>4, <2>5, <2>6, <2>7, <2>8 DEF TypeOK
<1>6. ASSUME NEW g \in Gens, FinishStop(g) PROVE TypeOK'
  <2>1. current' \in 0..MaxGen
    BY <1>6, BoundsAssumption DEF FinishStop
  <2> QED BY <1>6, <2>1, DestroyQueuesType DEF TypeOK, FinishStop
<1>7. ASSUME NEW g \in Gens, FinishReconnect(g) PROVE TypeOK'
  <2>1. /\ since' \in [Gens -> Nat] /\ dirty' \in [Gens -> BOOLEAN]
        /\ gens' \in 0..MaxGen     /\ current' \in 0..MaxGen
    <3>1. CASE NewGeneration /\ dirty' = [dirty EXCEPT ![gens + 1] = TRUE]
      BY <3>1, NewGenerationType DEF TypeOK
    <3>2. CASE current' = 0 /\ UNCHANGED <<gens, since, dirty>>
      BY <3>2, BoundsAssumption DEF TypeOK
    <3> QED BY <1>7, <3>1, <3>2 DEF FinishReconnect
  <2>2. detaching' \subseteq Gens
    BY <1>7 DEF TypeOK, FinishReconnect
  <2>3. UNCHANGED <<posted, claimed, buffer, batch, checked, dbOpen, deferred, workVars,
                    callVars, stopping, closing, shutdown, attempts, fate>>
    BY <1>7 DEF FinishReconnect
  <2> QED BY <2>1, <2>2, <2>3 DEF TypeOK
<1> QED BY <1>1, <1>2, <1>3, <1>4, <1>5, <1>6, <1>7 DEF Monitoring

LEMMA InitType == Init => TypeOK
<1>1. EmptyQueues \in [Conversations -> Seq(Messages)]
  BY DEF EmptyQueues
<1>2. MaxGen \in Nat
  BY BoundsAssumption
<1> SUFFICES ASSUME Init PROVE TypeOK
  OBVIOUS
<1>3. /\ posted \in Seq(Messages) /\ deferred \in Seq(Gens \X Messages)
      /\ buffer \in [Gens -> Seq(Messages)] /\ batch \in [Gens -> Seq(Messages)]
  BY EmptySeq DEF Init
<1>4. queue \in [Gens -> [Conversations -> Seq(Messages)]]
  BY <1>1 DEF Init
<1>5. /\ fate \in [Messages -> Fates] /\ attempts \in [Messages -> Nat]
      /\ since \in [Gens -> Nat]
  BY DEF Init, Fates
<1>6. /\ dirty \in [Gens -> BOOLEAN] /\ checked \in [Gens -> BOOLEAN]
      /\ stopping \in [Gens -> BOOLEAN] /\ dbOpen \in BOOLEAN /\ shutdown \in BOOLEAN
  BY DEF Init
<1>7. /\ runs \subseteq Runs /\ loops \subseteq Loops /\ claimed \subseteq Messages
      /\ inflight \subseteq Gens \X Messages /\ activeCalls \in Nat
      /\ closing \subseteq Gens /\ detaching \subseteq Gens
      /\ gens \in 0..MaxGen /\ current \in 0..MaxGen
      /\ active \in [Gens -> SUBSET Conversations]
  BY <1>2 DEF Init
<1> QED BY <1>3, <1>4, <1>5, <1>6, <1>7 DEF TypeOK

LEMMA PostType ==
  ASSUME TypeOK, NEW m \in Messages, Post(m)
  PROVE  TypeOK'
BY TouchedType DEF TypeOK, Post, workVars, callVars, monitorVars

LEMMA StepType ==
  ASSUME TypeOK, [Next]_vars
  PROVE  TypeOK'
<1>1. CASE UNCHANGED vars
  BY <1>1 DEF TypeOK, vars, intakeVars, workVars, callVars, monitorVars
<1> QED BY <1>1, PostType, IntakeType, DispatchType, TimersType, MonitoringType DEF Next

(***************************************************************************)
(* Every variable of the pipeline keeps the values the code gives it; in   *)
(* particular the count of calls in flight never goes below zero.          *)
(***************************************************************************)
THEOREM TypeCorrect == Spec => []TypeOK
BY InitType, StepType, PTL DEF Spec

-----------------------------------------------------------------------------
(***************************************************************************)
(* How a step changes the queues.  Except where a message is queued, each  *)
(* queue loses some of its oldest entries, or none.                        *)
(***************************************************************************)
SuffixOf(s, t) ==
  \E k \in Nat : \A i \in DOMAIN s : i + k \in DOMAIN t /\ s[i] = t[i + k]

QueuesShrink ==
  \A g \in Gens, c \in Conversations : SuffixOf(queue'[g][c], queue[g][c])

LEMMA SuffixSelf ==
  ASSUME NEW S, NEW s \in Seq(S)
  PROVE  SuffixOf(s, s)
<1>1. \A i \in DOMAIN s : i + 0 \in DOMAIN s /\ s[i] = s[i + 0]
  OBVIOUS
<1> QED BY <1>1 DEF SuffixOf

LEMMA SuffixTail ==
  ASSUME NEW S, NEW s \in Seq(S), s # <<>>
  PROVE  SuffixOf(Tail(s), s)
<1>1. \A i \in DOMAIN Tail(s) : i + 1 \in DOMAIN s /\ Tail(s)[i] = s[i + 1]
  OBVIOUS
<1> QED BY <1>1 DEF SuffixOf

LEMMA SuffixDrop ==
  ASSUME NEW q \in Seq(Messages), NEW k \in 0..Len(q)
  PROVE  SuffixOf(DropOldest(q, k), q)
<1> DEFINE d == DropOldest(q, k)
<1>1. \A i \in DOMAIN d : i + k \in DOMAIN q /\ d[i] = q[i + k]
  BY DEF DropOldest
<1>2. k \in Nat
  OBVIOUS
<1> HIDE DEF d
<1>3. SuffixOf(d, q)
  BY <1>1, <1>2 DEF SuffixOf
<1> QED BY <1>3 DEF d

LEMMA QueuesKept ==
  ASSUME TypeOK, UNCHANGED queue
  PROVE  QueuesShrink
BY SuffixSelf DEF TypeOK, QueuesShrink

LEMMA DequeueShrinks ==
  ASSUME TypeOK, NEW l \in loops, Dequeue(l)
  PROVE  QueuesShrink
<1>1. l.gen \in Gens /\ l.conv \in Conversations
  BY DEF TypeOK, Loops
<1>2. queue' = [queue EXCEPT ![l.gen][l.conv] = Tail(queue[l.gen][l.conv])]
  BY DEF Dequeue
<1>3. queue[l.gen][l.conv] # <<>>
  BY DEF Dequeue
<1> SUFFICES ASSUME NEW g \in Gens, NEW c \in Conversations
             PROVE  SuffixOf(queue'[g][c], queue[g][c])
  BY DEF QueuesShrink
<1>4. queue[g][c] \in Seq(Messages)
  BY DEF TypeOK
<1>5. CASE g = l.gen /\ c = l.conv
  BY <1>1, <1>2, <1>3, <1>4, <1>5, SuffixTail DEF TypeOK
<1>6. CASE ~(g = l.gen /\ c = l.conv)
  BY <1>1, <1>2, <1>4, <1>6, SuffixSelf DEF TypeOK
<1> QED BY <1>5, <1>6

LEMMA ExpireShrinks ==
  ASSUME TypeOK, NEW g \in Gens, NEW c \in Conversations, ExpireStale(g, c)
  PROVE  QueuesShrink
<1> SUFFICES ASSUME NEW h \in Gens, NEW d \in Conversations
             PROVE  SuffixOf(queue'[h][d], queue[h][d])
  BY DEF QueuesShrink
<1>1. PICK k \in StalePrefixes(queue[g][c]) \ {0} :
        queue' = [queue EXCEPT ![g][c] = DropOldest(queue[g][c], k)]
  BY DEF ExpireStale
<1>2. queue[g][c] \in Seq(Messages) /\ queue[h][d] \in Seq(Messages)
  BY DEF TypeOK
<1>3. k \in 0..Len(queue[g][c])
  BY <1>2, StalePrefixesType
<1>4. SuffixOf(DropOldest(queue[g][c], k), queue[g][c])
  BY <1>2, <1>3, SuffixDrop
<1>5. CASE h = g /\ d = c
  BY <1>1, <1>4, <1>5 DEF TypeOK
<1>6. CASE ~(h = g /\ d = c)
  BY <1>1, <1>2, <1>6, SuffixSelf DEF TypeOK
<1> QED BY <1>5, <1>6

LEMMA DestroyShrinks ==
  ASSUME TypeOK, NEW g \in Gens, DestroyQueues(g)
  PROVE  QueuesShrink
<1> SUFFICES ASSUME NEW h \in Gens, NEW d \in Conversations
             PROVE  SuffixOf(queue'[h][d], queue[h][d])
  BY DEF QueuesShrink
<1>1. queue[h][d] \in Seq(Messages)
  BY DEF TypeOK
<1>2. CASE h = g
  <2>1. queue'[h][d] = <<>>
    BY <1>2 DEF TypeOK, DestroyQueues, EmptyQueues
  <2> QED BY <2>1 DEF SuffixOf
<1>3. CASE h # g
  BY <1>1, <1>3, SuffixSelf DEF TypeOK, DestroyQueues
<1> QED BY <1>2, <1>3

\* Every step shrinks the queues, but the one that queues a message.
LEMMA StepShrinks ==
  ASSUME TypeOK, [Next]_vars,
         ~ \E g \in Gens, m \in Messages : EnqueueMessage(g, m)
  PROVE  QueuesShrink
<1> USE DEF workVars
<1>0. CASE UNCHANGED vars
  BY <1>0, QueuesKept DEF vars
<1>1. ASSUME NEW m \in Messages, Post(m) PROVE QueuesShrink
  BY <1>1, QueuesKept DEF Post
<1>2. CASE Intake
  BY <1>2, QueuesKept DEF Intake, Deliver, TakeBatch, CheckProcessed, Claim, SkipOnDbError
<1>3. CASE Dispatch
  <2>1. ASSUME NEW g \in Gens, NEW m \in Messages, HandleUserMessage(g, m)
        PROVE  QueuesShrink
    BY <2>1, QueuesKept DEF HandleUserMessage, RejectAtCap, RefuseIntake, RefuseOverflow,
         RefuseConversation, StartRun, StartFails
  <2>2. ASSUME NEW r \in runs, FinishRun(r) \/ AbortRun(r) PROVE QueuesShrink
    BY <2>2, QueuesKept DEF FinishRun, AbortRun, ReleaseRun
  <2>3. ASSUME NEW l \in loops, StartQueued(l) \/ StartQueuedFails(l) \/ DropQueued(l)
        PROVE  QueuesShrink
    BY <2>3, DequeueShrinks DEF StartQueued, StartQueuedFails, MayStartQueued, DropQueued
  <2>4. ASSUME NEW l \in loops, EndLoop(l) PROVE QueuesShrink
    BY <2>4, QueuesKept DEF EndLoop
  <2> QED BY <1>3, <2>1, <2>2, <2>3, <2>4 DEF Dispatch
<1>4. CASE Timers
  BY <1>4, QueuesKept, ExpireShrinks DEF Timers, CallTimeout
<1>5. CASE Monitoring
  <2>0. current \in Gens \/ current = 0
    BY BoundsAssumption DEF TypeOK, Gens
  <2>1. CASE StartMonitoring \/ StopMonitoring \/ StopAll
    BY <2>1, QueuesKept DEF StartMonitoring, StopMonitoring, StopAll
  <2>2. CASE Reconnected
    BY <2>0, <2>2, DestroyShrinks DEF Reconnected
  <2>3. CASE Crash
    <3>1. \A g \in Gens, c \in Conversations : queue'[g][c] = <<>>
      BY <2>3 DEF Crash, EmptyQueues
    <3> QED BY <3>1 DEF QueuesShrink, SuffixOf
  <2>4. ASSUME NEW g \in Gens, FinishStop(g) PROVE QueuesShrink
    BY <2>4, DestroyShrinks DEF FinishStop
  <2>5. ASSUME NEW g \in Gens, FinishReconnect(g) PROVE QueuesShrink
    BY <2>5, QueuesKept DEF FinishReconnect
  <2> QED BY <1>5, <2>1, <2>2, <2>3, <2>4, <2>5 DEF Monitoring
<1> QED BY <1>0, <1>1, <1>2, <1>3, <1>4, <1>5 DEF Next

\* What queueing a message does to its queue.
LEMMA EnqueueAppends ==
  ASSUME TypeOK, NEW g \in Gens, NEW m \in Messages, EnqueueMessage(g, m)
  PROVE  \E q \in Seq(Messages) :
           /\ SuffixOf(q, queue[g][ConvOf[m]])
           /\ queue' = [queue EXCEPT ![g][ConvOf[m]] = Append(q, m)]
<1> DEFINE q == queue[g][ConvOf[m]]
<1>1. PICK k \in StalePrefixes(q) :
        queue' = [queue EXCEPT ![g][ConvOf[m]] = Append(DropOldest(q, k), m)]
  BY DEF EnqueueMessage
<1>2. q \in Seq(Messages)
  BY ConvOfAssumption DEF TypeOK
<1>3. k \in 0..Len(q)
  BY <1>2, StalePrefixesType
<1>4. DropOldest(q, k) \in Seq(Messages) /\ SuffixOf(DropOldest(q, k), q)
  BY <1>2, <1>3, SuffixDrop, DropOldestType
<1> QED BY <1>1, <1>4

-----------------------------------------------------------------------------
(***************************************************************************)
(* One worker per conversation.  ConversationSerial is not inductive: that *)
(* a run can only start for a conversation without one rests on the runs   *)
(* being in activeConversations, and on loops taking their steps before    *)
(* the next setImmediate callback.                                         *)
(***************************************************************************)
RunsAreActive == \A r \in runs : ConvOf[r.msg] \in active[r.gen]

OneRun ==
  \A r1, r2 \in runs : r1.gen = r2.gen /\ ConvOf[r1.msg] = ConvOf[r2.msg] => r1 = r2

OneLoop == \A l1, l2 \in loops : l1.gen = l2.gen /\ l1.conv = l2.conv => l1 = l2

RunOrLoop ==
  \A r \in runs, l \in loops : ~(r.gen = l.gen /\ ConvOf[r.msg] = l.conv)

SerialInv == RunsAreActive /\ OneRun /\ OneLoop /\ RunOrLoop

LEMMA SerialImplied == SerialInv => ConversationSerial
BY DEF SerialInv, RunsAreActive, OneRun, OneLoop, RunOrLoop, ConversationSerial, Workers

LEMMA SerialKept ==
  ASSUME SerialInv, UNCHANGED <<active, runs, loops>>
  PROVE  SerialInv'
BY DEF SerialInv, RunsAreActive, OneRun, OneLoop, RunOrLoop

\* The end of a run leaves nothing of its conversation behind but, perhaps, its loop.
LEMMA SerialReleased ==
  ASSUME TypeOK, SerialInv, NEW r \in runs, NEW f, ReleaseRun(r, f),
         loops' \subseteq loops \cup {Loop(r)}
  PROVE  SerialInv'
<1>0. /\ r.gen \in Gens
      /\ \A x \in runs : x.gen \in Gens
      /\ Loop(r).gen = r.gen /\ Loop(r).conv = ConvOf[r.msg]
  BY DEF TypeOK, Runs, Loop
<1>1. runs' = runs \ {r} /\ active' = [active EXCEPT ![r.gen] = @ \ {ConvOf[r.msg]}]
  BY DEF ReleaseRun
<1>2. RunsAreActive'
  BY <1>0, <1>1 DEF TypeOK, SerialInv, RunsAreActive, OneRun
<1>3. OneRun'
  BY <1>1 DEF SerialInv, OneRun
<1>4. OneLoop'
  BY <1>0 DEF SerialInv, OneLoop, RunOrLoop
<1>5. RunOrLoop'
  BY <1>0, <1>1 DEF SerialInv, RunOrLoop, OneRun
<1> QED BY <1>2, <1>3, <1>4, <1>5 DEF SerialInv

LEMMA SerialHandle ==
  ASSUME TypeOK, SerialInv, NEW g \in Gens, NEW m \in Messages, HandleUserMessage(g, m)
  PROVE  SerialInv'
<1>1. CASE StartRun(g, m)
  <2> DEFINE n == [gen |-> g, msg |-> m, count |-> 0]
  <2>1. /\ loops = {} /\ loops' = {} /\ runs' = runs \cup {n}
        /\ ConvOf[m] \notin active[g]
        /\ active' = [active EXCEPT ![g] = @ \cup {ConvOf[m]}]
    BY <1>1 DEF StartRun, MayStart, Handling, MicrotasksDone, Busy
  <2>2. n.gen = g /\ n.msg = m
    OBVIOUS
  <2>3. \A r \in runs : r.gen \in Gens
    BY DEF TypeOK, Runs
  <2> HIDE DEF n
  <2>4. RunsAreActive'
    BY <2>1, <2>2, <2>3 DEF TypeOK, SerialInv, RunsAreActive
  <2>5. OneRun'
    BY <2>1, <2>2 DEF SerialInv, RunsAreActive, OneRun
  <2> QED BY <2>1, <2>4, <2>5 DEF SerialInv, OneLoop, RunOrLoop
<1>2. CASE StartFails(g, m)
  <2>1. /\ UNCHANGED <<runs, loops>>
        /\ active' = [active EXCEPT ![g] = @ \cup {ConvOf[m]}]
    BY <1>2 DEF StartFails, MayStart
  <2>2. \A r \in runs : r.gen \in Gens
    BY DEF TypeOK, Runs
  <2>3. RunsAreActive'
    BY <2>1, <2>2 DEF TypeOK, SerialInv, RunsAreActive
  <2> QED BY <2>1, <2>3 DEF SerialInv, OneRun, OneLoop, RunOrLoop
<1>3. CASE EnqueueMessage(g, m)
  BY <1>3, SerialKept DEF EnqueueMessage
<1> QED BY <1>1, <1>2, <1>3, SerialKept
        DEF HandleUserMessage, RejectAtCap, RefuseIntake, RefuseOverflow,
            RefuseConversation, workVars

\* A message is in the queue of its own conversation.
QueuedBelong ==
  \A g \in Gens, c \in Conversations :
    \A i \in DOMAIN queue[g][c] : ConvOf[queue[g][c][i]] = c

LEMMA BelongStep ==
  ASSUME TypeOK, QueuedBelong, [Next]_vars
  PROVE  QueuedBelong'
<1>1. ASSUME QueuesShrink PROVE QueuedBelong'
  BY <1>1 DEF QueuedBelong, QueuesShrink, SuffixOf
<1>2. ASSUME NEW g \in Gens, NEW m \in Messages, EnqueueMessage(g, m)
      PROVE  QueuedBelong'
  <2> SUFFICES ASSUME NEW h \in Gens, NEW c \in Conversations,
                      NEW i \in DOMAIN queue'[h][c]
               PROVE  ConvOf[queue'[h][c][i]] = c
    BY DEF QueuedBelong
  <2>1. PICK q \in Seq(Messages) :
          /\ SuffixOf(q, queue[g][ConvOf[m]])
          /\ queue' = [queue EXCEPT ![g][ConvOf[m]] = Append(q, m)]
    BY <1>2, EnqueueAppends
  <2>2. ConvOf[m] \in Conversations
    BY ConvOfAssumption
  <2>3. \A j \in DOMAIN q : ConvOf[q[j]] = ConvOf[m]
    BY <2>1, <2>2 DEF QueuedBelong, SuffixOf
  <2>4. CASE h = g /\ c = ConvOf[m]
    <3>1. queue'[h][c] = Append(q, m)
      BY <2>1, <2>2, <2>4 DEF TypeOK
    <3>2. \A j \in DOMAIN Append(q, m) :
            \/ j \in DOMAIN q /\ Append(q, m)[j] = q[j]
            \/ Append(q, m)[j] = m
      BY <2>1
    <3> QED BY <2>3, <2>4, <3>1, <3>2
  <2>5. CASE ~(h = g /\ c = ConvOf[m])
    <3>1. queue'[h][c] = queue[h][c]
      BY <2>1, <2>2, <2>5 DEF TypeOK
    <3> QED BY <3>1 DEF QueuedBelong
  <2> QED BY <2>4, <2>5
<1> QED BY <1>1, <1>2, StepShrinks

\* A queued message starts in place of the loop that took it out.
LEMMA SerialStartQueued ==
  ASSUME TypeOK, SerialInv, QueuedBelong, NEW l \in loops, StartQueued(l)
  PROVE  SerialInv'
<1> DEFINE m == Head(queue[l.gen][l.conv])
<1> DEFINE n == [gen |-> l.gen, msg |-> m, count |-> l.count + 1]
<1>1. /\ l.gen \in Gens /\ l.conv \in Conversations
      /\ \A r \in runs : r.gen \in Gens
  BY DEF TypeOK, Loops, Runs
<1>2. /\ loops' = loops \ {l} /\ runs' = runs \cup {n}
      /\ active' = [active EXCEPT ![l.gen] = @ \cup {l.conv}]
      /\ queue[l.gen][l.conv] # <<>>
  BY DEF StartQueued, MayStartQueued, Dequeue
<1>3. queue[l.gen][l.conv] \in Seq(Messages)
  BY <1>1 DEF TypeOK
<1>4. 1 \in DOMAIN queue[l.gen][l.conv] /\ m = queue[l.gen][l.conv][1]
  BY <1>2, <1>3
<1>5. ConvOf[m] = l.conv
  BY <1>1, <1>4 DEF QueuedBelong
<1>6. n.gen = l.gen /\ n.msg = m
  OBVIOUS
<1> HIDE DEF n, m
<1>7. RunsAreActive'
  BY <1>1, <1>2, <1>5, <1>6 DEF TypeOK, SerialInv, RunsAreActive
<1>8. OneRun'
  BY <1>2, <1>5, <1>6 DEF SerialInv, OneRun, RunOrLoop
<1>9. OneLoop'
  BY <1>2 DEF SerialInv, OneLoop
<1>10. RunOrLoop'
  BY <1>2, <1>5, <1>6 DEF SerialInv, OneLoop, RunOrLoop
<1> QED BY <1>7, <1>8, <1>9, <1>10 DEF SerialInv

\* A loop that goes on is still the only one of its conversation.
LEMMA SerialNextRound ==
  ASSUME TypeOK, SerialInv, NEW l \in loops, UNCHANGED runs,
         \A g \in Gens : active[g] \subseteq active'[g],
         loops' \subseteq NextRound(l)
  PROVE  SerialInv'
<1> DEFINE n == [l EXCEPT !.count = @ + 1]
<1>1. n.gen = l.gen /\ n.conv = l.conv
  BY DEF TypeOK, Loops
<1>2. loops' \subseteq (loops \ {l}) \cup {n}
  BY DEF NextRound
<1> HIDE DEF n
<1>3. RunsAreActive'
  BY DEF TypeOK, Runs, SerialInv, RunsAreActive
<1>4. OneLoop' /\ RunOrLoop'
  BY <1>1, <1>2 DEF SerialInv, OneLoop, RunOrLoop
<1> QED BY <1>3, <1>4 DEF SerialInv, OneRun

LEMMA SerialStep ==
  ASSUME TypeOK, SerialInv, QueuedBelong, [Next]_vars
  PROVE  SerialInv'
<1> USE DEF workVars
<1>0. CASE UNCHANGED vars
  BY <1>0, SerialKept DEF vars
<1>1. ASSUME NEW m \in Messages, Post(m) PROVE SerialInv'
  BY <1>1, SerialKept DEF Post
<1>2. CASE Intake
  BY <1>2, SerialKept DEF Intake, Deliver, TakeBatch, CheckProcessed, Claim, SkipOnDbError
<1>3. CASE Dispatch
  <2>1. ASSUME NEW r \in runs, FinishRun(r) PROVE SerialInv'
    BY <2>1, SerialReleased DEF FinishRun
  <2>2. ASSUME NEW r \in runs, AbortRun(r) PROVE SerialInv'
    <3>1. ReleaseRun(r, "unanswered") /\ loops' \subseteq loops \cup {Loop(r)}
      BY <2>2 DEF AbortRun
    <3> QED BY <3>1, SerialReleased
  <2>3. ASSUME NEW l \in loops, StartQueued(l) PROVE SerialInv'
    BY <2>3, SerialStartQueued
  <2>4. ASSUME NEW l \in loops, StartQueuedFails(l) PROVE SerialInv'
    <3>1. /\ UNCHANGED runs
          /\ active' = [active EXCEPT ![l.gen] = @ \cup {l.conv}]
          /\ loops' \subseteq NextRound(l)
      BY <2>4 DEF StartQueuedFails, MayStartQueued, NextRound
    <3>2. \A g \in Gens : active[g] \subseteq active'[g]
      BY <3>1 DEF TypeOK
    <3> QED BY <3>1, <3>2, SerialNextRound
  <2>5. ASSUME NEW l \in loops, DropQueued(l) PROVE SerialInv'
    BY <2>5, SerialNextRound DEF DropQueued
  <2>6. ASSUME NEW l \in loops, EndLoop(l) PROVE SerialInv'
    BY <2>6 DEF EndLoop, SerialInv, RunsAreActive, OneRun, OneLoop, RunOrLoop
  <2> QED BY <1>3, <2>1, <2>2, <2>3, <2>4, <2>5, <2>6, SerialHandle DEF Dispatch
<1>4. CASE Timers
  BY <1>4, SerialKept DEF Timers, CallTimeout, ExpireStale
<1>5. CASE Monitoring
  <2>1. CASE Crash
    BY <2>1 DEF Crash, SerialInv, RunsAreActive, OneRun, OneLoop, RunOrLoop
  <2>2. CASE Monitoring /\ ~Crash
    BY <2>2, SerialKept DEF Monitoring, StartMonitoring, StopMonitoring, Reconnected,
         StopAll, FinishStop, FinishReconnect
  <2> QED BY <1>5, <2>1, <2>2
<1> QED BY <1>0, <1>1, <1>2, <1>3, <1>4, <1>5 DEF Next

LEMMA SerialInit == Init => SerialInv /\ QueuedBelong
BY DEF Init, SerialInv, RunsAreActive, OneRun, OneLoop, RunOrLoop, QueuedBelong, EmptyQueues

(***************************************************************************)
(* Whatever fails, stops, reconnects or restarts, a processing state never *)
(* works on a conversation twice at a time.                                *)
(***************************************************************************)
THEOREM SerialConversations == Spec => []ConversationSerial
<1>1. Init => TypeOK /\ SerialInv /\ QueuedBelong
  BY InitType, SerialInit
<1>2. TypeOK /\ SerialInv /\ QueuedBelong /\ [Next]_vars
        => (TypeOK /\ SerialInv /\ QueuedBelong)'
  BY StepType, SerialStep, BelongStep
<1> QED BY <1>1, <1>2, SerialImplied, PTL DEF Spec

-----------------------------------------------------------------------------
(***************************************************************************)
(* At most one run.  A message waits, deferred or queued, in one place     *)
(* only; while it waits it is claimed and has had no run, so the run it    *)
(* gets when it leaves that place is its first.  An unclaimed message has  *)
(* had none, so the claim can put it in its place.                         *)
(***************************************************************************)
WaitOnce ==
  /\ \A i, j \in DOMAIN deferred : deferred[i][2] = deferred[j][2] => i = j
  /\ \A g, h \in Gens, c, d \in Conversations :
       \A i \in DOMAIN queue[g][c], j \in DOMAIN queue[h][d] :
         queue[g][c][i] = queue[h][d][j] => g = h /\ c = d /\ i = j
  /\ \A k \in DOMAIN deferred, g \in Gens, c \in Conversations :
       \A i \in DOMAIN queue[g][c] : deferred[k][2] # queue[g][c][i]

Fresh(m) == m \in claimed /\ attempts[m] = 0

WaitFresh ==
  /\ \A i \in DOMAIN deferred : Fresh(deferred[i][2])
  /\ \A g \in Gens, c \in Conversations : \A i \in DOMAIN queue[g][c] : Fresh(queue[g][c][i])

RunsClaimed == \A m \in Messages : attempts[m] > 0 => m \in claimed

OnceInv == WaitOnce /\ WaitFresh /\ RunsClaimed /\ AtMostOneRun

LEMMA TailIndex ==
  ASSUME NEW S, NEW s \in Seq(S), s # <<>>
  PROVE  /\ 1 \in DOMAIN s /\ s[1] = Head(s) /\ Head(s) \in S
         /\ \A i \in DOMAIN Tail(s) :
              i + 1 \in DOMAIN s /\ i + 1 # 1 /\ Tail(s)[i] = s[i + 1]
OBVIOUS

LEMMA QueueType == TypeOK => queue \in [Gens -> [Conversations -> Seq(Messages)]]
BY DEF TypeOK

LEMMA WaitOnceShrinks ==
  ASSUME TypeOK, TypeOK', WaitOnce, SuffixOf(deferred', deferred), QueuesShrink
  PROVE  WaitOnce'
<1>1. PICK n \in Nat :
        \A i \in DOMAIN deferred' : i + n \in DOMAIN deferred /\ deferred'[i] = deferred[i + n]
  BY DEF SuffixOf
<1>2. DOMAIN deferred' \subseteq Int
  BY DEF TypeOK
<1>3. ASSUME NEW i \in DOMAIN deferred', NEW j \in DOMAIN deferred',
             deferred'[i][2] = deferred'[j][2]
      PROVE  i = j
  <2>1. i + n \in DOMAIN deferred /\ j + n \in DOMAIN deferred
    BY <1>1
  <2>2. deferred[i + n][2] = deferred[j + n][2]
    BY <1>1, <1>3
  <2>3. i + n = j + n
    BY <2>1, <2>2 DEF WaitOnce
  <2>4. \A x, y \in Int : x + n = y + n => x = y
    OBVIOUS
  <2>5. i \in Int /\ j \in Int
    BY <1>2
  <2> QED BY <2>3, <2>4, <2>5
<1>4. ASSUME NEW g \in Gens, NEW h \in Gens, NEW c \in Conversations, NEW d \in Conversations,
             NEW i \in DOMAIN queue'[g][c], NEW j \in DOMAIN queue'[h][d],
             queue'[g][c][i] = queue'[h][d][j]
      PROVE  g = h /\ c = d /\ i = j
  <2>1. PICK k \in Nat : \A x \in DOMAIN queue'[g][c] :
          x + k \in DOMAIN queue[g][c] /\ queue'[g][c][x] = queue[g][c][x + k]
    BY DEF QueuesShrink, SuffixOf
  <2>2. PICK l \in Nat : \A x \in DOMAIN queue'[h][d] :
          x + l \in DOMAIN queue[h][d] /\ queue'[h][d][x] = queue[h][d][x + l]
    BY DEF QueuesShrink, SuffixOf
  <2>3. g = h /\ c = d /\ i + k = j + l
    BY <1>4, <2>1, <2>2 DEF WaitOnce
  <2>4. queue'[g][c] \in Seq(Messages) /\ queue[g][c] \in Seq(Messages)
    BY DEF TypeOK
  <2>5. i \in Int /\ j \in Int
    BY <2>3, <2>4
  <2>6. queue'[g][c][i] = queue[g][c][i + k] /\ queue'[g][c][j] = queue[g][c][j + k]
    BY <2>1, <2>3
  <2>7. i + k \in DOMAIN queue[g][c] /\ j + k \in DOMAIN queue[g][c]
    BY <2>1, <2>3
  <2>8. queue[g][c][i + k] = queue[g][c][j + k]
    BY <1>4, <2>3, <2>6
  <2>9. i + k = j + k
    BY <2>7, <2>8 DEF WaitOnce
  <2> QED BY <2>3, <2>5, <2>9
<1>5. ASSUME NEW k \in DOMAIN deferred', NEW g \in Gens, NEW c \in Conversations,
             NEW i \in DOMAIN queue'[g][c]
      PROVE  deferred'[k][2] # queue'[g][c][i]
  BY <1>1 DEF QueuesShrink, SuffixOf, WaitOnce
<1> QED BY <1>3, <1>4, <1>5 DEF WaitOnce

Waiting(m) ==
  \/ \E i \in DOMAIN deferred : deferred[i][2] = m
  \/ \E g \in Gens, c \in Conversations : \E i \in DOMAIN queue[g][c] : queue[g][c][i] = m

LEMMA WaitingShrinks ==
  ASSUME SuffixOf(deferred', deferred), QueuesShrink
  PROVE  \A m : Waiting(m)' => Waiting(m)
BY DEF Waiting, SuffixOf, QueuesShrink

LEMMA WaitingType ==
  ASSUME TypeOK, NEW m, Waiting(m)
  PROVE  m \in Messages
<1>1. CASE \E i \in DOMAIN deferred : deferred[i][2] = m
  <2>1. PICK i \in DOMAIN deferred : deferred[i][2] = m
    BY <1>1
  <2>2. deferred[i] \in Gens \X Messages
    BY DEF TypeOK
  <2> QED BY <2>1, <2>2
<1>2. CASE \E g \in Gens, c \in Conversations :
             \E i \in DOMAIN queue[g][c] : queue[g][c][i] = m
  BY <1>2 DEF TypeOK
<1> QED BY <1>1, <1>2 DEF Waiting

LEMMA WaitingFresh == WaitFresh <=> \A m : Waiting(m) => Fresh(m)
BY DEF WaitFresh, Waiting

\* A step that neither claims nor starts anything.
LEMMA OnceShrinks ==
  ASSUME TypeOK, TypeOK', OnceInv, SuffixOf(deferred', deferred), QueuesShrink,
         UNCHANGED <<claimed, attempts>>
  PROVE  OnceInv'
<1>1. WaitOnce'
  BY WaitOnceShrinks DEF OnceInv
<1>2. WaitFresh'
  BY WaitingShrinks, WaitingFresh DEF OnceInv, WaitFresh, Waiting, Fresh
<1> QED BY <1>1, <1>2 DEF OnceInv, RunsClaimed, AtMostOneRun

\* A run starts for a message that waited and waits no more.
LEMMA OnceStarts ==
  ASSUME TypeOK, TypeOK', OnceInv, SuffixOf(deferred', deferred), QueuesShrink,
         UNCHANGED claimed, NEW m \in Messages, Waiting(m), ~Waiting(m)',
         attempts' = [attempts EXCEPT ![m] = @ + 1]
  PROVE  OnceInv'
<1>1. WaitOnce'
  BY WaitOnceShrinks DEF OnceInv
<1>2. Fresh(m)
  BY WaitingFresh DEF OnceInv
<1>3. \A x \in Messages : x # m => attempts'[x] = attempts[x]
  BY DEF TypeOK
<1>4. attempts'[m] = 1
  BY <1>2 DEF TypeOK, Fresh
<1>5. RunsClaimed' /\ AtMostOneRun'
  BY <1>2, <1>3, <1>4 DEF OnceInv, RunsClaimed, AtMostOneRun, Fresh
<1>6. \A x : Waiting(x)' => x \in Messages
  BY WaitingShrinks, WaitingType
<1>7. \A x : Waiting(x)' => Fresh(x)'
  BY <1>3, <1>6, WaitingShrinks, WaitingFresh DEF OnceInv, Fresh
<1>8. WaitFresh'
  BY <1>7 DEF WaitFresh, Waiting
<1> QED BY <1>1, <1>5, <1>8 DEF OnceInv

LEMMA HandlingDeferred ==
  ASSUME TypeOK, NEW g, NEW m, Handling(g, m)
  PROVE  /\ SuffixOf(deferred', deferred)
         /\ deferred \in Seq(Gens \X Messages) /\ deferred # <<>>
         /\ deferred[1] = <<g, m>> /\ deferred' = Tail(deferred)
<1>1. /\ deferred \in Seq(Gens \X Messages) /\ deferred # <<>>
      /\ deferred[1] = <<g, m>> /\ deferred' = Tail(deferred)
  BY DEF TypeOK, Handling
<1> QED BY <1>1, SuffixTail

LEMMA OnceStartRun ==
  ASSUME TypeOK, TypeOK', OnceInv, NEW g \in Gens, NEW m \in Messages, StartRun(g, m)
  PROVE  OnceInv'
<1>1. Handling(g, m) /\ UNCHANGED <<claimed, queue>>
      /\ attempts' = [attempts EXCEPT ![m] = @ + 1]
  BY DEF StartRun, MayStart
<1>2. QueuesShrink
  BY <1>1, QueuesKept
<1>0. /\ deferred \in Seq(Gens \X Messages) /\ deferred # <<>>
      /\ deferred[1] = <<g, m>> /\ deferred' = Tail(deferred)
  BY <1>1, HandlingDeferred
<1>3. /\ 1 \in DOMAIN deferred /\ deferred[1][2] = m
      /\ \A i \in DOMAIN deferred' : /\ i + 1 \in DOMAIN deferred /\ i + 1 # 1
                                     /\ deferred'[i] = deferred[i + 1]
  BY <1>0, TailIndex
<1>4. Waiting(m)
  BY <1>3 DEF Waiting
<1>5. \A i \in DOMAIN deferred' : deferred'[i][2] # m
  BY <1>3 DEF OnceInv, WaitOnce
<1>6. \A h \in Gens, c \in Conversations : \A i \in DOMAIN queue'[h][c] : queue'[h][c][i] # m
  BY <1>1, <1>3 DEF OnceInv, WaitOnce
<1>7. ~Waiting(m)'
  BY <1>5, <1>6 DEF Waiting
<1> QED BY <1>1, <1>2, <1>4, <1>7, HandlingDeferred, OnceStarts

LEMMA OnceStartQueued ==
  ASSUME TypeOK, TypeOK', OnceInv, NEW l \in loops, StartQueued(l)
  PROVE  OnceInv'
<1> DEFINE q == queue[l.gen][l.conv]
<1>1. /\ Dequeue(l) /\ UNCHANGED <<claimed, deferred>>
      /\ attempts' = [attempts EXCEPT ![Head(q)] = @ + 1]
  BY DEF StartQueued, MayStartQueued
<1>2. l.gen \in Gens /\ l.conv \in Conversations
  BY DEF TypeOK, Loops
<1>3. q \in Seq(Messages) /\ q # <<>> /\ queue' = [queue EXCEPT ![l.gen][l.conv] = Tail(q)]
  BY <1>1, <1>2, QueueType DEF Dequeue
<1>4. /\ 1 \in DOMAIN q /\ q[1] = Head(q) /\ Head(q) \in Messages
      /\ \A i \in DOMAIN Tail(q) : i + 1 \in DOMAIN q /\ i + 1 # 1 /\ Tail(q)[i] = q[i + 1]
  BY <1>3, TailIndex
<1>5. PICK m \in Messages : m = Head(q)
  BY <1>4
<1>6. SuffixOf(deferred', deferred) /\ QueuesShrink
  BY <1>1, DequeueShrinks, SuffixSelf DEF TypeOK
<1>7. Waiting(m)
  BY <1>2, <1>4, <1>5 DEF Waiting
<1>8. \A i \in DOMAIN deferred' : deferred'[i][2] # m
  BY <1>1, <1>2, <1>4, <1>5 DEF OnceInv, WaitOnce
<1>9. ASSUME NEW h \in Gens, NEW c \in Conversations, NEW i \in DOMAIN queue'[h][c],
             queue'[h][c][i] = m
      PROVE  FALSE
  <2>1. CASE h = l.gen /\ c = l.conv
    <3>1. queue'[h][c] = Tail(q)
      BY <1>2, <1>3, <2>1, QueueType
    <3>2. i + 1 \in DOMAIN q /\ i + 1 # 1 /\ q[i + 1] = q[1]
      BY <1>4, <1>5, <1>9, <3>1
    <3>3. i + 1 = 1
      BY <1>2, <1>4, <3>2 DEF OnceInv, WaitOnce
    <3> QED BY <3>2, <3>3
  <2>2. CASE ~(h = l.gen /\ c = l.conv)
    <3>1. queue'[h][c] = queue[h][c]
      BY <1>2, <1>3, <2>2, QueueType
    <3>2. i \in DOMAIN queue[h][c] /\ queue[h][c][i] = q[1]
      BY <1>4, <1>5, <1>9, <3>1
    <3> QED BY <1>2, <1>4, <2>2, <3>2 DEF OnceInv, WaitOnce
  <2> QED BY <2>1, <2>2
<1>10. ~Waiting(m)'
  BY <1>8, <1>9 DEF Waiting
<1>11. attempts' = [attempts EXCEPT ![m] = @ + 1]
  BY <1>1, <1>5
<1> QED BY <1>1, <1>6, <1>7, <1>10, <1>11, OnceStarts

\* The message at the head of the deferred callbacks moves to the end of its queue.
LEMMA OnceEnqueue ==
  ASSUME TypeOK, TypeOK', OnceInv, NEW g \in Gens, NEW m \in Messages, EnqueueMessage(g, m)
  PROVE  OnceInv'
<1> DEFINE c == ConvOf[m]
<1>1. Handling(g, m) /\ UNCHANGED <<claimed, attempts>>
  BY DEF EnqueueMessage
<1>2. /\ deferred \in Seq(Gens \X Messages) /\ deferred # <<>>
      /\ deferred[1] = <<g, m>> /\ deferred' = Tail(deferred)
  BY <1>1, HandlingDeferred
<1>3. /\ 1 \in DOMAIN deferred /\ deferred[1][2] = m
      /\ \A i \in DOMAIN deferred' : /\ i + 1 \in DOMAIN deferred /\ i + 1 # 1
                                     /\ deferred'[i] = deferred[i + 1]
  BY <1>2, TailIndex
<1>4. PICK q \in Seq(Messages) :
        SuffixOf(q, queue[g][c]) /\ queue' = [queue EXCEPT ![g][c] = Append(q, m)]
  BY EnqueueAppends
<1>5. PICK k \in Nat :
        \A i \in DOMAIN q : i + k \in DOMAIN queue[g][c] /\ q[i] = queue[g][c][i + k]
  BY <1>4 DEF SuffixOf
<1>6. c \in Conversations
  BY ConvOfAssumption
<1>7. Fresh(m)
  BY <1>3 DEF OnceInv, WaitFresh
<1>8. \A h \in Gens, d \in Conversations : \A i \in DOMAIN queue[h][d] : queue[h][d][i] # m
  BY <1>3 DEF OnceInv, WaitOnce
\* An entry of a queue after the step is m itself or was an entry of that queue.
<1> DEFINE shift(h, d) == IF h = g /\ d = c THEN k ELSE 0
<1>9. ASSUME NEW h \in Gens, NEW d \in Conversations, NEW i \in DOMAIN queue'[h][d]
      PROVE  /\ i \in Int
             /\ \/ h = g /\ d = c /\ i = Len(q) + 1 /\ queue'[h][d][i] = m
                \/ /\ i + shift(h, d) \in DOMAIN queue[h][d]
                   /\ queue'[h][d][i] = queue[h][d][i + shift(h, d)]
  <2>0. queue'[h][d] \in Seq(Messages)
    BY DEF TypeOK
  <2>1. CASE h = g /\ d = c
    <3>1. queue'[h][d] = Append(q, m)
      BY <1>4, <1>6, <2>1, QueueType
    <3>2. /\ i \in Int
          /\ \/ i = Len(q) + 1 /\ Append(q, m)[i] = m
             \/ i \in DOMAIN q /\ Append(q, m)[i] = q[i]
      <4>1. i \in 1..Len(q) + 1
        BY <3>1
      <4>2. DOMAIN q = 1..Len(q) /\ Len(q) \in Nat
        OBVIOUS
      <4>3. Append(q, m)[Len(q) + 1] = m /\ \A j \in 1..Len(q) : Append(q, m)[j] = q[j]
        OBVIOUS
      <4> QED BY <4>1, <4>2, <4>3
    <3>3. i \in DOMAIN q => i + k \in DOMAIN queue[g][c] /\ q[i] = queue[g][c][i + k]
      BY <1>5
    <3>4. shift(h, d) = k
      BY <2>1
    <3> HIDE DEF shift
    <3> QED BY <2>1, <3>1, <3>2, <3>3, <3>4
  <2>2. CASE ~(h = g /\ d = c)
    <3>1. queue'[h][d] = queue[h][d]
      BY <1>4, <1>6, <2>2, QueueType
    <3>2. i \in Int /\ i + 0 = i
      BY <2>0
    <3> QED BY <2>2, <3>1, <3>2
  <2> QED BY <2>1, <2>2
<1>10. \A h \in Gens, d \in Conversations : shift(h, d) \in Int
  OBVIOUS
<1> HIDE DEF shift
<1>11. ASSUME NEW h \in Gens, NEW e \in Gens, NEW d \in Conversations, NEW b \in Conversations,
              NEW i \in DOMAIN queue'[h][d], NEW j \in DOMAIN queue'[e][b],
              queue'[h][d][i] = queue'[e][b][j]
       PROVE  h = e /\ d = b /\ i = j
  <2>1. CASE queue'[h][d][i] = m
    <3>1. h = g /\ d = c /\ i = Len(q) + 1
      BY <1>8, <1>9, <2>1
    <3>0. queue'[e][b][j] = m
      BY <1>11, <2>1
    <3>2. e = g /\ b = c /\ j = Len(q) + 1
      BY <1>8, <1>9, <3>0
    <3> QED BY <3>1, <3>2
  <2>2. CASE queue'[h][d][i] # m
    <3>1. /\ i + shift(h, d) \in DOMAIN queue[h][d]
          /\ j + shift(e, b) \in DOMAIN queue[e][b]
          /\ queue[h][d][i + shift(h, d)] = queue[e][b][j + shift(e, b)]
      BY <1>9, <1>11, <2>2
    <3>2. h = e /\ d = b /\ i + shift(h, d) = j + shift(e, b)
      BY <3>1 DEF OnceInv, WaitOnce
    <3>3. i \in Int /\ j \in Int
      BY <1>9
    <3> QED BY <1>10, <3>2, <3>3
  <2> QED BY <2>1, <2>2
<1>12. \A i \in DOMAIN deferred' : deferred'[i][2] # m
  BY <1>3 DEF OnceInv, WaitOnce
<1>13. ASSUME NEW x \in DOMAIN deferred', NEW h \in Gens, NEW d \in Conversations,
              NEW i \in DOMAIN queue'[h][d]
       PROVE  deferred'[x][2] # queue'[h][d][i]
  BY <1>3, <1>9, <1>12 DEF OnceInv, WaitOnce
<1>14. ASSUME NEW i \in DOMAIN deferred', NEW j \in DOMAIN deferred',
              deferred'[i][2] = deferred'[j][2]
       PROVE  i = j
  <2>1. i + 1 = j + 1
    BY <1>3, <1>14 DEF OnceInv, WaitOnce
  <2>2. i \in Int /\ j \in Int
    BY <1>2 DEF TypeOK
  <2> QED BY <2>1, <2>2
<1>15. WaitOnce'
  BY <1>11, <1>13, <1>14 DEF WaitOnce
<1>16. WaitFresh'
  BY <1>1, <1>3, <1>7, <1>9 DEF OnceInv, WaitFresh, Fresh
<1> QED BY <1>1, <1>15, <1>16 DEF OnceInv, RunsClaimed, AtMostOneRun

\* A message that was claimed by nobody joins the deferred callbacks.
LEMMA OnceClaim ==
  ASSUME TypeOK, TypeOK', OnceInv, NEW g \in Gens, Claim(g)
  PROVE  OnceInv'
<1>1. PICK m \in Messages : m = Head(batch[g])
  BY DEF TypeOK, Claim
<1>2. /\ claimed' = claimed \cup {m} /\ UNCHANGED <<queue, attempts>>
      /\ \/ UNCHANGED deferred
         \/ m \notin claimed /\ deferred' = Append(deferred, <<g, m>>)
  BY <1>1 DEF Claim, WinsClaim, workVars
<1>3. RunsClaimed' /\ AtMostOneRun'
  BY <1>2 DEF OnceInv, RunsClaimed, AtMostOneRun
<1>4. CASE UNCHANGED deferred
  BY <1>2, <1>3, <1>4 DEF OnceInv, WaitOnce, WaitFresh, Fresh
<1>5. CASE m \notin claimed /\ deferred' = Append(deferred, <<g, m>>)
  <2>1. attempts[m] = 0
    <3>1. ~(attempts[m] > 0)
      BY <1>5 DEF OnceInv, RunsClaimed
    <3>2. attempts[m] \in Nat
      BY DEF TypeOK
    <3> QED BY <3>1, <3>2
  <2>2. deferred \in Seq(Gens \X Messages)
    BY DEF TypeOK
  <2>3. \A i \in DOMAIN deferred' :
          \/ i \in DOMAIN deferred /\ deferred'[i] = deferred[i]
          \/ i = Len(deferred) + 1 /\ deferred'[i] = <<g, m>>
    BY <1>5, <2>2
  <2>4. \A i \in DOMAIN deferred : deferred[i][2] # m
    BY <1>5 DEF OnceInv, WaitFresh, Fresh
  <2>5. \A h \in Gens, c \in Conversations : \A i \in DOMAIN queue[h][c] : queue[h][c][i] # m
    BY <1>5 DEF OnceInv, WaitFresh, Fresh
  <2>6. WaitOnce'
    BY <1>2, <2>3, <2>4, <2>5 DEF OnceInv, WaitOnce
  <2>7. WaitFresh'
    BY <1>2, <2>1, <2>3 DEF OnceInv, WaitFresh, Fresh
  <2> QED BY <1>3, <2>6, <2>7 DEF OnceInv
<1> QED BY <1>2, <1>4, <1>5

\* Every other step only takes messages out of their places.
LEMMA OtherSteps ==
  ASSUME TypeOK, [Next]_vars,
         ~ \E g \in Gens : Claim(g),
         ~ \E g \in Gens, m \in Messages : StartRun(g, m),
         ~ \E l \in loops : StartQueued(l)
  PROVE  SuffixOf(deferred', deferred) /\ UNCHANGED <<claimed, attempts>>
<1>0. UNCHANGED deferred => SuffixOf(deferred', deferred)
  BY SuffixSelf DEF TypeOK
<1>1. CASE UNCHANGED vars
  BY <1>0, <1>1 DEF vars
<1>2. ASSUME NEW m \in Messages, Post(m)
      PROVE  UNCHANGED <<deferred, claimed, attempts>>
  BY <1>2 DEF Post
<1>3. CASE Intake
  BY <1>0, <1>3 DEF Intake, Deliver, TakeBatch, CheckProcessed, SkipOnDbError
<1>4. CASE Dispatch
  <2>1. ASSUME NEW g \in Gens, NEW m \in Messages, HandleUserMessage(g, m)
        PROVE  Handling(g, m) /\ UNCHANGED <<claimed, attempts>>
    BY <2>1 DEF HandleUserMessage, RejectAtCap, RefuseIntake, EnqueueMessage, RefuseOverflow,
         RefuseConversation, StartFails, MayStart
  <2>2. ASSUME NEW r \in runs, FinishRun(r) \/ AbortRun(r)
        PROVE  UNCHANGED <<deferred, claimed, attempts>>
    BY <2>2 DEF FinishRun, AbortRun, ReleaseRun
  <2>3. ASSUME NEW l \in loops, StartQueuedFails(l) \/ DropQueued(l) \/ EndLoop(l)
        PROVE  UNCHANGED <<deferred, claimed, attempts>>
    BY <2>3 DEF StartQueuedFails, DropQueued, EndLoop
  <2> QED BY <1>0, <1>4, <2>1, <2>2, <2>3, HandlingDeferred DEF Dispatch
<1>5. CASE Timers
  BY <1>0, <1>5 DEF Timers, CallTimeout, ExpireStale
<1>6. CASE Monitoring
  <2>1. CASE Crash
    <3>1. deferred' = <<>> /\ UNCHANGED <<claimed, attempts>>
      BY <2>1 DEF Crash
    <3> QED BY <3>1 DEF SuffixOf
  <2>2. CASE Monitoring /\ ~Crash
    BY <1>0, <2>2 DEF Monitoring, StartMonitoring, StopMonitoring, Reconnected, StopAll,
         FinishStop, FinishReconnect
  <2> QED BY <1>6, <2>1, <2>2
<1> QED BY <1>0, <1>1, <1>2, <1>3, <1>4, <1>5, <1>6 DEF Next

LEMMA OnceStep ==
  ASSUME TypeOK, OnceInv, [Next]_vars
  PROVE  OnceInv'
<1>0. TypeOK'
  BY StepType
<1>1. ASSUME NEW g \in Gens, Claim(g) PROVE OnceInv'
  BY <1>0, <1>1, OnceClaim
<1>2. ASSUME NEW g \in Gens, NEW m \in Messages, StartRun(g, m) PROVE OnceInv'
  BY <1>0, <1>2, OnceStartRun
<1>3. ASSUME NEW l \in loops, StartQueued(l) PROVE OnceInv'
  BY <1>0, <1>3, OnceStartQueued
<1>4. ASSUME NEW g \in Gens, NEW m \in Messages, EnqueueMessage(g, m) PROVE OnceInv'
  BY <1>0, <1>4, OnceEnqueue
<1>5. CASE /\ ~ \E g \in Gens : Claim(g)
           /\ ~ \E g \in Gens, m \in Messages : StartRun(g, m) \/ EnqueueMessage(g, m)
           /\ ~ \E l \in loops : StartQueued(l)
  BY <1>0, <1>5, OtherSteps, StepShrinks, OnceShrinks
<1> QED BY <1>1, <1>2, <1>3, <1>4, <1>5

LEMMA OnceInit == Init => OnceInv
BY DEF Init, OnceInv, WaitOnce, WaitFresh, RunsClaimed, AtMostOneRun, EmptyQueues

(***************************************************************************)
(* No message is given to the agent twice, for any number of messages,     *)
(* redeliveries, generations, reconnections and restarts.                  *)
(***************************************************************************)
THEOREM AtMostOnce == Spec => []AtMostOneRun
<1>1. Init => TypeOK /\ OnceInv
  BY InitType, OnceInit
<1>2. TypeOK /\ OnceInv /\ [Next]_vars => (TypeOK /\ OnceInv)'
  BY StepType, OnceStep
<1>3. OnceInv => AtMostOneRun
  BY DEF OnceInv
<1> QED BY <1>1, <1>2, <1>3, PTL DEF Spec

-----------------------------------------------------------------------------
(***************************************************************************)
(* The cap on agent runs.  Queued messages start without asking for a      *)
(* slot; that the runs stay within the cap all the same rests on a loop    *)
(* standing in for the run it follows, and on the loops taking their steps *)
(* before the next callback asks.  That the count of calls covers the runs *)
(* holds as long as no timer gives a slot back early.                      *)
(***************************************************************************)
FiniteWork == IsFiniteSet(runs) /\ IsFiniteSet(loops) /\ IsFiniteSet(inflight)

RunsHoldSlots == \A r \in runs : <<r.gen, r.msg>> \in inflight

SlotsCounted == activeCalls >= Cardinality(inflight)

WorkCapped == MaxCalls > 0 => Cardinality(runs) + Cardinality(loops) <= MaxCalls

CapInv == ~shutdown => FiniteWork /\ RunsHoldSlots /\ SlotsCounted /\ WorkCapped

LEMMA AddOne ==
  ASSUME NEW S, NEW x, IsFiniteSet(S)
  PROVE  IsFiniteSet(S \cup {x}) /\ Cardinality(S \cup {x}) <= Cardinality(S) + 1
<1>1. Cardinality(S) \in Nat
  BY FS_CardinalityType
<1>2. IsFiniteSet(S \cup {x})
  BY FS_AddElement
<1>3. Cardinality(S \cup {x}) = IF x \in S THEN Cardinality(S) ELSE Cardinality(S) + 1
  BY FS_AddElement
<1> QED BY <1>1, <1>2, <1>3

LEMMA WorkTypes ==
  ASSUME FiniteWork
  PROVE  Cardinality(runs) \in Nat /\ Cardinality(loops) \in Nat /\ Cardinality(inflight) \in Nat
BY FS_CardinalityType DEF FiniteWork

\* Two runs never share a slot, so the slots taken bound the runs.
LEMMA RunsWithinSlots ==
  ASSUME SerialInv, FiniteWork, RunsHoldSlots
  PROVE  Cardinality(runs) <= Cardinality(inflight)
<1> DEFINE slot == [r \in runs |-> <<r.gen, r.msg>>]
<1>1. slot \in [runs -> inflight]
  BY DEF RunsHoldSlots
<1>2. \A r1, r2 \in runs : slot[r1] = slot[r2] => r1 = r2
  BY DEF SerialInv, OneRun
<1>3. slot \in Injection(runs, inflight)
  BY <1>1, <1>2 DEF Injection, IsInjective
<1> HIDE DEF slot
<1> QED BY <1>3, FS_Injection DEF FiniteWork

\* A slot is taken, for a run or in vain.
LEMMA SlotsBegin ==
  ASSUME TypeOK, FiniteWork, SlotsCounted, NEW call, BeginCall(call)
  PROVE  IsFiniteSet(inflight') /\ SlotsCounted'
<1>1. inflight' = inflight \cup {call} /\ activeCalls' = activeCalls + 1
  BY DEF BeginCall
<1>2. IsFiniteSet(inflight') /\ Cardinality(inflight') <= Cardinality(inflight) + 1
  BY <1>1, AddOne DEF FiniteWork
<1> QED BY <1>1, <1>2, WorkTypes, FS_CardinalityType DEF TypeOK, SlotsCounted

\* A run gives its slot back.
LEMMA SlotsEnd ==
  ASSUME TypeOK, FiniteWork, SlotsCounted, NEW call \in inflight, EndCall(call)
  PROVE  IsFiniteSet(inflight') /\ SlotsCounted'
<1>1. IsFiniteSet(inflight') /\ Cardinality(inflight') = Cardinality(inflight) - 1
  BY FS_RemoveElement DEF FiniteWork, EndCall
<1>2. Cardinality(inflight) # 0
  BY FS_EmptySet DEF FiniteWork
<1>3. activeCalls' = activeCalls - 1
  BY <1>2, WorkTypes DEF TypeOK, SlotsCounted, EndCall
<1> QED BY <1>1, <1>2, <1>3, WorkTypes DEF TypeOK, SlotsCounted

LEMMA CapKept ==
  ASSUME CapInv, UNCHANGED <<runs, loops, callVars, shutdown>>
  PROVE  CapInv'
BY DEF CapInv, FiniteWork, RunsHoldSlots, SlotsCounted, WorkCapped, callVars

\* A callback asks for a slot and, where it starts a run, finds no loop under way.
LEMMA CapHandle ==
  ASSUME TypeOK, SerialInv, CapInv, NEW g \in Gens, NEW m \in Messages, HandleUserMessage(g, m)
  PROVE  CapInv'
<1>1. CASE StartRun(g, m) \/ StartFails(g, m)
  <2> SUFFICES ASSUME ~shutdown
               PROVE  FiniteWork' /\ RunsHoldSlots' /\ SlotsCounted' /\ WorkCapped'
    BY <1>1 DEF CapInv, StartRun, StartFails, monitorVars
  <2>1. FiniteWork /\ RunsHoldSlots /\ SlotsCounted /\ WorkCapped
    BY DEF CapInv
  <2>2. /\ BeginCall(<<g, m>>) /\ ~AtCap /\ loops = {} /\ UNCHANGED loops
    BY <1>1 DEF StartRun, StartFails, MayStart, Accepted, Handling, MicrotasksDone
  <2>3. IsFiniteSet(inflight') /\ SlotsCounted'
    BY <2>1, <2>2, SlotsBegin
  <2>4. inflight' = inflight \cup {<<g, m>>}
    BY <2>2 DEF BeginCall
  <2>5. CASE StartFails(g, m)
    <3>1. UNCHANGED runs
      BY <2>5 DEF StartFails
    <3> QED BY <2>1, <2>2, <2>3, <2>4, <3>1 DEF FiniteWork, RunsHoldSlots, WorkCapped
  <2>6. CASE StartRun(g, m)
    <3> DEFINE n == [gen |-> g, msg |-> m, count |-> 0]
    <3>1. runs' = runs \cup {n} /\ n.gen = g /\ n.msg = m
      BY <2>6 DEF StartRun
    <3> HIDE DEF n
    <3>2. IsFiniteSet(runs') /\ Cardinality(runs') <= Cardinality(runs) + 1
      BY <2>1, <3>1, AddOne DEF FiniteWork
    <3>3. RunsHoldSlots'
      BY <2>1, <2>4, <3>1 DEF RunsHoldSlots
    <3>4. MaxCalls > 0 => Cardinality(runs) < MaxCalls
      BY <2>1, <2>2, RunsWithinSlots, WorkTypes, BoundsAssumption
         DEF AtCap, SlotsCounted, TypeOK
    <3>5. Cardinality(loops') = 0
      BY <2>2, FS_EmptySet
    <3>6. WorkCapped'
      BY <2>1, <3>2, <3>4, <3>5, WorkTypes, FS_CardinalityType, BoundsAssumption DEF WorkCapped
    <3> QED BY <2>1, <2>2, <2>3, <3>2, <3>3, <3>6 DEF FiniteWork
  <2> QED BY <1>1, <2>5, <2>6
<1>2. CASE HandleUserMessage(g, m) /\ ~StartRun(g, m) /\ ~StartFails(g, m)
  BY <1>2, CapKept DEF HandleUserMessage, RejectAtCap, RefuseIntake, EnqueueMessage,
       RefuseOverflow, RefuseConversation, workVars, monitorVars
<1> QED BY <1>1, <1>2

\* The loop that follows a run takes the run's place.
LEMMA CapRelease ==
  ASSUME TypeOK, SerialInv, CapInv, NEW r \in runs, NEW f, ReleaseRun(r, f),
         loops' = loops \/ loops' = loops \cup {Loop(r)}
  PROVE  CapInv'
<1> SUFFICES ASSUME ~shutdown
             PROVE  FiniteWork' /\ RunsHoldSlots' /\ SlotsCounted' /\ WorkCapped'
  BY DEF CapInv, ReleaseRun, monitorVars
<1>1. FiniteWork /\ RunsHoldSlots /\ SlotsCounted /\ WorkCapped
  BY DEF CapInv
<1>2. runs' = runs \ {r} /\ EndCall(<<r.gen, r.msg>>) /\ <<r.gen, r.msg>> \in inflight
  BY <1>1 DEF ReleaseRun, RunsHoldSlots
<1>3. IsFiniteSet(inflight') /\ SlotsCounted'
  BY <1>1, <1>2, SlotsEnd
<1>4. RunsHoldSlots'
  BY <1>1, <1>2 DEF RunsHoldSlots, EndCall, SerialInv, OneRun
<1>5. IsFiniteSet(runs') /\ Cardinality(runs') = Cardinality(runs) - 1
  BY <1>1, <1>2, FS_RemoveElement DEF FiniteWork
<1>6. IsFiniteSet(loops') /\ Cardinality(loops') <= Cardinality(loops) + 1
  <2>1. Cardinality(loops) <= Cardinality(loops) + 1
    BY <1>1, WorkTypes
  <2>2. /\ IsFiniteSet(loops \cup {Loop(r)})
        /\ Cardinality(loops \cup {Loop(r)}) <= Cardinality(loops) + 1
    BY <1>1, AddOne DEF FiniteWork
  <2> QED BY <1>1, <2>1, <2>2 DEF FiniteWork
<1>7. WorkCapped'
  BY <1>1, <1>5, <1>6, WorkTypes, FS_CardinalityType, BoundsAssumption DEF WorkCapped
<1> QED BY <1>3, <1>4, <1>5, <1>6, <1>7 DEF FiniteWork

\* A loop that goes on, or ends, or gives way to the run it starts.
LEMMA CapLoop ==
  ASSUME TypeOK, CapInv, NEW l \in loops,
         StartQueued(l) \/ StartQueuedFails(l) \/ DropQueued(l) \/ EndLoop(l)
  PROVE  CapInv'
<1> SUFFICES ASSUME ~shutdown
             PROVE  FiniteWork' /\ RunsHoldSlots' /\ SlotsCounted' /\ WorkCapped'
  BY DEF CapInv, StartQueued, StartQueuedFails, DropQueued, EndLoop, monitorVars
<1>1. FiniteWork /\ RunsHoldSlots /\ SlotsCounted /\ WorkCapped
  BY DEF CapInv
<1> DEFINE m == Head(queue[l.gen][l.conv])
<1>2. \/ BeginCall(<<l.gen, m>>)
      \/ ~StartQueued(l) /\ UNCHANGED callVars
  BY DEF StartQueued, StartQueuedFails, MayStartQueued, DropQueued, EndLoop
<1>3. IsFiniteSet(inflight') /\ SlotsCounted' /\ inflight \subseteq inflight'
  BY <1>1, <1>2, SlotsBegin DEF FiniteWork, SlotsCounted, BeginCall, callVars
<1>4. IsFiniteSet(loops \ {l}) /\ Cardinality(loops \ {l}) = Cardinality(loops) - 1
  BY <1>1, FS_RemoveElement DEF FiniteWork
<1>5. IsFiniteSet(NextRound(l)) /\ Cardinality(NextRound(l)) <= Cardinality(loops)
  <2> DEFINE n == [l EXCEPT !.count = @ + 1]
  <2>1. NextRound(l) = (loops \ {l}) \cup {n}
    BY DEF NextRound
  <2> HIDE DEF n
  <2>2. Cardinality((loops \ {l}) \cup {n}) <= Cardinality(loops \ {l}) + 1
    BY <1>4, AddOne
  <2>3. IsFiniteSet((loops \ {l}) \cup {n})
    BY <1>4, AddOne
  <2>4. Cardinality((loops \ {l}) \cup {n}) \in Nat
    BY <2>3, FS_CardinalityType
  <2> QED BY <1>1, <1>4, <2>1, <2>2, <2>3, <2>4, WorkTypes
<1>6. CASE StartQueued(l)
  <2> DEFINE n == [gen |-> l.gen, msg |-> m, count |-> l.count + 1]
  <2>1. runs' = runs \cup {n} /\ loops' = loops \ {l} /\ <<n.gen, n.msg>> \in inflight'
    BY <1>6 DEF StartQueued, MayStartQueued, BeginCall
  <2> HIDE DEF n, m
  <2>2. IsFiniteSet(runs') /\ Cardinality(runs') <= Cardinality(runs) + 1
    BY <1>1, <2>1, AddOne DEF FiniteWork
  <2>3. RunsHoldSlots'
    BY <1>1, <1>3, <2>1 DEF RunsHoldSlots
  <2>4. WorkCapped'
    BY <1>1, <1>4, <2>1, <2>2, WorkTypes, FS_CardinalityType, BoundsAssumption DEF WorkCapped
  <2> QED BY <1>3, <1>4, <2>1, <2>2, <2>3, <2>4 DEF FiniteWork
<1>7. CASE ~StartQueued(l)
  <2>1. UNCHANGED runs /\ loops' \in {NextRound(l), loops \ {l}}
    BY <1>7 DEF StartQueuedFails, DropQueued, EndLoop
  <2>2. IsFiniteSet(loops') /\ Cardinality(loops') <= Cardinality(loops)
    BY <1>1, <1>4, <1>5, <2>1, WorkTypes
  <2>3. WorkCapped'
    BY <1>1, <2>1, <2>2, WorkTypes, FS_CardinalityType, BoundsAssumption DEF WorkCapped
  <2> QED BY <1>1, <1>3, <2>1, <2>2, <2>3 DEF FiniteWork, RunsHoldSlots
<1> QED BY <1>6, <1>7

LEMMA CapStep ==
  ASSUME "timeout" \notin Faults, TypeOK, SerialInv, CapInv, [Next]_vars
  PROVE  CapInv'
<1> USE DEF workVars, monitorVars
<1>0. CASE UNCHANGED vars
  BY <1>0, CapKept DEF vars
<1>1. ASSUME NEW m \in Messages, Post(m) PROVE CapInv'
  BY <1>1, CapKept DEF Post
<1>2. CASE Intake
  BY <1>2, CapKept DEF Intake, Deliver, TakeBatch, CheckProcessed, Claim, SkipOnDbError
<1>3. CASE Dispatch
  <2>1. ASSUME NEW r \in runs, FinishRun(r) \/ AbortRun(r) PROVE CapInv'
    <3>1. /\ \E f \in Fates : ReleaseRun(r, f)
          /\ loops' = loops \/ loops' = loops \cup {Loop(r)}
      BY <2>1 DEF FinishRun, AbortRun, Fates
    <3> QED BY <3>1, CapRelease
  <2> QED BY <1>3, <2>1, CapHandle, CapLoop DEF Dispatch
<1>4. CASE Timers
  BY <1>4, CapKept DEF Timers, CallTimeout, ExpireStale
<1>5. CASE Monitoring
  <2>1. CASE Crash
    <3>1. runs' = {} /\ loops' = {} /\ inflight' = {} /\ activeCalls' = 0
      BY <2>1 DEF Crash
    <3> QED BY <3>1, FS_EmptySet, BoundsAssumption
            DEF CapInv, FiniteWork, RunsHoldSlots, SlotsCounted, WorkCapped
  <2>2. CASE StopAll
    BY <2>2 DEF StopAll, CapInv
  <2>3. CASE Monitoring /\ ~Crash /\ ~StopAll
    BY <2>3, CapKept DEF Monitoring, StartMonitoring, StopMonitoring, Reconnected,
         FinishStop, FinishReconnect
  <2> QED BY <1>5, <2>1, <2>2, <2>3
<1> QED BY <1>0, <1>1, <1>2, <1>3, <1>4, <1>5 DEF Next

LEMMA CapInit == Init => CapInv
BY FS_EmptySet, BoundsAssumption
   DEF Init, CapInv, FiniteWork, RunsHoldSlots, SlotsCounted, WorkCapped

(***************************************************************************)
(* As long as no call times out, maxConcurrentLLMCalls bounds the runs of  *)
(* the process until it is shut down, whatever fails, stops, reconnects or *)
(* restarts: a queued message may start without asking for a slot.  (A     *)
(* call that times out gives its slot back while its run goes on.)         *)
(***************************************************************************)
THEOREM CapHolds ==
  ASSUME "timeout" \notin Faults
  PROVE  Spec => []CapRespected
<1>1. Init => TypeOK /\ SerialInv /\ QueuedBelong /\ CapInv
  BY InitType, SerialInit, CapInit
<1>2. TypeOK /\ SerialInv /\ QueuedBelong /\ CapInv /\ [Next]_vars
        => (TypeOK /\ SerialInv /\ QueuedBelong /\ CapInv)'
  BY StepType, SerialStep, BelongStep, CapStep
<1>3. TypeOK /\ CapInv => CapRespected
  BY WorkTypes, BoundsAssumption DEF CapInv, WorkCapped, CapRespected
<1> QED BY <1>1, <1>2, <1>3, PTL DEF Spec

===============================================================================

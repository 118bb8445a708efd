------------------------ MODULE MessageHandling_proofs ------------------------
(***************************************************************************)
(* Where the messages of MessagePipeline are, for every set of messages    *)
(* and every set of faults: a claimed message whose handling has not ended *)
(* is held in exactly one place, and the pipeline implements               *)
(* MessageHandling.  Then, with fewer faults, who serves the queues and in *)
(* which order: a queue with messages has a run or a loop that takes them  *)
(* out, and a run never overtakes an earlier message.                      *)
(***************************************************************************)
EXTENDS MessagePipeline_proofs

Running(m) == \E r \in runs : r.msg = m

Held(m) == Waiting(m) \/ Running(m)

\* What is held is claimed and has not ended, and the other way around.
HeldIffOpen == \A m \in Messages : Held(m) <=> (m \in claimed /\ fate[m] = "none")

\* A run counts as an attempt, so a message that waits has none.
RunsTried == \A r \in runs : attempts[r.msg] > 0

OneRunEach == \A r1, r2 \in runs : r1.msg = r2.msg => r1 = r2

QueuesFit == \A g \in Gens, c \in Conversations : Len(queue[g][c]) <= MaxQueueSize

(***************************************************************************)
(* The steps, by what they let go of.                                      *)
(***************************************************************************)
LetsGo(ms) == \A m \in Messages : Held(m)' <=> Held(m) /\ m \notin ms

WaitersLeave(ms) == \A m \in Messages : Waiting(m)' <=> Waiting(m) /\ m \notin ms

LEMMA WaitingNotRunning ==
  ASSUME TypeOK, OnceInv, RunsTried, NEW m, Waiting(m)
  PROVE  ~Running(m)
<1>1. attempts[m] = 0
  BY WaitingFresh DEF OnceInv, Fresh
<1> QED BY <1>1 DEF RunsTried, Running

LEMMA RunningType ==
  ASSUME TypeOK, NEW m, Running(m)
  PROVE  m \in Messages
BY DEF TypeOK, Running, Runs

LEMMA WaitingSets ==
  \A m : Waiting(m) <=>
           \/ \E i \in DOMAIN deferred : deferred[i][2] = m
           \/ \E g \in Gens, c \in Conversations : m \in ToSet(queue[g][c])
BY DEF Waiting, ToSet

LEMMA InMemoryHeld ==
  ASSUME NEW m
  PROVE  m \in InMemory <=> Held(m)
<1>1. m \in {d[2] : d \in ToSet(deferred)} <=> \E i \in DOMAIN deferred : deferred[i][2] = m
  BY DEF ToSet
<1>2. m \in UNION {QueuedIn(g) : g \in Gens}
        <=> \E g \in Gens, c \in Conversations : m \in ToSet(queue[g][c])
  BY DEF QueuedIn
<1>3. m \in {r.msg : r \in runs} <=> Running(m)
  BY DEF Running
<1> QED BY <1>1, <1>2, <1>3, WaitingSets DEF InMemory, Held

\* The callback at the head of setImmediate takes its message with it.
LEMMA HandlingLeaves ==
  ASSUME TypeOK, OnceInv, NEW g, NEW m, Handling(g, m), UNCHANGED queue
  PROVE  WaitersLeave({m})
<1>0. /\ deferred \in Seq(Gens \X Messages) /\ deferred # <<>>
      /\ deferred[1] = <<g, m>> /\ deferred' = Tail(deferred)
  BY HandlingDeferred
<1>1. /\ 1 \in DOMAIN deferred /\ deferred[1][2] = m
      /\ \A i \in DOMAIN deferred' : /\ i + 1 \in DOMAIN deferred /\ i + 1 # 1
                                     /\ deferred'[i] = deferred[i + 1]
  BY <1>0, TailIndex
<1>2. \A i \in DOMAIN deferred : i = 1 \/ (i - 1 \in DOMAIN deferred' /\ (i - 1) + 1 = i)
  BY <1>0
<1>3. \A i \in DOMAIN deferred : i = 1 \/ \E j \in DOMAIN deferred' : deferred'[j] = deferred[i]
  BY <1>1, <1>2
<1>4. \A i \in DOMAIN deferred' : deferred'[i][2] # m
  BY <1>1 DEF OnceInv, WaitOnce
<1>5. \A h \in Gens, c \in Conversations : \A i \in DOMAIN queue[h][c] : queue[h][c][i] # m
  BY <1>1 DEF OnceInv, WaitOnce
<1>6. SUFFICES ASSUME NEW x \in Messages PROVE Waiting(x)' <=> Waiting(x) /\ x # m
  BY DEF WaitersLeave
<1>7. CASE x = m
  BY <1>4, <1>5, <1>7 DEF Waiting
<1>8. CASE x # m
  <2>1. (\E i \in DOMAIN deferred' : deferred'[i][2] = x)
          <=> (\E i \in DOMAIN deferred : deferred[i][2] = x)
    BY <1>1, <1>3, <1>8
  <2> QED BY <1>8, <2>1 DEF Waiting
<1> QED BY <1>7, <1>8

\* The oldest entries of a sequence without repetition are taken off it.
LEMMA DropLeaves ==
  ASSUME NEW q \in Seq(Messages), \A i, j \in DOMAIN q : q[i] = q[j] => i = j,
         NEW k \in 0..Len(q), NEW x
  PROVE  x \in ToSet(DropOldest(q, k)) <=> x \in ToSet(q) /\ x \notin ToSet(SubSeq(q, 1, k))
<1> DEFINE d == DropOldest(q, k)
<1> DEFINE p == SubSeq(q, 1, k)
<1>1. /\ DOMAIN d = 1..(Len(q) - k)
      /\ \A i \in 1..(Len(q) - k) : i + k \in DOMAIN q /\ d[i] = q[i + k]
  BY DEF DropOldest
<1>2. DOMAIN p = 1..k /\ \A i \in 1..k : i \in DOMAIN q /\ p[i] = q[i]
  OBVIOUS
<1>3. DOMAIN q = 1..Len(q) /\ Len(q) \in Nat /\ k \in Nat
  OBVIOUS
<1> HIDE DEF d, p
<1>4. ASSUME x \in ToSet(d) PROVE x \in ToSet(q) /\ x \notin ToSet(p)
  <2>1. PICK i \in 1..(Len(q) - k) : x = d[i]
    BY <1>1, <1>4 DEF ToSet
  <2>2. i + k \in DOMAIN q /\ x = q[i + k]
    BY <1>1, <2>1
  <2>3. \A j \in 1..k : q[j] # x
    BY <1>2, <1>3, <2>1, <2>2
  <2> QED BY <1>2, <2>2, <2>3 DEF ToSet
<1>5. ASSUME x \in ToSet(q), x \notin ToSet(p) PROVE x \in ToSet(d)
  <2>1. PICK i \in 1..Len(q) : x = q[i]
    BY <1>3, <1>5 DEF ToSet
  <2>2. i \notin 1..k
    BY <1>2, <1>5, <2>1 DEF ToSet
  <2>3. i - k \in 1..(Len(q) - k) /\ (i - k) + k = i
    BY <1>3, <2>2
  <2>4. x = d[i - k]
    BY <1>1, <2>1, <2>3
  <2> QED BY <1>1, <2>3, <2>4 DEF ToSet
<1> QED BY <1>4, <1>5 DEF d, p

\* One queue changes, all of it without repetition: who leaves it leaves.
LEMMA QueueLeaves ==
  ASSUME TypeOK, OnceInv, NEW g \in Gens, NEW c \in Conversations, UNCHANGED deferred,
         NEW s \in Seq(Messages), queue' = [queue EXCEPT ![g][c] = s], NEW ms,
         \A x : x \in ToSet(s) <=> x \in ToSet(queue[g][c]) /\ x \notin ms,
         ms \subseteq ToSet(queue[g][c])
  PROVE  WaitersLeave(ms)
<1>1. SUFFICES ASSUME NEW x \in Messages PROVE Waiting(x)' <=> Waiting(x) /\ x \notin ms
  BY DEF WaitersLeave
<1>2. queue'[g][c] = s /\ \A h \in Gens, d \in Conversations :
        ~(h = g /\ d = c) => queue'[h][d] = queue[h][d]
  BY QueueType
<1>3. CASE x \in ms
  <2>1. PICK i \in DOMAIN queue[g][c] : queue[g][c][i] = x
    BY <1>3 DEF ToSet
  <2>2. \A j \in DOMAIN deferred : deferred[j][2] # x
    BY <2>1 DEF OnceInv, WaitOnce
  <2>3. \A h \in Gens, d \in Conversations :
          ~(h = g /\ d = c) => \A j \in DOMAIN queue[h][d] : queue[h][d][j] # x
    BY <2>1 DEF OnceInv, WaitOnce
  <2>4. \A h \in Gens, d \in Conversations : x \notin ToSet(queue'[h][d])
    BY <1>2, <1>3, <2>3 DEF ToSet
  <2> QED BY <1>3, <2>2, <2>4 DEF Waiting, ToSet
<1>4. CASE x \notin ms
  <2>1. \A h \in Gens, d \in Conversations : x \in ToSet(queue'[h][d]) <=> x \in ToSet(queue[h][d])
    BY <1>2, <1>4
  <2> QED BY <1>4, <2>1 DEF Waiting, ToSet
<1> QED BY <1>3, <1>4

(***************************************************************************)
(* A step other than a claim: some held messages are let go, and the fate  *)
(* of exactly these is settled.                                            *)
(***************************************************************************)
Ending(ms) ==
  /\ ms \subseteq {m \in Messages : Held(m)}
  /\ LetsGo(ms)
  /\ UNCHANGED claimed
  /\ \/ \E f \in Fates \ {"none"} : Settle(ms, f)
     \/ ms = {} /\ UNCHANGED fate

LEMMA NothingEnds ==
  ASSUME UNCHANGED <<deferred, queue, runs, claimed, fate>>
  PROVE  Ending({})
BY DEF Ending, LetsGo, Held, Waiting, Running

LEMMA WaitersEnd ==
  ASSUME TypeOK, OnceInv, RunsTried, NEW ms, \A m \in ms : Waiting(m), WaitersLeave(ms),
         UNCHANGED <<runs, claimed>>, NEW f \in Fates \ {"none"}, Settle(ms, f)
  PROVE  Ending(ms)
<1>1. \A m \in ms : m \in Messages /\ Held(m) /\ ~Running(m)
  BY WaitingType, WaitingNotRunning DEF Held
<1>2. LetsGo(ms)
  BY <1>1 DEF LetsGo, WaitersLeave, Held, Running
<1> QED BY <1>1, <1>2 DEF Ending

LEMMA HandlingWaits ==
  ASSUME TypeOK, NEW g, NEW m, Handling(g, m)
  PROVE  Waiting(m)
<1>1. /\ deferred \in Seq(Gens \X Messages) /\ deferred # <<>> /\ deferred[1] = <<g, m>>
  BY HandlingDeferred
<1>2. 1 \in DOMAIN deferred /\ deferred[1][2] = m
  BY <1>1, TailIndex
<1> QED BY <1>2 DEF Waiting

\* The message waits in a queue now, and the stale ones of that queue are gone.
LEMMA EnqueueLeaves ==
  ASSUME TypeOK, TypeOK', OnceInv, NEW g \in Gens, NEW m \in Messages, EnqueueMessage(g, m)
  PROVE  \E ms : /\ \A x \in ms : Waiting(x)
                 /\ WaitersLeave(ms)
                 /\ Settle(ms, "expired")
<1> DEFINE c == ConvOf[m]
<1> DEFINE q == queue[g][c]
<1>1. c \in Conversations /\ q \in Seq(Messages)
  BY ConvOfAssumption, QueueType
<1>2. PICK k \in StalePrefixes(q) :
        /\ queue' = [queue EXCEPT ![g][c] = Append(DropOldest(q, k), m)]
        /\ Settle(ToSet(SubSeq(q, 1, k)), "expired")
  BY DEF EnqueueMessage
<1>3. k \in 0..Len(q)
  BY <1>1, <1>2, StalePrefixesType
<1> DEFINE d == DropOldest(q, k)
<1> DEFINE ms == ToSet(SubSeq(q, 1, k))
<1>4. d \in Seq(Messages)
  BY <1>1, <1>3, DropOldestType
<1>5. \A x : x \in ToSet(d) <=> x \in ToSet(q) /\ x \notin ms
  <2>1. \A i, j \in DOMAIN q : q[i] = q[j] => i = j
    BY <1>1 DEF OnceInv, WaitOnce
  <2> QED BY <1>1, <1>3, <2>1, DropLeaves
<1>6. ms \subseteq ToSet(q)
  <2>1. \A i \in DOMAIN SubSeq(q, 1, k) : i \in DOMAIN q /\ SubSeq(q, 1, k)[i] = q[i]
    BY <1>1, <1>3
  <2> QED BY <2>1 DEF ToSet
<1>7. \A x : x \in ToSet(Append(d, m)) <=> x \in ToSet(d) \/ x = m
  <2>1. /\ DOMAIN d = 1..Len(d) /\ Len(d) \in Nat
        /\ DOMAIN Append(d, m) = 1..(Len(d) + 1) /\ Append(d, m)[Len(d) + 1] = m
        /\ \A i \in 1..Len(d) : Append(d, m)[i] = d[i]
    BY <1>4
  <2>2. \A i \in 1..(Len(d) + 1) : i \in 1..Len(d) \/ i = Len(d) + 1
    BY <2>1
  <2>3. \A i \in 1..Len(d) : i \in 1..(Len(d) + 1)
    BY <2>1
  <2>4. Len(d) + 1 \in 1..(Len(d) + 1)
    BY <2>1
  <2> HIDE DEF d
  <2> QED BY <2>1, <2>2, <2>3, <2>4 DEF ToSet
<1>8. queue'[g][c] = Append(d, m) /\ \A h \in Gens, b \in Conversations :
        ~(h = g /\ b = c) => queue'[h][b] = queue[h][b]
  BY <1>1, <1>2, QueueType
<1>9. Handling(g, m) /\ UNCHANGED <<claimed, runs>>
  BY DEF EnqueueMessage
<1>10. Waiting(m) /\ \A x \in ms : Waiting(x)
  BY <1>1, <1>6, <1>9, HandlingWaits, WaitingSets
<1>11. m \notin ms /\ \A h \in Gens, b \in Conversations : m \notin ToSet(queue[h][b])
  <2>1. deferred # <<>> /\ deferred \in Seq(Gens \X Messages) /\ deferred[1] = <<g, m>>
    BY <1>9, HandlingDeferred
  <2>2. 1 \in DOMAIN deferred /\ deferred[1][2] = m
    BY <2>1, TailIndex
  <2>3. \A h \in Gens, b \in Conversations : m \notin ToSet(queue[h][b])
    BY <2>2 DEF OnceInv, WaitOnce, ToSet
  <2> QED BY <1>1, <1>6, <2>3
<1> HIDE DEF d, q, c, ms
\* Who waits in a queue after the step waited there before, or is m.
<1>12. ASSUME NEW x \in Messages, x # m
       PROVE  (\E h \in Gens, b \in Conversations : x \in ToSet(queue'[h][b]))
                <=> (\E h \in Gens, b \in Conversations : x \in ToSet(queue[h][b])) /\ x \notin ms
  <2>1. \A h \in Gens, b \in Conversations : ~(h = g /\ b = c) => ~(x \in ms /\ x \in ToSet(queue[h][b]))
    <3> SUFFICES ASSUME NEW h \in Gens, NEW b \in Conversations, x \in ms, x \in ToSet(queue[h][b])
                 PROVE  h = g /\ b = c
      OBVIOUS
    <3>1. PICK i \in DOMAIN queue[h][b] : queue[h][b][i] = x
      BY DEF ToSet
    <3>2. PICK j \in DOMAIN queue[g][c] : queue[g][c][j] = x
      BY <1>6 DEF ToSet, q
    <3> QED BY <1>1, <3>1, <3>2 DEF OnceInv, WaitOnce
  <2>2. x \in ToSet(queue'[g][c]) <=> x \in ToSet(queue[g][c]) /\ x \notin ms
    BY <1>5, <1>7, <1>8, <1>12 DEF q
  <2> QED BY <1>1, <1>6, <1>8, <2>1, <2>2 DEF q
<1>13. ASSUME NEW x \in Messages, x # m
       PROVE  (\E i \in DOMAIN deferred' : deferred'[i][2] = x)
                <=> (\E i \in DOMAIN deferred : deferred[i][2] = x)
  <2>0. /\ deferred \in Seq(Gens \X Messages) /\ deferred # <<>>
        /\ deferred[1] = <<g, m>> /\ deferred' = Tail(deferred)
    BY <1>9, HandlingDeferred
  <2>1. /\ deferred[1][2] = m
        /\ \A i \in DOMAIN deferred' : i + 1 \in DOMAIN deferred /\ deferred'[i] = deferred[i + 1]
    BY <2>0, TailIndex
  <2>2. \A i \in DOMAIN deferred : i = 1 \/ (i - 1 \in DOMAIN deferred' /\ (i - 1) + 1 = i)
    BY <2>0
  <2>3. \A i \in DOMAIN deferred : i = 1 \/ \E j \in DOMAIN deferred' : deferred'[j] = deferred[i]
    BY <2>1, <2>2
  <2> QED BY <1>13, <2>1, <2>3
<1>14. \A x \in ms : \A i \in DOMAIN deferred : deferred[i][2] # x
  BY <1>1, <1>6 DEF OnceInv, WaitOnce, ToSet, q
<1>15. Waiting(m)'
  BY <1>1, <1>7, <1>8 DEF Waiting, ToSet
<1>16. WaitersLeave(ms)
  <2> SUFFICES ASSUME NEW x \in Messages PROVE Waiting(x)' <=> Waiting(x) /\ x \notin ms
    BY DEF WaitersLeave
  <2>1. CASE x = m
    BY <1>10, <1>11, <1>15, <2>1
  <2>2. CASE x # m
    <3>1. Waiting(x)' <=> \/ \E i \in DOMAIN deferred' : deferred'[i][2] = x
                          \/ \E h \in Gens, b \in Conversations : x \in ToSet(queue'[h][b])
      BY DEF Waiting, ToSet
    <3> QED BY <1>12, <1>13, <1>14, <2>2, <3>1, WaitingSets
  <2> QED BY <2>1, <2>2
<1>17. Settle(ms, "expired")
  BY <1>2 DEF ms, q, c
<1> QED BY <1>10, <1>16, <1>17

LEMMA EnqueueEnds ==
  ASSUME TypeOK, TypeOK', OnceInv, RunsTried, NEW g \in Gens, NEW m \in Messages,
         EnqueueMessage(g, m)
  PROVE  \E ms : Ending(ms)
<1>1. PICK ms : (\A x \in ms : Waiting(x)) /\ WaitersLeave(ms) /\ Settle(ms, "expired")
  BY EnqueueLeaves
<1>2. UNCHANGED <<claimed, runs>>
  BY DEF EnqueueMessage
<1>3. "expired" \in Fates \ {"none"}
  BY DEF Fates
<1> QED BY <1>1, <1>2, <1>3, WaitersEnd

LEMMA HandleEnds ==
  ASSUME TypeOK, TypeOK', OnceInv, RunsTried, NEW g \in Gens, NEW m \in Messages,
         HandleUserMessage(g, m)
  PROVE  \E ms : Ending(ms)
<1>1. CASE StartRun(g, m)
  <2>1. Handling(g, m) /\ UNCHANGED <<queue, claimed, fate>>
        /\ runs' = runs \cup {[gen |-> g, msg |-> m, count |-> 0]}
    BY <1>1 DEF StartRun, MayStart
  <2>2. WaitersLeave({m}) /\ Waiting(m)
    BY <2>1, HandlingLeaves, HandlingWaits
  <2>3. \A x : Running(x)' <=> Running(x) \/ x = m
    <3> DEFINE n == [gen |-> g, msg |-> m, count |-> 0]
    <3>1. runs' = runs \cup {n} /\ n.msg = m
      BY <2>1
    <3> HIDE DEF n
    <3> QED BY <3>1 DEF Running
  <2>4. LetsGo({})
    BY <2>2, <2>3 DEF LetsGo, WaitersLeave, Held
  <2> QED BY <2>1, <2>4 DEF Ending
<1>2. CASE EnqueueMessage(g, m)
  BY <1>2, EnqueueEnds
<1>3. CASE HandleUserMessage(g, m) /\ ~StartRun(g, m) /\ ~EnqueueMessage(g, m)
  <2>1. /\ Handling(g, m) /\ UNCHANGED <<queue, claimed, runs>>
        /\ \E f \in Fates \ {"none"} : Settle({m}, f)
    BY <1>3 DEF HandleUserMessage, RejectAtCap, RefuseIntake, RefuseOverflow,
                RefuseConversation, StartFails, MayStart, workVars, Fates
  <2>2. WaitersLeave({m}) /\ Waiting(m)
    BY <2>1, HandlingLeaves, HandlingWaits
  <2> QED BY <2>1, <2>2, WaitersEnd
<1> QED BY <1>1, <1>2, <1>3

\* A run that ends lets go of its message, which no other run has.
LEMMA ReleaseEnds ==
  ASSUME TypeOK, OnceInv, RunsTried, OneRunEach, NEW r \in runs, NEW f \in Fates \ {"none"},
         ReleaseRun(r, f)
  PROVE  Ending({r.msg})
<1>1. /\ runs' = runs \ {r} /\ UNCHANGED <<deferred, queue, claimed>> /\ Settle({r.msg}, f)
  BY DEF ReleaseRun
<1>2. Running(r.msg) /\ ~Waiting(r.msg) /\ r.msg \in Messages
  BY WaitingNotRunning, RunningType DEF Running
<1>3. \A x : Running(x)' <=> Running(x) /\ x # r.msg
  BY <1>1 DEF Running, OneRunEach
<1>4. LetsGo({r.msg})
  BY <1>1, <1>2, <1>3 DEF LetsGo, Held, Waiting
<1> QED BY <1>1, <1>2, <1>4 DEF Ending, Held

\* The oldest message leaves a queue.
LEMMA DequeueLeaves ==
  ASSUME TypeOK, OnceInv, NEW l \in loops, Dequeue(l), UNCHANGED deferred
  PROVE  /\ WaitersLeave({Head(queue[l.gen][l.conv])})
         /\ Waiting(Head(queue[l.gen][l.conv]))
<1> DEFINE q == queue[l.gen][l.conv]
<1>1. l.gen \in Gens /\ l.conv \in Conversations
  BY DEF TypeOK, Loops
<1>2. q \in Seq(Messages) /\ q # <<>> /\ queue' = [queue EXCEPT ![l.gen][l.conv] = Tail(q)]
  BY <1>1, QueueType DEF Dequeue
<1>3. /\ 1 \in DOMAIN q /\ q[1] = Head(q) /\ Head(q) \in Messages
      /\ \A i \in DOMAIN Tail(q) : i + 1 \in DOMAIN q /\ i + 1 # 1 /\ Tail(q)[i] = q[i + 1]
  BY <1>2, TailIndex
<1>4. \A i \in DOMAIN q : i = 1 \/ (i - 1 \in DOMAIN Tail(q) /\ (i - 1) + 1 = i)
  BY <1>2
<1>5. \A i \in DOMAIN q : i = 1 \/ \E j \in DOMAIN Tail(q) : Tail(q)[j] = q[i]
  BY <1>3, <1>4
<1>6. \A i \in DOMAIN q : q[i] = q[1] => i = 1
  BY <1>1, <1>3 DEF OnceInv, WaitOnce
<1>7. Tail(q) \in Seq(Messages)
  BY <1>2
<1>8. \A x : x \in ToSet(Tail(q)) <=> x \in ToSet(q) /\ x \notin {Head(q)}
  <2> HIDE DEF q
  <2> QED BY <1>3, <1>5, <1>6 DEF ToSet
<1>9. {Head(q)} \subseteq ToSet(q)
  BY <1>3 DEF ToSet
<1>10. WaitersLeave({Head(q)})
  <2> DEFINE s == Tail(q)
  <2> DEFINE ms == {Head(q)}
  <2>1. /\ s \in Seq(Messages) /\ queue' = [queue EXCEPT ![l.gen][l.conv] = s]
        /\ \A x : x \in ToSet(s) <=> x \in ToSet(queue[l.gen][l.conv]) /\ x \notin ms
        /\ ms \subseteq ToSet(queue[l.gen][l.conv])
    BY <1>2, <1>7, <1>8, <1>9
  <2> HIDE DEF s, ms
  <2>2. WaitersLeave(ms)
    BY <1>1, <2>1, QueueLeaves
  <2> QED BY <2>2 DEF ms
<1> QED BY <1>1, <1>9, <1>10, WaitingSets

LEMMA LoopEnds ==
  ASSUME TypeOK, OnceInv, RunsTried, NEW l \in loops,
         StartQueued(l) \/ StartQueuedFails(l) \/ DropQueued(l) \/ EndLoop(l)
  PROVE  \E ms : Ending(ms)
<1> DEFINE m == Head(queue[l.gen][l.conv])
<1>1. CASE StartQueued(l)
  <2> DEFINE n == [gen |-> l.gen, msg |-> m, count |-> l.count + 1]
  <2>1. /\ Dequeue(l) /\ UNCHANGED <<deferred, claimed, fate>>
        /\ runs' = runs \cup {n} /\ n.msg = m
    BY <1>1 DEF StartQueued, MayStartQueued
  <2>2. WaitersLeave({m}) /\ Waiting(m)
    BY <2>1, DequeueLeaves
  <2> HIDE DEF n, m
  <2>3. \A x : Running(x)' <=> Running(x) \/ x = m
    BY <2>1 DEF Running
  <2>4. LetsGo({})
    BY <2>2, <2>3 DEF LetsGo, WaitersLeave, Held
  <2> QED BY <2>1, <2>4 DEF Ending
<1>2. CASE StartQueuedFails(l) \/ DropQueued(l)
  <2>1. /\ Dequeue(l) /\ UNCHANGED <<deferred, claimed, runs>>
        /\ \E f \in Fates \ {"none"} : Settle({m}, f)
    BY <1>2 DEF StartQueuedFails, MayStartQueued, DropQueued, Fates
  <2>2. WaitersLeave({m}) /\ Waiting(m)
    BY <2>1, DequeueLeaves
  <2> HIDE DEF m
  <2> QED BY <2>1, <2>2, WaitersEnd
<1>3. CASE EndLoop(l)
  BY <1>3, NothingEnds DEF EndLoop
<1> QED BY <1>1, <1>2, <1>3

LEMMA ExpireEnds ==
  ASSUME TypeOK, OnceInv, RunsTried, NEW g \in Gens, NEW c \in Conversations, ExpireStale(g, c)
  PROVE  \E ms : Ending(ms)
<1> DEFINE q == queue[g][c]
<1>1. q \in Seq(Messages)
  BY QueueType
<1>2. PICK k \in StalePrefixes(q) \ {0} :
        /\ queue' = [queue EXCEPT ![g][c] = DropOldest(q, k)]
        /\ Settle(ToSet(SubSeq(q, 1, k)), "expired")
  BY DEF ExpireStale
<1>3. k \in 0..Len(q)
  BY <1>1, <1>2, StalePrefixesType
<1> DEFINE d == DropOldest(q, k)
<1> DEFINE ms == ToSet(SubSeq(q, 1, k))
<1>4. d \in Seq(Messages)
  BY <1>1, <1>3, DropOldestType
<1>5. \A x : x \in ToSet(d) <=> x \in ToSet(q) /\ x \notin ms
  <2>1. \A i, j \in DOMAIN q : q[i] = q[j] => i = j
    BY <1>1 DEF OnceInv, WaitOnce
  <2> QED BY <1>1, <1>3, <2>1, DropLeaves
<1>6. ms \subseteq ToSet(q)
  <2>1. \A i \in DOMAIN SubSeq(q, 1, k) : i \in DOMAIN q /\ SubSeq(q, 1, k)[i] = q[i]
    BY <1>1, <1>3
  <2> QED BY <2>1 DEF ToSet
<1>7. UNCHANGED <<deferred, claimed, runs>> /\ queue' = [queue EXCEPT ![g][c] = d]
  BY <1>2 DEF ExpireStale
<1>8. Settle(ms, "expired") /\ "expired" \in Fates \ {"none"}
  BY <1>2 DEF Fates
<1>9. \A x \in ms : Waiting(x)
  BY <1>6, WaitingSets
<1> HIDE DEF d, ms
<1>10. WaitersLeave(ms)
  BY <1>4, <1>5, <1>6, <1>7, QueueLeaves
<1> QED BY <1>7, <1>8, <1>9, <1>10, WaitersEnd

LEMMA DestroyEnds ==
  ASSUME TypeOK, OnceInv, RunsTried, NEW g \in Gens, DestroyQueues(g),
         UNCHANGED <<deferred, claimed, runs>>
  PROVE  Ending(QueuedIn(g))
<1>1. /\ \A c \in Conversations : queue'[g][c] = <<>>
      /\ \A h \in Gens : h # g => queue'[h] = queue[h]
      /\ Settle(QueuedIn(g), "lost")
  BY QueueType DEF DestroyQueues, EmptyQueues
<1>2. \A x \in QueuedIn(g) : Waiting(x)
  BY WaitingSets DEF QueuedIn
<1>3. WaitersLeave(QueuedIn(g))
  <2> SUFFICES ASSUME NEW x \in Messages PROVE Waiting(x)' <=> Waiting(x) /\ x \notin QueuedIn(g)
    BY DEF WaitersLeave
  <2>1. CASE x \in QueuedIn(g)
    <3>1. PICK c \in Conversations : \E i \in DOMAIN queue[g][c] : queue[g][c][i] = x
      BY <2>1 DEF QueuedIn, ToSet
    <3>2. \A j \in DOMAIN deferred : deferred[j][2] # x
      BY <3>1 DEF OnceInv, WaitOnce
    <3>3. \A h \in Gens, d \in Conversations :
            h # g => \A j \in DOMAIN queue[h][d] : queue[h][d][j] # x
      BY <3>1 DEF OnceInv, WaitOnce
    <3>4. \A h \in Gens, d \in Conversations :
            \A j \in DOMAIN queue'[h][d] : queue'[h][d][j] # x
      BY <1>1, <3>3
    <3> QED BY <2>1, <3>2, <3>4 DEF Waiting
  <2>2. CASE x \notin QueuedIn(g)
    <3>1. \A c \in Conversations : \A j \in DOMAIN queue[g][c] : queue[g][c][j] # x
      BY <2>2 DEF QueuedIn, ToSet
    <3>2. \A c \in Conversations : \A j \in DOMAIN queue'[g][c] : queue'[g][c][j] # x
      BY <1>1
    <3>3. \A h \in Gens, d \in Conversations :
            (\E j \in DOMAIN queue'[h][d] : queue'[h][d][j] = x)
              <=> (\E j \in DOMAIN queue[h][d] : queue[h][d][j] = x)
      BY <1>1, <3>1, <3>2
    <3> QED BY <2>2, <3>3 DEF Waiting
  <2> QED BY <2>1, <2>2
<1>4. "lost" \in Fates \ {"none"}
  BY DEF Fates
<1> QED BY <1>1, <1>2, <1>3, <1>4, WaitersEnd

\* What the process holds in memory is gone with it.
LEMMA CrashEnds ==
  ASSUME TypeOK, Crash
  PROVE  Ending({m \in Messages : Held(m)})
<1>1. deferred' = <<>> /\ queue' = [g \in Gens |-> EmptyQueues] /\ runs' = {}
      /\ UNCHANGED claimed /\ Settle(InMemory, "lost")
  BY DEF Crash
<1>2. \A x : ~Held(x)'
  BY <1>1 DEF Held, Waiting, Running, EmptyQueues
<1>3. Settle({m \in Messages : Held(m)}, "lost")
  BY <1>1, InMemoryHeld DEF Settle
<1>4. "lost" \in Fates \ {"none"}
  BY DEF Fates
<1> QED BY <1>1, <1>2, <1>3, <1>4 DEF Ending, LetsGo

\* Every step that is not a claim ends the handling of some messages, or of none.
LEMMA StepEnds ==
  ASSUME TypeOK, OnceInv, RunsTried, OneRunEach, [Next]_vars, ~ \E g \in Gens : Claim(g)
  PROVE  \E ms : Ending(ms)
<1> USE DEF workVars
<1>0. TypeOK'
  BY StepType
<1>1. CASE UNCHANGED vars
  BY <1>1, NothingEnds DEF vars
<1>2. ASSUME NEW m \in Messages, Post(m) PROVE \E ms : Ending(ms)
  BY <1>2, NothingEnds DEF Post
<1>3. CASE Intake
  BY <1>3, NothingEnds DEF Intake, Deliver, TakeBatch, CheckProcessed, SkipOnDbError
<1>4. CASE Dispatch
  <2>1. ASSUME NEW r \in runs, FinishRun(r) \/ AbortRun(r) PROVE \E ms : Ending(ms)
    <3>1. PICK f \in Fates \ {"none"} : ReleaseRun(r, f)
      BY <2>1 DEF FinishRun, AbortRun, Fates
    <3> QED BY <3>1, ReleaseEnds
  <2> QED BY <1>0, <1>4, <2>1, HandleEnds, LoopEnds DEF Dispatch
<1>5. CASE Timers
  BY <1>5, NothingEnds, ExpireEnds DEF Timers, CallTimeout
<1>6. CASE Monitoring
  <2>0. current \in Gens \/ current = 0
    BY BoundsAssumption DEF TypeOK, Gens
  <2>1. CASE StartMonitoring \/ StopMonitoring \/ StopAll
    BY <2>1, NothingEnds DEF StartMonitoring, StopMonitoring, StopAll
  <2>2. CASE Reconnected
    BY <2>0, <2>2, DestroyEnds DEF Reconnected
  <2>3. CASE Crash
    BY <2>3, CrashEnds
  <2>4. ASSUME NEW g \in Gens, FinishStop(g) PROVE \E ms : Ending(ms)
    BY <2>4, DestroyEnds DEF FinishStop
  <2>5. ASSUME NEW g \in Gens, FinishReconnect(g) PROVE \E ms : Ending(ms)
    BY <2>5, NothingEnds DEF FinishReconnect
  <2> QED BY <1>6, <2>1, <2>2, <2>3, <2>4, <2>5 DEF Monitoring
<1> QED BY <1>1, <1>2, <1>3, <1>4, <1>5, <1>6 DEF Next

-----------------------------------------------------------------------------
(***************************************************************************)
(* Every claimed message is accounted for.  What is held has not ended and *)
(* the other way around (HeldIffOpen) is kept because a step settles the   *)
(* fate of exactly the messages it lets go of (StepEnds); that it lets go  *)
(* of nothing else needs a message to be in one place (OnceInv,            *)
(* OneRunEach), and that a claim can add one needs its fate to be open     *)
(* (FateClaimed).                                                          *)
(***************************************************************************)
HeldRecent == \A m \in BeforeCutoff : ~Held(m)

FateClaimed == \A m \in Messages : m \notin claimed => fate[m] = "none"

PlaceInv == RunsTried /\ OneRunEach

HoldInv == PlaceInv /\ HeldIffOpen /\ HeldRecent /\ FateClaimed /\ QueuesFit

LEMMA RunsShrink ==
  ASSUME [Next]_vars,
         ~ \E g \in Gens, m \in Messages : StartRun(g, m),
         ~ \E l \in loops : StartQueued(l)
  PROVE  runs' \subseteq runs
<1> USE DEF workVars
<1>1. CASE UNCHANGED vars
  BY <1>1 DEF vars
<1>2. ASSUME NEW m \in Messages, Post(m) PROVE runs' \subseteq runs
  BY <1>2 DEF Post
<1>3. CASE Intake
  BY <1>3 DEF Intake, Deliver, TakeBatch, CheckProcessed, Claim, SkipOnDbError
<1>4. CASE Dispatch
  <2>1. ASSUME NEW g \in Gens, NEW m \in Messages, HandleUserMessage(g, m)
        PROVE  runs' \subseteq runs
    BY <2>1 DEF HandleUserMessage, RejectAtCap, RefuseIntake, EnqueueMessage, RefuseOverflow,
         RefuseConversation, StartFails
  <2>2. ASSUME NEW r \in runs, FinishRun(r) \/ AbortRun(r) PROVE runs' \subseteq runs
    BY <2>2 DEF FinishRun, AbortRun, ReleaseRun
  <2>3. ASSUME NEW l \in loops, StartQueuedFails(l) \/ DropQueued(l) \/ EndLoop(l)
        PROVE  runs' \subseteq runs
    BY <2>3 DEF StartQueuedFails, DropQueued, EndLoop
  <2> QED BY <1>4, <2>1, <2>2, <2>3 DEF Dispatch
<1>5. CASE Timers
  BY <1>5 DEF Timers, CallTimeout, ExpireStale
<1>6. CASE Monitoring
  <2>1. CASE Crash
    BY <2>1 DEF Crash
  <2>2. CASE Monitoring /\ ~Crash
    BY <2>2 DEF Monitoring, StartMonitoring, StopMonitoring, Reconnected, StopAll,
         FinishStop, FinishReconnect
  <2> QED BY <1>6, <2>1, <2>2
<1> QED BY <1>1, <1>2, <1>3, <1>4, <1>5, <1>6 DEF Next

\* A step that starts a run: the message waited, and had no run.
Starting(m) ==
  /\ m \in Messages
  /\ Waiting(m) /\ WaitersLeave({m})
  /\ \E n : n.msg = m /\ runs' = runs \cup {n}
  /\ attempts' = [attempts EXCEPT ![m] = @ + 1]
  /\ UNCHANGED claimed

LEMMA StartRunStarts ==
  ASSUME TypeOK, OnceInv, NEW g \in Gens, NEW m \in Messages, StartRun(g, m)
  PROVE  Starting(m)
<1> DEFINE n == [gen |-> g, msg |-> m, count |-> 0]
<1>1. /\ Handling(g, m) /\ UNCHANGED <<queue, claimed>>
      /\ attempts' = [attempts EXCEPT ![m] = @ + 1]
      /\ n.msg = m /\ runs' = runs \cup {n}
  BY DEF StartRun, MayStart
<1>2. WaitersLeave({m}) /\ Waiting(m)
  BY <1>1, HandlingLeaves, HandlingWaits
<1> HIDE DEF n
<1> QED BY <1>1, <1>2 DEF Starting

LEMMA StartQueuedStarts ==
  ASSUME TypeOK, OnceInv, NEW l \in loops, StartQueued(l)
  PROVE  \E m \in Messages : Starting(m)
<1> DEFINE m == Head(queue[l.gen][l.conv])
<1> DEFINE n == [gen |-> l.gen, msg |-> m, count |-> l.count + 1]
<1>1. /\ Dequeue(l) /\ UNCHANGED <<deferred, claimed>>
      /\ attempts' = [attempts EXCEPT ![m] = @ + 1]
      /\ n.msg = m /\ runs' = runs \cup {n}
  BY DEF StartQueued, MayStartQueued
<1>2. WaitersLeave({m}) /\ Waiting(m) /\ m \in Messages
  BY <1>1, DequeueLeaves, WaitingType
<1> HIDE DEF n, m
<1> QED BY <1>1, <1>2 DEF Starting

LEMMA PlaceStep ==
  ASSUME TypeOK, OnceInv, PlaceInv, [Next]_vars
  PROVE  PlaceInv'
<1>0. \A r \in runs : r.msg \in Messages
  BY DEF TypeOK, Runs
<1>1. ASSUME NEW m \in Messages, Starting(m) PROVE PlaceInv'
  <2>1. PICK n : n.msg = m /\ runs' = runs \cup {n}
    BY <1>1 DEF Starting
  <2>2. ~Running(m)
    BY <1>1, WaitingNotRunning DEF Starting, PlaceInv
  <2>3. attempts'[m] > 0 /\ \A x \in Messages : x # m => attempts'[x] = attempts[x]
    BY <1>1 DEF TypeOK, Starting
  <2> QED BY <1>0, <2>1, <2>2, <2>3 DEF PlaceInv, RunsTried, OneRunEach, Running
<1>2. ASSUME ~ \E g \in Gens, m \in Messages : StartRun(g, m), ~ \E l \in loops : StartQueued(l)
      PROVE  PlaceInv'
  <2>1. runs' \subseteq runs
    BY <1>2, RunsShrink
  <2>2. UNCHANGED attempts
    BY <1>2, OtherSteps DEF Claim
  <2> QED BY <2>1, <2>2 DEF PlaceInv, RunsTried, OneRunEach
<1> QED BY <1>1, <1>2, StartRunStarts, StartQueuedStarts

LEMMA SuffixShorter ==
  ASSUME NEW S, NEW s \in Seq(S), NEW t \in Seq(S), SuffixOf(s, t)
  PROVE  Len(s) <= Len(t)
<1>1. PICK k \in Nat : \A i \in DOMAIN s : i + k \in DOMAIN t
  BY DEF SuffixOf
<1>2. DOMAIN s = 1..Len(s) /\ Len(s) \in Nat /\ DOMAIN t = 1..Len(t) /\ Len(t) \in Nat
  OBVIOUS
<1>3. CASE Len(s) = 0
  BY <1>2, <1>3
<1>4. CASE Len(s) # 0
  <2>1. Len(s) \in DOMAIN s
    BY <1>2, <1>4
  <2>2. Len(s) + k \in 1..Len(t)
    BY <1>1, <1>2, <2>1
  <2> QED BY <1>2, <2>2
<1> QED BY <1>3, <1>4

LEMMA FitStep ==
  ASSUME TypeOK, QueuesFit, [Next]_vars
  PROVE  QueuesFit'
<1>0. TypeOK'
  BY StepType
<1>1. ASSUME QueuesShrink PROVE QueuesFit'
  <2> SUFFICES ASSUME NEW g \in Gens, NEW c \in Conversations
               PROVE  Len(queue'[g][c]) <= MaxQueueSize
    BY DEF QueuesFit
  <2>1. queue[g][c] \in Seq(Messages) /\ queue'[g][c] \in Seq(Messages)
    BY <1>0, QueueType DEF TypeOK
  <2>3. Len(queue'[g][c]) <= Len(queue[g][c])
    BY <1>1, <2>1, SuffixShorter DEF QueuesShrink
  <2>4. MaxQueueSize \in Nat /\ Len(queue[g][c]) <= MaxQueueSize
    BY BoundsAssumption DEF QueuesFit
  <2> QED BY <2>1, <2>3, <2>4
<1>2. ASSUME NEW g \in Gens, NEW m \in Messages, EnqueueMessage(g, m) PROVE QueuesFit'
  <2> DEFINE q == queue[g][ConvOf[m]]
  <2>1. q \in Seq(Messages) /\ ConvOf[m] \in Conversations
    BY ConvOfAssumption, QueueType
  <2>2. PICK k \in StalePrefixes(q) :
          queue' = [queue EXCEPT ![g][ConvOf[m]] = Append(DropOldest(q, k), m)]
    BY <1>2 DEF EnqueueMessage
  <2>3. k \in 0..Len(q)
    BY <2>1, <2>2, StalePrefixesType
  <2>4. Len(q) < MaxQueueSize
    BY <1>2 DEF EnqueueMessage
  <2>5. Len(Append(DropOldest(q, k), m)) <= MaxQueueSize
    <3>1. Len(Append(DropOldest(q, k), m)) = Len(q) - k + 1
      BY <2>1, <2>3 DEF DropOldest
    <3>2. MaxQueueSize \in Nat /\ Len(q) \in Nat
      BY <2>1, BoundsAssumption
    <3> HIDE DEF q
    <3> QED BY <2>3, <2>4, <3>1, <3>2
  <2> HIDE DEF q
  <2> QED BY <2>1, <2>2, <2>5, QueueType DEF QueuesFit
<1> QED BY <1>1, <1>2, StepShrinks

\* The claim adds one message to what is held, or marks one of before the cutoff.
LEMMA HoldClaim ==
  ASSUME TypeOK, TypeOK', OnceInv, HoldInv, NEW g \in Gens, Claim(g)
  PROVE  HeldIffOpen' /\ HeldRecent' /\ FateClaimed'
<1>1. PICK m \in Messages : m = Head(batch[g])
  BY DEF TypeOK, Claim
<1>2. /\ claimed' = claimed \cup {m} /\ UNCHANGED <<queue, runs>>
      /\ deferred' = IF m \notin BeforeCutoff /\ m \notin claimed
                     THEN Append(deferred, <<g, m>>) ELSE deferred
      /\ IF m \in BeforeCutoff THEN Settle({m}, "skipped") ELSE UNCHANGED fate
  BY <1>1 DEF Claim, WinsClaim, workVars
<1>3. deferred \in Seq(Gens \X Messages)
  BY DEF TypeOK
<1>4. CASE m \in BeforeCutoff
  <2>1. \A x : Held(x)' <=> Held(x)
    BY <1>2, <1>4 DEF Held, Waiting, Running
  <2>2. ~Held(m) /\ fate'[m] = "skipped" /\ \A x \in Messages : x # m => fate'[x] = fate[x]
    BY <1>2, <1>4 DEF HoldInv, HeldRecent, Settle
  <2> QED BY <1>2, <2>1, <2>2 DEF HoldInv, HeldIffOpen, HeldRecent, FateClaimed
<1>5. CASE m \notin BeforeCutoff /\ m \in claimed
  <2>1. \A x : Held(x)' <=> Held(x)
    BY <1>2, <1>5 DEF Held, Waiting, Running
  <2> QED BY <1>2, <1>5, <2>1 DEF HoldInv, HeldIffOpen, HeldRecent, FateClaimed
<1>6. CASE m \notin BeforeCutoff /\ m \notin claimed
  <2>1. deferred' = Append(deferred, <<g, m>>) /\ UNCHANGED fate
    BY <1>2, <1>6
  <2>2. \A i \in DOMAIN deferred' :
          \/ i \in DOMAIN deferred /\ deferred'[i] = deferred[i]
          \/ i = Len(deferred) + 1 /\ deferred'[i] = <<g, m>>
    BY <1>3, <2>1
  <2>3. /\ \A i \in DOMAIN deferred : i \in DOMAIN deferred' /\ deferred'[i] = deferred[i]
        /\ Len(deferred) + 1 \in DOMAIN deferred' /\ deferred'[Len(deferred) + 1] = <<g, m>>
    BY <1>3, <2>1
  <2>4. \A x : (\E i \in DOMAIN deferred' : deferred'[i][2] = x)
                 <=> (\E i \in DOMAIN deferred : deferred[i][2] = x) \/ x = m
    BY <2>2, <2>3
  <2>5. \A x : Held(x)' <=> Held(x) \/ x = m
    BY <1>2, <2>4 DEF Held, Waiting, Running
  <2>6. fate[m] = "none"
    BY <1>6 DEF HoldInv, FateClaimed
  <2> QED BY <1>2, <1>6, <2>1, <2>5, <2>6 DEF HoldInv, HeldIffOpen, HeldRecent, FateClaimed
<1> QED BY <1>4, <1>5, <1>6

LEMMA HoldStep ==
  ASSUME TypeOK, OnceInv, HoldInv, [Next]_vars
  PROVE  HoldInv'
<1>0. TypeOK' /\ PlaceInv' /\ QueuesFit'
  BY StepType, PlaceStep, FitStep DEF HoldInv
<1>1. ASSUME NEW ms, Ending(ms) PROVE HeldIffOpen' /\ HeldRecent' /\ FateClaimed'
  <2>1. \A m \in Messages : m \in ms => fate'[m] # "none" /\ m \in claimed
    BY <1>1 DEF Ending, HoldInv, HeldIffOpen, Settle
  <2>2. \A m \in Messages : m \notin ms => fate'[m] = fate[m]
    BY <1>1 DEF Ending, Settle
  <2>3. \A m \in Messages : (Held(m)' <=> Held(m) /\ m \notin ms) /\ UNCHANGED claimed
    BY <1>1 DEF Ending, LetsGo
  <2>4. BeforeCutoff \subseteq Messages
    BY BoundsAssumption
  <2>5. HeldIffOpen'
    BY <2>1, <2>2, <2>3 DEF HoldInv, HeldIffOpen
  <2> QED BY <2>1, <2>2, <2>3, <2>4, <2>5 DEF HoldInv, HeldRecent, FateClaimed
<1>2. CASE ~ \E g \in Gens : Claim(g)
  BY <1>0, <1>1, <1>2, StepEnds DEF HoldInv, PlaceInv
<1> QED BY <1>0, <1>2, HoldClaim DEF HoldInv

LEMMA HoldInit == Init => HoldInv
<1> SUFFICES ASSUME Init PROVE HoldInv
  OBVIOUS
<1>1. \A m : ~Held(m)
  BY DEF Init, Held, Waiting, Running, EmptyQueues
<1>2. QueuesFit
  BY BoundsAssumption DEF Init, QueuesFit, EmptyQueues
<1> QED BY <1>1, <1>2
        DEF Init, HoldInv, PlaceInv, RunsTried, OneRunEach, HeldIffOpen, HeldRecent, FateClaimed

\* Where the holders of a message are, one kind of place at a time.
LEMMA HoldersCount ==
  ASSUME TypeOK, OnceInv, PlaceInv, QueuesFit, NEW m \in Messages
  PROVE  Cardinality(Holders(m)) = IF Held(m) THEN 1 ELSE 0
<1> DEFINE D == {<<"deferred", i>> : i \in {j \in DOMAIN deferred : deferred[j][2] = m}}
<1> DEFINE Q == {<<"queue", p>> : p \in {t \in Gens \X Conversations \X (1..MaxQueueSize) :
                    t[3] \in DOMAIN queue[t[1]][t[2]] /\ queue[t[1]][t[2]][t[3]] = m}}
<1> DEFINE R == {<<"run", r>> : r \in {q \in runs : q.msg = m}}
<1>1. Holders(m) = D \cup Q \cup R
  BY DEF Holders
<1>2. D # {} <=> \E i \in DOMAIN deferred : deferred[i][2] = m
  OBVIOUS
<1>3. Q # {} <=> \E g \in Gens, c \in Conversations : \E i \in DOMAIN queue[g][c] : queue[g][c][i] = m
  <2>1. ASSUME NEW g \in Gens, NEW c \in Conversations, NEW i \in DOMAIN queue[g][c],
               queue[g][c][i] = m
        PROVE  <<"queue", <<g, c, i>>>> \in Q
    <3>1. queue[g][c] \in Seq(Messages) /\ Len(queue[g][c]) <= MaxQueueSize /\ MaxQueueSize \in Nat
      BY QueueType, BoundsAssumption DEF QueuesFit
    <3>2. i \in 1..MaxQueueSize
      BY <3>1
    <3> QED BY <2>1, <3>2
  <2> HIDE DEF D, R
  <2> QED BY <2>1
<1>4. R # {} <=> Running(m)
  BY DEF Running
<1>5. \A x, y \in D : x = y
  BY DEF OnceInv, WaitOnce
<1>6. \A x, y \in Q : x = y
  BY DEF OnceInv, WaitOnce
<1>7. \A x, y \in R : x = y
  BY DEF PlaceInv, OneRunEach
<1>8. D = {} \/ Q = {}
  <2>1. D # {} => ~(\E g \in Gens, c \in Conversations :
                      \E i \in DOMAIN queue[g][c] : queue[g][c][i] = m)
    BY <1>2 DEF OnceInv, WaitOnce
  <2> QED BY <1>3, <2>1
<1>9. D \cup Q # {} <=> Waiting(m)
  BY <1>2, <1>3 DEF Waiting
<1>10. D \cup Q = {} \/ R = {}
  BY <1>4, <1>9, WaitingNotRunning DEF PlaceInv
<1> HIDE DEF D, Q, R
<1>11. \A x, y \in Holders(m) : x = y
  BY <1>1, <1>5, <1>6, <1>7, <1>8, <1>10
<1>12. Held(m) <=> Holders(m) # {}
  BY <1>1, <1>4, <1>9 DEF Held
<1>13. CASE Holders(m) = {}
  BY <1>12, <1>13, FS_EmptySet
<1>14. CASE Holders(m) # {}
  <2>1. PICK x : Holders(m) = {x}
    BY <1>11, <1>14
  <2>2. Cardinality({x}) = 1
    BY FS_Singleton
  <2> QED BY <1>12, <1>14, <2>1, <2>2
<1> QED BY <1>13, <1>14

(***************************************************************************)
(* A claimed message whose handling has not ended is in one place and any  *)
(* other message is in none, for any number of messages, generations and   *)
(* conversations, whatever stops, fails or restarts.                       *)
(***************************************************************************)
THEOREM MessagesAccounted == Spec => []Accounted
<1>1. Init => TypeOK /\ OnceInv /\ HoldInv
  BY InitType, OnceInit, HoldInit
<1>2. TypeOK /\ OnceInv /\ HoldInv /\ [Next]_vars => (TypeOK /\ OnceInv /\ HoldInv)'
  BY StepType, OnceStep, HoldStep
<1>3. TypeOK /\ OnceInv /\ HoldInv => Accounted
  BY HoldersCount DEF Accounted, HoldInv, HeldIffOpen
<1> QED BY <1>1, <1>2, <1>3, PTL DEF Spec

-----------------------------------------------------------------------------
(***************************************************************************)
(* The pipeline implements MessageHandling.  A claim maps to Claim, or to  *)
(* a stutter when it is lost; the start of a run to Begin; every other     *)
(* step to End of what it lets go of, or to a stutter.                     *)
(***************************************************************************)
StatusMap == [m \in Messages |-> StatusOf(m)]

LEMMA StatusOfIs ==
  ASSUME NEW m
  PROVE  StatusOf(m) = IF Running(m) THEN "running"
                       ELSE IF Waiting(m) THEN "pending"
                       ELSE IF m \in claimed THEN "ended" ELSE "unclaimed"
<1>1. m \in {r.msg : r \in runs} <=> Running(m)
  BY DEF Running
<1>2. m \in InMemory <=> Held(m)
  BY InMemoryHeld
<1> QED BY <1>1, <1>2 DEF StatusOf, Held

LEMMA StatusOfPrime ==
  ASSUME NEW m
  PROVE  StatusOf(m)' = IF Running(m)' THEN "running"
                        ELSE IF Waiting(m)' THEN "pending"
                        ELSE IF m \in claimed' THEN "ended" ELSE "unclaimed"
<1>1. m \in {r.msg : r \in runs'} <=> Running(m)'
  BY DEF Running
<1>2. (m \in InMemory <=> Held(m))'
  BY InMemoryHeld, PTL
<1> QED BY <1>1, <1>2 DEF StatusOf, Held

LEMMA HeldClaimed ==
  ASSUME TypeOK, OnceInv, PlaceInv, NEW m, Held(m)
  PROVE  m \in claimed
<1>1. CASE Waiting(m)
  BY <1>1, WaitingFresh DEF OnceInv, Fresh
<1>2. CASE Running(m)
  BY <1>2, RunningType DEF OnceInv, PlaceInv, RunsTried, RunsClaimed, Running
<1> QED BY <1>1, <1>2 DEF Held

\* StatusMap is the status of MessageHandling; what its two ends of a step are.
LEMMA StatusMapAt ==
  \A m \in Messages : StatusMap[m] = StatusOf(m) /\ StatusMap'[m] = StatusOf(m)'
BY DEF StatusMap

LEMMA MoveStep ==
  ASSUME NEW m \in Messages, NEW to,
         StatusOf(m)' = to,
         \A x \in Messages : x # m => StatusOf(x)' = StatusOf(x)
  PROVE  StatusMap' = [StatusMap EXCEPT ![m] = to]
BY DEF StatusMap

LEMMA ClaimHandled ==
  ASSUME TypeOK, OnceInv, PlaceInv, NEW g \in Gens, Claim(g)
  PROVE  (\E m \in Messages : Handled!Claim(m)) \/ UNCHANGED StatusMap
<1>1. PICK m \in Messages : m = Head(batch[g])
  BY DEF TypeOK, Claim
<1>2. /\ claimed' = claimed \cup {m} /\ UNCHANGED <<queue, runs>>
      /\ deferred' = IF m \notin BeforeCutoff /\ m \notin claimed
                     THEN Append(deferred, <<g, m>>) ELSE deferred
  BY <1>1 DEF Claim, WinsClaim, workVars
<1>3. deferred \in Seq(Gens \X Messages)
  BY DEF TypeOK
<1>4. ASSUME UNCHANGED deferred
      PROVE  \A x : (Running(x)' <=> Running(x)) /\ (Waiting(x)' <=> Waiting(x))
  BY <1>2, <1>4 DEF Waiting, Running
<1>5. CASE m \in claimed
  <2>1. \A x \in Messages : StatusOf(x)' = StatusOf(x)
    BY <1>2, <1>4, <1>5, StatusOfIs, StatusOfPrime
  <2> QED BY <2>1 DEF StatusMap
<1>6. CASE m \notin claimed
  <2>1. StatusOf(m) = "unclaimed" /\ ~Held(m)
    BY <1>6, HeldClaimed, StatusOfIs DEF Held
  <2>2. CASE m \in BeforeCutoff
    <3>1. \A x \in Messages : x # m => StatusOf(x)' = StatusOf(x)
      BY <1>2, <1>4, <2>2, StatusOfIs, StatusOfPrime
    <3>2. StatusOf(m)' = "ended"
      BY <1>2, <1>4, <2>1, <2>2, StatusOfPrime DEF Held
    <3>3. StatusMap' = [StatusMap EXCEPT ![m] = "ended"]
      BY <3>1, <3>2, MoveStep
    <3> QED BY <2>1, <3>3, StatusMapAt DEF Handled!Claim, Handled!Move, StatusMap
  <2>3. CASE m \notin BeforeCutoff
    <3>1. deferred' = Append(deferred, <<g, m>>)
      BY <1>2, <1>6, <2>3
    <3>2. \A i \in DOMAIN deferred' :
            \/ i \in DOMAIN deferred /\ deferred'[i] = deferred[i]
            \/ i = Len(deferred) + 1 /\ deferred'[i] = <<g, m>>
      BY <1>3, <3>1
    <3>3. /\ \A i \in DOMAIN deferred : i \in DOMAIN deferred' /\ deferred'[i] = deferred[i]
          /\ Len(deferred) + 1 \in DOMAIN deferred' /\ deferred'[Len(deferred) + 1] = <<g, m>>
      BY <1>3, <3>1
    <3>4. \A x : (\E i \in DOMAIN deferred' : deferred'[i][2] = x)
                   <=> (\E i \in DOMAIN deferred : deferred[i][2] = x) \/ x = m
      BY <3>2, <3>3
    <3>5. \A x : (Running(x)' <=> Running(x)) /\ (Waiting(x)' <=> Waiting(x) \/ x = m)
      BY <1>2, <3>4 DEF Waiting, Running
    <3>6. \A x \in Messages : x # m => StatusOf(x)' = StatusOf(x)
      BY <1>2, <3>5, StatusOfIs, StatusOfPrime
    <3>7. StatusOf(m)' = "pending"
      BY <2>1, <3>5, StatusOfPrime DEF Held
    <3>8. StatusMap' = [StatusMap EXCEPT ![m] = "pending"]
      BY <3>6, <3>7, MoveStep
    <3> QED BY <2>1, <3>8, StatusMapAt DEF Handled!Claim, Handled!Move, StatusMap
  <2> QED BY <2>2, <2>3
<1> QED BY <1>5, <1>6

LEMMA BeginHandled ==
  ASSUME TypeOK, OnceInv, PlaceInv, NEW m \in Messages, Starting(m)
  PROVE  Handled!Begin(m)
<1>1. PICK n : n.msg = m /\ runs' = runs \cup {n}
  BY DEF Starting
<1>2. \A x : Running(x)' <=> Running(x) \/ x = m
  BY <1>1 DEF Running
<1>3. \A x \in Messages : Waiting(x)' <=> Waiting(x) /\ x # m
  BY DEF Starting, WaitersLeave
<1>4. ~Running(m) /\ Waiting(m) /\ UNCHANGED claimed
  BY WaitingNotRunning DEF Starting, PlaceInv
<1>5. \A x \in Messages : x # m => StatusOf(x)' = StatusOf(x)
  BY <1>2, <1>3, <1>4, StatusOfIs, StatusOfPrime
<1>6. StatusOf(m) = "pending" /\ StatusOf(m)' = "running"
  BY <1>2, <1>4, StatusOfIs, StatusOfPrime
<1>7. StatusMap' = [StatusMap EXCEPT ![m] = "running"]
  BY <1>5, <1>6, MoveStep
<1> QED BY <1>6, <1>7, StatusMapAt DEF Handled!Begin, Handled!Move, StatusMap

LEMMA EndHandled ==
  ASSUME TypeOK, OnceInv, PlaceInv, OnceInv', NEW ms, Ending(ms), runs' \subseteq runs,
         UNCHANGED attempts
  PROVE  (\E S \in SUBSET Messages : Handled!End(S)) \/ UNCHANGED StatusMap
<1>1. /\ UNCHANGED claimed
      /\ \A m \in ms : m \in Messages /\ Held(m)
      /\ \A m \in Messages : Held(m)' <=> Held(m) /\ m \notin ms
  BY DEF Ending, LetsGo
<1>2. \A x : Running(x)' => Running(x)
  BY DEF Running
<1>3. \A x : Waiting(x)' => attempts[x] = 0
  BY DEF OnceInv, WaitFresh, Waiting, Fresh
<1>4. \A x : Running(x) => attempts[x] > 0
  BY DEF PlaceInv, RunsTried, Running
<1>5. \A x : Waiting(x)' => ~Running(x)
  BY <1>3, <1>4
<1>6. \A x : ~(Waiting(x) /\ Running(x))
  BY WaitingNotRunning DEF PlaceInv
<1>7. \A x \in Messages : x \notin ms => StatusOf(x)' = StatusOf(x)
  <2> SUFFICES ASSUME NEW x \in Messages, x \notin ms PROVE StatusOf(x)' = StatusOf(x)
    OBVIOUS
  <2>1. Held(x)' <=> Held(x)
    BY <1>1
  <2>2. (Running(x)' <=> Running(x)) /\ (Waiting(x)' <=> Waiting(x))
    BY <1>2, <1>5, <1>6, <2>1 DEF Held
  <2> QED BY <1>1, <2>2, StatusOfIs, StatusOfPrime
<1>8. \A x \in ms : StatusOf(x) \in {"pending", "running"} /\ StatusOf(x)' = "ended"
  <2> SUFFICES ASSUME NEW x \in ms
               PROVE  StatusOf(x) \in {"pending", "running"} /\ StatusOf(x)' = "ended"
    OBVIOUS
  <2>1. x \in Messages /\ Held(x) /\ ~Held(x)'
    BY <1>1
  <2>2. x \in claimed'
    BY <1>1, <2>1, HeldClaimed
  <2> QED BY <2>1, <2>2, StatusOfIs, StatusOfPrime DEF Held
<1>9. CASE ms = {}
  BY <1>7, <1>9 DEF StatusMap
<1>10. CASE ms # {}
  <2>1. StatusMap' = [m \in Messages |-> IF m \in ms THEN "ended" ELSE StatusMap[m]]
    BY <1>7, <1>8 DEF StatusMap
  <2>2. \A m \in ms : StatusMap[m] \in {"pending", "running"}
    BY <1>1, <1>8, StatusMapAt
  <2>3. Handled!End(ms)
    BY <1>10, <2>1, <2>2 DEF Handled!End, StatusMap
  <2>4. ms \in SUBSET Messages
    BY <1>1
  <2> QED BY <2>3, <2>4
<1> QED BY <1>9, <1>10

LEMMA HandledStep ==
  ASSUME TypeOK, OnceInv, PlaceInv, [Next]_vars
  PROVE  [Handled!Next]_StatusMap
<1>1. ASSUME NEW g \in Gens, Claim(g) PROVE [Handled!Next]_StatusMap
  BY <1>1, ClaimHandled DEF Handled!Next
<1>2. ASSUME NEW m \in Messages, Starting(m) PROVE [Handled!Next]_StatusMap
  BY <1>2, BeginHandled DEF Handled!Next
<1>3. ASSUME ~ \E g \in Gens : Claim(g),
             ~ \E g \in Gens, m \in Messages : StartRun(g, m),
             ~ \E l \in loops : StartQueued(l)
      PROVE  [Handled!Next]_StatusMap
  <2>1. PICK ms : Ending(ms)
    BY <1>3, StepEnds DEF PlaceInv
  <2>2. runs' \subseteq runs /\ UNCHANGED attempts
    BY <1>3, RunsShrink, OtherSteps
  <2> QED BY <2>1, <2>2, OnceStep, EndHandled DEF Handled!Next
<1> QED BY <1>1, <1>2, <1>3, StartRunStarts, StartQueuedStarts

LEMMA HandledInit == Init => Handled!Init
<1> SUFFICES ASSUME Init PROVE Handled!Init
  OBVIOUS
<1>1. \A m : ~Running(m) /\ ~Waiting(m)
  BY DEF Init, Running, Waiting, EmptyQueues
<1>2. \A m \in Messages : StatusOf(m) = "unclaimed"
  BY <1>1, StatusOfIs DEF Init
<1> QED BY <1>2 DEF Handled!Init

(***************************************************************************)
(* Every behaviour of the pipeline is one of MessageHandling: a message is *)
(* claimed at most once, given to the agent at most once after that, and   *)
(* an ended one is never touched again, for every number of messages,      *)
(* generations, reconnections and restarts.                                *)
(***************************************************************************)
THEOREM ImplementsHandling == Spec => HandlesOnce
<1>1. Init => TypeOK /\ OnceInv /\ PlaceInv
  BY InitType, OnceInit, HoldInit DEF HoldInv
<1>2. TypeOK /\ OnceInv /\ PlaceInv /\ [Next]_vars => (TypeOK /\ OnceInv /\ PlaceInv)'
  BY StepType, OnceStep, PlaceStep
<1>3. TypeOK /\ OnceInv /\ PlaceInv /\ [Next]_vars => [Handled!Next]_StatusMap
  BY HandledStep
<1> QED BY <1>1, <1>2, <1>3, HandledInit, PTL DEF Spec, HandlesOnce, Handled!Spec, StatusMap

-----------------------------------------------------------------------------
(***************************************************************************)
(* Who serves a queue.  A conversation counts as active only while a run   *)
(* is there (unless a commit fails), a message is queued only behind one,  *)
(* and the end of a run leaves a loop.  That a loop does not reach its     *)
(* safety limit with messages left is a count: each round of a loop takes  *)
(* one message of its conversation for good (Gone), and the one the run    *)
(* had makes one more.                                                     *)
(***************************************************************************)
ActiveHasRun ==
  \A g \in Gens : \A c \in active[g] : \E r \in runs : r.gen = g /\ ConvOf[r.msg] = c

QueueServed ==
  \A g \in Gens, c \in Conversations : queue[g][c] # <<>> => Workers(g, c) # {}

Gone(c) == {m \in claimed : ConvOf[m] = c /\ ~Waiting(m)}

CountsGone ==
  /\ \A r \in runs : r.count + 1 <= Cardinality(Gone(ConvOf[r.msg]))
  /\ \A l \in loops : l.count + 1 <= Cardinality(Gone(l.conv))

ServedInv == ActiveHasRun /\ QueueServed /\ CountsGone

MessagesOf(c) == {m \in Messages : ConvOf[m] = c}

\* No conversation has more messages than a loop and the run before it take.
DrainSuffices ==
  \A c \in Conversations :
    IsFiniteSet(MessagesOf(c)) /\ Cardinality(MessagesOf(c)) <= MaxDrain + 1

LEMMA WorkersAt ==
  ASSUME NEW g, NEW c
  PROVE  Workers(g, c) # {} <=> \/ \E r \in runs : r.gen = g /\ ConvOf[r.msg] = c
                                \/ \E l \in loops : l.gen = g /\ l.conv = c
BY DEF Workers

\* A message that waits no more does not wait again.
LEMMA GoneGrows ==
  ASSUME TypeOK, OnceInv, [Next]_vars
  PROVE  \A c : Gone(c) \subseteq Gone(c)'
<1> SUFFICES ASSUME NEW m \in Messages, m \in claimed, ~Waiting(m)
             PROVE  m \in claimed' /\ ~Waiting(m)'
  BY DEF Gone, TypeOK
<1>0. TypeOK'
  BY StepType
<1>1. ASSUME NEW g \in Gens, Claim(g) PROVE m \in claimed' /\ ~Waiting(m)'
  <2>1. PICK x \in Messages : x = Head(batch[g])
    BY <1>1 DEF TypeOK, Claim
  <2>2. /\ claimed' = claimed \cup {x} /\ UNCHANGED queue
        /\ \/ UNCHANGED deferred
           \/ x \notin claimed /\ deferred' = Append(deferred, <<g, x>>)
    BY <1>1, <2>1 DEF Claim, WinsClaim, workVars
  <2>3. deferred \in Seq(Gens \X Messages)
    BY DEF TypeOK
  <2>4. \A i \in DOMAIN deferred' :
          \/ i \in DOMAIN deferred /\ deferred'[i] = deferred[i]
          \/ x \notin claimed /\ deferred'[i] = <<g, x>>
    <3>1. CASE UNCHANGED deferred
      BY <3>1
    <3>2. CASE x \notin claimed /\ deferred' = Append(deferred, <<g, x>>)
      BY <2>3, <3>2
    <3> QED BY <2>2, <3>1, <3>2
  <2>5. \A i \in DOMAIN deferred' : deferred'[i][2] # m
    BY <2>4 DEF Waiting
  <2> QED BY <2>2, <2>5 DEF Waiting
<1>2. ASSUME NEW x \in Messages, Starting(x) PROVE m \in claimed' /\ ~Waiting(m)'
  BY <1>2 DEF Starting, WaitersLeave
<1>3. ASSUME NEW g \in Gens, NEW x \in Messages, EnqueueMessage(g, x)
      PROVE  m \in claimed' /\ ~Waiting(m)'
  <2>1. \E ms : WaitersLeave(ms)
    BY <1>0, <1>3, EnqueueLeaves
  <2> QED BY <1>3, <2>1 DEF WaitersLeave, EnqueueMessage
<1>4. CASE /\ ~ \E g \in Gens : Claim(g)
           /\ ~ \E g \in Gens, x \in Messages : StartRun(g, x) \/ EnqueueMessage(g, x)
           /\ ~ \E l \in loops : StartQueued(l)
  BY <1>4, OtherSteps, StepShrinks, WaitingShrinks
<1> QED BY <1>1, <1>2, <1>3, <1>4, StartRunStarts, StartQueuedStarts

\* A step that takes a claimed message out of its place makes one more.
LEMMA GoneCounts ==
  ASSUME TypeOK, OnceInv, DrainSuffices, [Next]_vars, NEW c \in Conversations
  PROVE  /\ Cardinality(Gone(c)) \in Nat /\ Cardinality(Gone(c)') \in Nat
         /\ Cardinality(Gone(c)) <= Cardinality(Gone(c)')
         /\ \A m \in Gone(c)' : m \notin Gone(c) => Cardinality(Gone(c)) + 1 <= Cardinality(Gone(c)')
<1> DEFINE before == Gone(c)
<1> DEFINE after  == Gone(c)'
<1>1. after \subseteq MessagesOf(c) /\ IsFiniteSet(MessagesOf(c))
  BY StepType DEF TypeOK, Gone, MessagesOf, DrainSuffices
<1>2. before \subseteq after
  BY GoneGrows
<1> HIDE DEF before, after
<1>3. IsFiniteSet(after)
  BY <1>1, FS_Subset
<1>4. IsFiniteSet(before) /\ Cardinality(before) <= Cardinality(after)
  BY <1>2, <1>3, FS_Subset
<1>5. Cardinality(before) \in Nat /\ Cardinality(after) \in Nat
  BY <1>3, <1>4, FS_CardinalityType
<1>6. ASSUME NEW m \in after, m \notin before
      PROVE  Cardinality(before) + 1 <= Cardinality(after)
  <2>1. Cardinality(before \cup {m}) = Cardinality(before) + 1
    BY <1>4, <1>6, FS_AddElement
  <2>2. before \cup {m} \in SUBSET after
    BY <1>2, <1>6
  <2>3. Cardinality(before \cup {m}) <= Cardinality(after)
    BY <1>3, <2>2, FS_Subset
  <2> QED BY <2>1, <2>3
<1> QED BY <1>4, <1>5, <1>6 DEF before, after

\* Who counts, and what: the conversations of runs and loops.
LEMMA CountTypes ==
  ASSUME TypeOK
  PROVE  /\ \A r \in runs : r.count \in Nat /\ r.msg \in Messages /\ ConvOf[r.msg] \in Conversations
         /\ \A l \in loops : l.count \in Nat /\ l.conv \in Conversations
BY ConvOfAssumption DEF TypeOK, Runs, Loops

\* With messages left in its queue, a loop has not reached its limit.
LEMMA LoopGoesOn ==
  ASSUME TypeOK, CountsGone, QueuedBelong, DrainSuffices, NEW l \in loops,
         queue[l.gen][l.conv] # <<>>
  PROVE  l.count < MaxDrain
<1> DEFINE S == MessagesOf(l.conv)
<1>1. l.gen \in Gens /\ l.conv \in Conversations /\ l.count \in Nat /\ MaxDrain \in Nat
  BY BoundsAssumption DEF TypeOK, Loops
<1>2. queue[l.gen][l.conv] \in Seq(Messages)
  BY <1>1, QueueType
<1>3. PICK w \in S : Waiting(w)
  <2>1. 1 \in DOMAIN queue[l.gen][l.conv] /\ queue[l.gen][l.conv][1] \in Messages
    BY <1>2
  <2>2. ConvOf[queue[l.gen][l.conv][1]] = l.conv
    BY <1>1, <2>1 DEF QueuedBelong
  <2> QED BY <1>1, <2>1, <2>2 DEF Waiting, MessagesOf
<1>4. Gone(l.conv) \in SUBSET (S \ {w})
  BY <1>3 DEF TypeOK, Gone, MessagesOf
<1>5. IsFiniteSet(S) /\ Cardinality(S) <= MaxDrain + 1
  BY <1>1 DEF DrainSuffices
<1> HIDE DEF S
<1>6. IsFiniteSet(S \ {w}) /\ Cardinality(S \ {w}) = Cardinality(S) - 1
  BY <1>3, <1>5, FS_RemoveElement
<1>7. IsFiniteSet(Gone(l.conv)) /\ Cardinality(Gone(l.conv)) <= Cardinality(S \ {w})
  BY <1>4, <1>6, FS_Subset
<1>8. Cardinality(Gone(l.conv)) \in Nat /\ Cardinality(S) \in Nat
  BY <1>5, <1>7, FS_CardinalityType
<1>9. l.count + 1 <= Cardinality(Gone(l.conv))
  BY DEF CountsGone
<1> QED BY <1>1, <1>5, <1>6, <1>7, <1>8, <1>9

\* A queue that has something after a step had something before, unless one was queued.
LEMMA ShrunkNonempty ==
  ASSUME TypeOK, TypeOK', QueuesShrink, NEW g \in Gens, NEW c \in Conversations,
         queue'[g][c] # <<>>
  PROVE  queue[g][c] # <<>>
<1>1. queue'[g][c] \in Seq(Messages) /\ queue[g][c] \in Seq(Messages)
  BY QueueType DEF TypeOK
<1>2. Len(queue'[g][c]) <= Len(queue[g][c])
  BY <1>1, SuffixShorter DEF QueuesShrink
<1> QED BY <1>1, <1>2

\* What a run or a loop has taken stays taken.
LEMMA CountsGrow ==
  ASSUME TypeOK, OnceInv, DrainSuffices, ServedInv, [Next]_vars
  PROVE  /\ \A r \in runs : r.count + 1 <= Cardinality(Gone(ConvOf[r.msg])')
         /\ \A l \in loops : l.count + 1 <= Cardinality(Gone(l.conv)')
<1>1. ASSUME NEW r \in runs PROVE r.count + 1 <= Cardinality(Gone(ConvOf[r.msg])')
  <2>1. PICK c \in Conversations : c = ConvOf[r.msg]
    BY CountTypes
  <2>2. r.count + 1 <= Cardinality(Gone(c)) /\ r.count \in Nat
    BY <2>1, CountTypes DEF ServedInv, CountsGone
  <2>3. Cardinality(Gone(c)) <= Cardinality(Gone(c)') /\ Cardinality(Gone(c)) \in Nat
        /\ Cardinality(Gone(c)') \in Nat
    BY GoneCounts
  <2>4. r.count + 1 <= Cardinality(Gone(c)')
    BY <2>2, <2>3
  <2> QED BY <2>1, <2>4
<1>2. ASSUME NEW l \in loops PROVE l.count + 1 <= Cardinality(Gone(l.conv)')
  <2>1. l.count + 1 <= Cardinality(Gone(l.conv)) /\ l.count \in Nat /\ l.conv \in Conversations
    BY CountTypes DEF ServedInv, CountsGone
  <2>2. Cardinality(Gone(l.conv)) <= Cardinality(Gone(l.conv)')
        /\ Cardinality(Gone(l.conv)) \in Nat /\ Cardinality(Gone(l.conv)') \in Nat
    BY <2>1, GoneCounts
  <2> QED BY <2>1, <2>2
<1> QED BY <1>1, <1>2

LEMMA CountsKept ==
  ASSUME TypeOK, TypeOK', OnceInv, DrainSuffices, ServedInv, [Next]_vars,
         runs' \subseteq runs, loops' \subseteq loops
  PROVE  CountsGone'
BY CountsGrow DEF CountsGone

LEMMA ServedKept ==
  ASSUME TypeOK, TypeOK', OnceInv, DrainSuffices, ServedInv, [Next]_vars,
         UNCHANGED <<active, runs, loops>>, QueuesShrink
  PROVE  ServedInv'
<1>1. CountsGone'
  BY CountsKept
<1>2. QueueServed'
  BY ShrunkNonempty, WorkersAt DEF ServedInv, QueueServed, Workers
<1> QED BY <1>1, <1>2 DEF ServedInv, ActiveHasRun

\* A conversation becomes active together with its run.
LEMMA ActiveJoins ==
  ASSUME TypeOK, ActiveHasRun, NEW h \in Gens, NEW n, n.gen = h, runs' = runs \cup {n},
         active' = [active EXCEPT ![h] = @ \cup {ConvOf[n.msg]}]
  PROVE  ActiveHasRun'
<1> SUFFICES ASSUME NEW g \in Gens, NEW c \in active'[g]
             PROVE  \E r \in runs' : r.gen = g /\ ConvOf[r.msg] = c
  BY DEF ActiveHasRun
<1>1. c \in active[g] \/ (g = h /\ c = ConvOf[n.msg])
  BY DEF TypeOK
<1>2. CASE c \in active[g]
  <2>1. \E r \in runs : r.gen = g /\ ConvOf[r.msg] = c
    BY <1>2 DEF ActiveHasRun
  <2> QED BY <2>1
<1> QED BY <1>1, <1>2

LEMMA ServedHandle ==
  ASSUME TypeOK, TypeOK', OnceInv, DrainSuffices, "commit" \notin Faults, ServedInv, [Next]_vars,
         NEW g \in Gens, NEW m \in Messages, HandleUserMessage(g, m)
  PROVE  ServedInv'
<1> USE DEF workVars
<1>1. CASE StartRun(g, m)
  <2> DEFINE n == [gen |-> g, msg |-> m, count |-> 0]
  <2>1. /\ runs' = runs \cup {n} /\ n.gen = g /\ n.msg = m /\ n.count = 0
        /\ active' = [active EXCEPT ![g] = @ \cup {ConvOf[m]}]
        /\ UNCHANGED <<queue, loops>>
    BY <1>1 DEF StartRun, MayStart
  <2> HIDE DEF n
  <2>2. ActiveHasRun'
    BY <2>1, ActiveJoins DEF ServedInv
  <2>3. QueueServed'
    BY <2>1 DEF ServedInv, QueueServed, Workers
  <2>4. Starting(m)
    BY <1>1, StartRunStarts
  <2>5. m \in Gone(ConvOf[m])' /\ m \notin Gone(ConvOf[m]) /\ ConvOf[m] \in Conversations
    BY <2>4, WaitingFresh, ConvOfAssumption DEF Gone, Starting, WaitersLeave, OnceInv, Fresh
  <2>6. 1 <= Cardinality(Gone(ConvOf[m])')
    <3>1. /\ Cardinality(Gone(ConvOf[m])) + 1 <= Cardinality(Gone(ConvOf[m])')
          /\ Cardinality(Gone(ConvOf[m])) \in Nat /\ Cardinality(Gone(ConvOf[m])') \in Nat
      BY <2>5, GoneCounts
    <3> QED BY <3>1
  <2>7. n.count + 1 <= Cardinality(Gone(ConvOf[n.msg])')
    BY <2>1, <2>6
  <2>9. CountsGone'
    BY <2>1, <2>7, CountsGrow DEF CountsGone
  <2> QED BY <2>2, <2>3, <2>9 DEF ServedInv
<1>2. CASE EnqueueMessage(g, m)
  <2>1. PICK q \in Seq(Messages) : queue' = [queue EXCEPT ![g][ConvOf[m]] = Append(q, m)]
    BY <1>2, EnqueueAppends
  <2>2. UNCHANGED <<active, runs, loops>> /\ ConvOf[m] \in active[g]
    BY <1>2 DEF EnqueueMessage, Busy
  <2>3. \E r \in runs : r.gen = g /\ ConvOf[r.msg] = ConvOf[m]
    BY <2>2 DEF ServedInv, ActiveHasRun
  <2>4. \A h \in Gens, c \in Conversations :
          ~(h = g /\ c = ConvOf[m]) => queue'[h][c] = queue[h][c]
    BY <2>1, QueueType
  <2>5. QueueServed'
    BY <2>2, <2>3, <2>4 DEF ServedInv, QueueServed, Workers
  <2>6. CountsGone'
    BY <2>2, CountsKept
  <2> QED BY <2>2, <2>5, <2>6 DEF ServedInv, ActiveHasRun
<1>3. CASE HandleUserMessage(g, m) /\ ~StartRun(g, m) /\ ~EnqueueMessage(g, m)
  <2>1. UNCHANGED <<queue, active, runs, loops>>
    BY <1>3 DEF HandleUserMessage, RejectAtCap, RefuseIntake, RefuseOverflow,
         RefuseConversation, StartFails
  <2> QED BY <2>1, QueuesKept, ServedKept
<1> QED BY <1>1, <1>2, <1>3

LEMMA ServedFinish ==
  ASSUME TypeOK, TypeOK', OnceInv, DrainSuffices, ServedInv, [Next]_vars,
         NEW r \in runs, FinishRun(r)
  PROVE  ServedInv'
<1>1. /\ runs' = runs \ {r} /\ loops' = loops \cup {Loop(r)} /\ UNCHANGED queue
      /\ active' = [active EXCEPT ![r.gen] = @ \ {ConvOf[r.msg]}]
  BY DEF FinishRun, ReleaseRun
<1>2. Loop(r).gen = r.gen /\ Loop(r).conv = ConvOf[r.msg] /\ Loop(r).count = r.count
  BY DEF Loop
<1>3. r.gen \in Gens
  BY DEF TypeOK, Runs
<1>4. ActiveHasRun'
  <2> SUFFICES ASSUME NEW g \in Gens, NEW c \in active'[g]
               PROVE  \E x \in runs' : x.gen = g /\ ConvOf[x.msg] = c
    BY DEF ActiveHasRun
  <2>1. c \in active[g] /\ ~(g = r.gen /\ c = ConvOf[r.msg])
    BY <1>1, <1>3 DEF TypeOK
  <2>2. \E x \in runs : x.gen = g /\ ConvOf[x.msg] = c
    BY <2>1 DEF ServedInv, ActiveHasRun
  <2> QED BY <1>1, <2>1, <2>2
<1>5. QueueServed'
  <2> SUFFICES ASSUME NEW g \in Gens, NEW c \in Conversations, queue[g][c] # <<>>
               PROVE  Workers(g, c)' # {}
    BY <1>1 DEF QueueServed
  <2>1. \/ \E x \in runs : x.gen = g /\ ConvOf[x.msg] = c
        \/ \E l \in loops : l.gen = g /\ l.conv = c
    BY WorkersAt DEF ServedInv, QueueServed
  <2>2. CASE r.gen = g /\ ConvOf[r.msg] = c
    BY <1>1, <1>2, <2>2 DEF Workers
  <2>3. CASE ~(r.gen = g /\ ConvOf[r.msg] = c)
    BY <1>1, <2>1, <2>3 DEF Workers
  <2> QED BY <2>2, <2>3
<1>9. CountsGone'
  BY <1>1, <1>2, CountsGrow DEF CountsGone
<1> QED BY <1>4, <1>5, <1>9 DEF ServedInv

\* One round of a loop: its message is gone for good, and the loop goes on or its run does.
LEMMA ServedRound ==
  ASSUME TypeOK, TypeOK', OnceInv, QueuedBelong, DrainSuffices, ServedInv, [Next]_vars,
         NEW l \in loops, StartQueued(l) \/ DropQueued(l)
  PROVE  ServedInv'
<1>0. PICK m : m = Head(queue[l.gen][l.conv])
  OBVIOUS
<1> DEFINE n == [gen |-> l.gen, msg |-> m, count |-> l.count + 1]
<1> DEFINE k == [l EXCEPT !.count = @ + 1]
<1>1. l.gen \in Gens /\ l.conv \in Conversations /\ l.count \in Nat
  BY DEF TypeOK, Loops
<1>2. /\ Dequeue(l) /\ UNCHANGED <<deferred, claimed>>
      /\ \/ /\ runs' = runs \cup {n} /\ loops' = loops \ {l}
            /\ active' = [active EXCEPT ![l.gen] = @ \cup {l.conv}]
         \/ UNCHANGED <<runs, active>> /\ loops' = (loops \ {l}) \cup {k}
  BY <1>0 DEF StartQueued, MayStartQueued, DropQueued, NextRound
<1>3. /\ n.gen = l.gen /\ n.msg = m /\ n.count = l.count + 1
      /\ k.gen = l.gen /\ k.conv = l.conv /\ k.count = l.count + 1
  BY DEF TypeOK, Loops
<1>4. ConvOf[m] = l.conv
  <2>1. queue[l.gen][l.conv] \in Seq(Messages) /\ queue[l.gen][l.conv] # <<>>
    BY <1>1, <1>2, QueueType DEF Dequeue
  <2>2. 1 \in DOMAIN queue[l.gen][l.conv] /\ m = queue[l.gen][l.conv][1]
    BY <1>0, <2>1
  <2> QED BY <1>1, <2>2 DEF QueuedBelong
<1>5. WaitersLeave({m}) /\ Waiting(m) /\ m \in Messages
  BY <1>0, <1>2, DequeueLeaves, WaitingType
<1> HIDE DEF n, k
<1>6. m \in Gone(l.conv)' /\ m \notin Gone(l.conv)
  BY <1>2, <1>4, <1>5, WaitingFresh DEF Gone, WaitersLeave, OnceInv, Fresh
<1>7. l.count + 2 <= Cardinality(Gone(l.conv)')
  <2>1. /\ Cardinality(Gone(l.conv)) + 1 <= Cardinality(Gone(l.conv)')
        /\ Cardinality(Gone(l.conv)) \in Nat /\ Cardinality(Gone(l.conv)') \in Nat
    BY <1>1, <1>6, GoneCounts
  <2>2. l.count + 1 <= Cardinality(Gone(l.conv))
    BY DEF ServedInv, CountsGone
  <2> QED BY <1>1, <2>1, <2>2
<1>8. l.count + 1 + 1 <= Cardinality(Gone(l.conv)')
  BY <1>1, <1>7
<1>9. n.count + 1 <= Cardinality(Gone(ConvOf[n.msg])') /\ k.count + 1 <= Cardinality(Gone(k.conv)')
  BY <1>3, <1>4, <1>8
<1>10. CountsGone'
  BY <1>2, <1>9, CountsGrow DEF CountsGone
<1>11. ActiveHasRun'
  <2>1. CASE UNCHANGED <<runs, active>>
    BY <2>1 DEF ServedInv, ActiveHasRun
  <2>2. CASE runs' = runs \cup {n} /\ active' = [active EXCEPT ![l.gen] = @ \cup {l.conv}]
    BY <1>1, <1>3, <1>4, <2>2, ActiveJoins DEF ServedInv
  <2> QED BY <1>2, <2>1, <2>2
<1>12. QueueServed'
  <2> SUFFICES ASSUME NEW g \in Gens, NEW c \in Conversations, queue'[g][c] # <<>>
               PROVE  Workers(g, c)' # {}
    BY DEF QueueServed
  <2>1. queue[g][c] # <<>>
    BY <1>2, DequeueShrinks, ShrunkNonempty
  <2>2. \/ \E x \in runs : x.gen = g /\ ConvOf[x.msg] = c
        \/ \E x \in loops : x.gen = g /\ x.conv = c
    BY <2>1, WorkersAt DEF ServedInv, QueueServed
  <2>3. CASE l.gen = g /\ l.conv = c
    BY <1>2, <1>3, <1>4, <2>3 DEF Workers
  <2>4. CASE ~(l.gen = g /\ l.conv = c)
    BY <1>2, <2>2, <2>4 DEF Workers
  <2> QED BY <2>3, <2>4
<1> QED BY <1>10, <1>11, <1>12 DEF ServedInv

LEMMA ServedEndLoop ==
  ASSUME TypeOK, TypeOK', OnceInv, QueuedBelong, DrainSuffices, ServedInv, [Next]_vars,
         NEW l \in loops, EndLoop(l)
  PROVE  ServedInv'
<1>1. /\ loops' = loops \ {l} /\ UNCHANGED <<queue, active, runs>>
      /\ queue[l.gen][l.conv] = <<>> \/ l.count >= MaxDrain
  BY DEF EndLoop
<1>2. queue[l.gen][l.conv] = <<>>
  <2>1. l.count \in Nat /\ MaxDrain \in Nat
    BY BoundsAssumption DEF TypeOK, Loops
  <2> QED BY <1>1, <2>1, LoopGoesOn DEF ServedInv
<1>3. QueueServed'
  BY <1>1, <1>2 DEF ServedInv, QueueServed, Workers
<1>4. CountsGone'
  BY <1>1, CountsKept
<1> QED BY <1>1, <1>3, <1>4 DEF ServedInv, ActiveHasRun

LEMMA ServedStep ==
  ASSUME TypeOK, OnceInv, QueuedBelong, DrainSuffices, "commit" \notin Faults, ServedInv,
         [Next]_vars
  PROVE  ServedInv'
<1> USE DEF workVars
<1>0. TypeOK'
  BY StepType
<1>1. CASE UNCHANGED vars
  BY <1>0, <1>1, QueuesKept, ServedKept DEF vars
<1>2. ASSUME NEW m \in Messages, Post(m) PROVE ServedInv'
  BY <1>0, <1>2, QueuesKept, ServedKept DEF Post
<1>3. CASE Intake
  BY <1>0, <1>3, QueuesKept, ServedKept
     DEF Intake, Deliver, TakeBatch, CheckProcessed, Claim, SkipOnDbError
<1>4. CASE Dispatch
  <2>1. ASSUME NEW r \in runs, AbortRun(r) PROVE FALSE
    BY <2>1 DEF AbortRun
  <2>2. ASSUME NEW l \in loops, StartQueuedFails(l) PROVE FALSE
    BY <2>2 DEF StartQueuedFails
  <2> QED BY <1>0, <1>4, <2>1, <2>2, ServedHandle, ServedFinish, ServedRound, ServedEndLoop
          DEF Dispatch
<1>5. CASE Timers
  BY <1>0, <1>5, QueuesKept, ExpireShrinks, ServedKept DEF Timers, CallTimeout, ExpireStale
<1>6. CASE Monitoring
  <2>1. CASE Crash
    <3>1. /\ runs' = {} /\ loops' = {}
          /\ \A g \in Gens : active'[g] = {} /\ \A c \in Conversations : queue'[g][c] = <<>>
      BY <2>1 DEF Crash, EmptyQueues
    <3> QED BY <3>1 DEF ServedInv, ActiveHasRun, QueueServed, CountsGone
  <2>2. CASE Monitoring /\ ~Crash
    <3>1. UNCHANGED <<active, runs, loops>>
      BY <2>2 DEF Monitoring, StartMonitoring, StopMonitoring, Reconnected, StopAll,
           FinishStop, FinishReconnect
    <3>2. CASE ~ \E g \in Gens, m \in Messages : EnqueueMessage(g, m)
      BY <1>0, <3>1, <3>2, StepShrinks, ServedKept
    <3>3. ASSUME NEW g \in Gens, NEW m \in Messages, EnqueueMessage(g, m) PROVE ServedInv'
      BY <1>0, <3>3, ServedHandle DEF HandleUserMessage
    <3> QED BY <3>2, <3>3
  <2> QED BY <1>6, <2>1, <2>2
<1> QED BY <1>1, <1>2, <1>3, <1>4, <1>5, <1>6 DEF Next

LEMMA ServedInit == Init => ServedInv
BY DEF Init, ServedInv, ActiveHasRun, QueueServed, CountsGone, EmptyQueues

(***************************************************************************)
(* A queue with messages has a run or a loop to take them out, as long as  *)
(* no conversation has more messages than one loop may take (its safety    *)
(* limit) and no commit fails at the start or the end of a run.            *)
(***************************************************************************)
THEOREM QueuesServed ==
  ASSUME "commit" \notin Faults, DrainSuffices
  PROVE  Spec => []QueueHasRunner
<1> DEFINE I == TypeOK /\ OnceInv /\ QueuedBelong /\ ServedInv
<1>1. Init => I
  BY InitType, OnceInit, SerialInit, ServedInit
<1>2. I /\ [Next]_vars => I'
  BY StepType, OnceStep, BelongStep, ServedStep
<1>3. I => QueueHasRunner
  BY DEF ServedInv, QueueServed, QueueHasRunner
<1> HIDE DEF I
<1> QED BY <1>1, <1>2, <1>3, PTL DEF Spec

-----------------------------------------------------------------------------
(***************************************************************************)
(* The order of the runs.  Every callback buffers all the visible rows, so *)
(* what stands before a message in the table is claimed or stands before   *)
(* it in the buffer or the batch (ClaimsInOrder): a message is claimed     *)
(* after the earlier ones (WaitsInOrder), and joins the callbacks behind   *)
(* those that still wait (Ordered).  This needs a database that answers:   *)
(* an event that is dropped unclaimed is overtaken.                        *)
(***************************************************************************)
PostedOnce == \A i, j \in DOMAIN posted : posted[i] = posted[j] => i = j

Unborn ==
  \A g \in Gens : g > gens => buffer[g] = <<>> /\ batch[g] = <<>> /\ WaitingIn(g) = {}

Known == \A g \in Gens : ToSet(buffer[g]) \cup ToSet(batch[g]) \cup WaitingIn(g) \subseteq VisibleIn(g)

InTurn(s, g) ==
  \A j \in DOMAIN s : \A m \in VisibleIn(g) :
    PostedBefore(m, s[j]) => m \in claimed \/ \E i \in DOMAIN s : i < j /\ s[i] = m

ClaimsInOrder == dbOpen => \A g \in Gens : InTurn(batch[g], g) /\ InTurn(buffer[g], g)

WaitsInOrder ==
  dbOpen => \A g \in Gens : \A x \in WaitingIn(g), m \in VisibleIn(g) :
              PostedBefore(m, x) => m \in claimed

DeferredOrdered ==
  \A i, j \in DOMAIN deferred :
    i < j /\ deferred[i][1] = deferred[j][1] => PostedBefore(deferred[i][2], deferred[j][2])

QueuesOrdered ==
  \A g \in Gens, c \in Conversations : \A i, j \in DOMAIN queue[g][c] :
    i < j => PostedBefore(queue[g][c][i], queue[g][c][j])

QueuedFirst ==
  \A g \in Gens, c \in Conversations : \A i \in DOMAIN queue[g][c], j \in DOMAIN deferred :
    deferred[j][1] = g => PostedBefore(queue[g][c][i], deferred[j][2])

Ordered == DeferredOrdered /\ QueuesOrdered /\ QueuedFirst

OrderInv == PostedOnce /\ Unborn /\ Known /\ ClaimsInOrder /\ WaitsInOrder /\ Ordered

-----------------------------------------------------------------------------
(* What the operators of these properties say, element by element. *)

LEMMA VisibleAt ==
  ASSUME TypeOK, NEW g \in Gens, NEW m
  PROVE  m \in VisibleIn(g) <=> \E i \in DOMAIN posted : i > since[g] /\ posted[i] = m
<1> DEFINE v == SubSeq(posted, since[g] + 1, Len(posted))
<1>1. posted \in Seq(Messages) /\ since[g] \in Nat /\ Len(posted) \in Nat
      /\ DOMAIN posted = 1..Len(posted)
  BY DEF TypeOK
<1>2. /\ DOMAIN v = 1..(IF since[g] + 1 <= Len(posted) THEN Len(posted) - since[g] ELSE 0)
      /\ \A i \in DOMAIN v : v[i] = posted[i + since[g]]
  BY <1>1
<1> HIDE DEF v
<1>3. ASSUME m \in ToSet(v) PROVE \E i \in DOMAIN posted : i > since[g] /\ posted[i] = m
  <2>1. PICK i \in DOMAIN v : v[i] = m
    BY <1>3 DEF ToSet
  <2>2. i + since[g] \in DOMAIN posted /\ i + since[g] > since[g]
    BY <1>1, <1>2
  <2> QED BY <1>2, <2>1, <2>2
<1>4. ASSUME NEW i \in DOMAIN posted, i > since[g], posted[i] = m PROVE m \in ToSet(v)
  <2>1. i - since[g] \in DOMAIN v /\ (i - since[g]) + since[g] = i
    BY <1>1, <1>2, <1>4
  <2>2. v[i - since[g]] = m
    BY <1>2, <1>4, <2>1
  <2> QED BY <2>1, <2>2 DEF ToSet
<1> QED BY <1>3, <1>4 DEF VisibleIn, v

LEMMA VisibleNext ==
  ASSUME TypeOK', NEW g \in Gens, NEW m
  PROVE  m \in VisibleIn(g)' <=> \E i \in DOMAIN posted' : i > since'[g] /\ posted'[i] = m
<1> DEFINE v == SubSeq(posted', since'[g] + 1, Len(posted'))
<1>1. posted' \in Seq(Messages) /\ since'[g] \in Nat /\ Len(posted') \in Nat
      /\ DOMAIN posted' = 1..Len(posted')
  BY DEF TypeOK
<1>2. /\ DOMAIN v = 1..(IF since'[g] + 1 <= Len(posted') THEN Len(posted') - since'[g] ELSE 0)
      /\ \A i \in DOMAIN v : v[i] = posted'[i + since'[g]]
  BY <1>1
<1> HIDE DEF v
<1>3. ASSUME m \in ToSet(v) PROVE \E i \in DOMAIN posted' : i > since'[g] /\ posted'[i] = m
  <2>1. PICK i \in DOMAIN v : v[i] = m
    BY <1>3 DEF ToSet
  <2>2. i + since'[g] \in DOMAIN posted' /\ i + since'[g] > since'[g]
    BY <1>1, <1>2
  <2> QED BY <1>2, <2>1, <2>2
<1>4. ASSUME NEW i \in DOMAIN posted', i > since'[g], posted'[i] = m PROVE m \in ToSet(v)
  <2>1. i - since'[g] \in DOMAIN v /\ (i - since'[g]) + since'[g] = i
    BY <1>1, <1>2, <1>4
  <2>2. v[i - since'[g]] = m
    BY <1>2, <1>4, <2>1
  <2> QED BY <2>1, <2>2 DEF ToSet
<1> QED BY <1>3, <1>4 DEF VisibleIn, v

LEMMA WaitingInAt ==
  ASSUME TypeOK, NEW g \in Gens, NEW m
  PROVE  m \in WaitingIn(g)
           <=> \/ \E c \in Conversations : \E i \in DOMAIN queue[g][c] : queue[g][c][i] = m
               \/ \E i \in DOMAIN deferred : deferred[i][1] = g /\ deferred[i][2] = m
BY DEF WaitingIn, QueuedIn, ToSet

LEMMA VisiblePosted ==
  ASSUME TypeOK, NEW g \in Gens
  PROVE  VisibleIn(g) \subseteq ToSet(posted)
BY VisibleAt DEF ToSet

LEMMA BeforeTotal ==
  ASSUME TypeOK, NEW a \in ToSet(posted), NEW b \in ToSet(posted), a # b
  PROVE  PostedBefore(a, b) \/ PostedBefore(b, a)
<1>1. PICK i \in DOMAIN posted : posted[i] = a
  BY DEF ToSet
<1>2. PICK j \in DOMAIN posted : posted[j] = b
  BY DEF ToSet
<1>3. i \in Nat /\ j \in Nat /\ i # j
  BY <1>1, <1>2 DEF TypeOK
<1>4. i < j \/ j < i
  BY <1>3
<1> QED BY <1>1, <1>2, <1>4 DEF PostedBefore

LEMMA BeforeAsymmetric ==
  ASSUME TypeOK, PostedOnce, NEW a, NEW b, PostedBefore(a, b)
  PROVE  ~PostedBefore(b, a)
<1> SUFFICES ASSUME PostedBefore(b, a) PROVE FALSE
  OBVIOUS
<1>1. PICK i, j \in DOMAIN posted : i < j /\ posted[i] = a /\ posted[j] = b
  BY DEF PostedBefore
<1>2. PICK k, l \in DOMAIN posted : k < l /\ posted[k] = b /\ posted[l] = a
  BY DEF PostedBefore
<1>3. i = l /\ j = k
  BY <1>1, <1>2 DEF PostedOnce
<1>4. i \in Nat /\ j \in Nat
  BY DEF TypeOK
<1> QED BY <1>1, <1>2, <1>3, <1>4

\* The operators look at these variables only.
LEMMA SameTable ==
  ASSUME UNCHANGED posted, NEW a, NEW b
  PROVE  PostedBefore(a, b)' <=> PostedBefore(a, b)
BY DEF PostedBefore

LEMMA SameView ==
  ASSUME UNCHANGED posted, NEW g, since'[g] = since[g]
  PROVE  VisibleIn(g)' = VisibleIn(g)
BY DEF VisibleIn

LEMMA InTurnKept ==
  ASSUME NEW s, NEW g, InTurn(s, g), UNCHANGED posted, since'[g] = since[g],
         claimed \subseteq claimed'
  PROVE  InTurn(s, g)'
BY SameView, SameTable DEF InTurn

\* InTurn after a step, of the batch and of the buffer after it.
LEMMA InTurnNext ==
  ASSUME NEW g
  PROVE  /\ \A s : s = batch'[g] /\ InTurn(s, g)' => InTurn(batch[g], g)'
         /\ \A s : s = buffer'[g] /\ InTurn(s, g)' => InTurn(buffer[g], g)'
BY DEF InTurn

LEMMA SeqIndex ==
  ASSUME NEW S, NEW s \in Seq(S), NEW i \in DOMAIN s
  PROVE  i \in Nat /\ i >= 1 /\ i <= Len(s)
OBVIOUS

LEMMA InTurnEmpty ==
  ASSUME NEW s, s = <<>>, NEW g
  PROVE  InTurn(s, g) /\ ToSet(s) = {}
BY DEF InTurn, ToSet

-----------------------------------------------------------------------------
\* Waiters only leave: a state keeps the order, whatever it drops of its buffers.
LEMMA WaitingInShrinks ==
  ASSUME TypeOK, TypeOK', SuffixOf(deferred', deferred), QueuesShrink, NEW g \in Gens
  PROVE  WaitingIn(g)' \subseteq WaitingIn(g)
<1> SUFFICES ASSUME NEW m \in WaitingIn(g)' PROVE m \in WaitingIn(g)
  OBVIOUS
<1>1. \/ \E c \in Conversations : \E i \in DOMAIN queue'[g][c] : queue'[g][c][i] = m
      \/ \E i \in DOMAIN deferred' : deferred'[i][1] = g /\ deferred'[i][2] = m
  BY DEF WaitingIn, QueuedIn, ToSet
<1>2. \/ \E c \in Conversations : \E i \in DOMAIN queue[g][c] : queue[g][c][i] = m
      \/ \E i \in DOMAIN deferred : deferred[i][1] = g /\ deferred[i][2] = m
  BY <1>1 DEF SuffixOf, QueuesShrink
<1> QED BY <1>2, WaitingInAt

LEMMA OrderedShrinks ==
  ASSUME TypeOK, TypeOK', Ordered, UNCHANGED posted, SuffixOf(deferred', deferred), QueuesShrink
  PROVE  Ordered'
<1>1. PICK n \in Nat :
        \A i \in DOMAIN deferred' : i + n \in DOMAIN deferred /\ deferred'[i] = deferred[i + n]
  BY DEF SuffixOf
<1>2. DOMAIN deferred' \subseteq Nat
  <2>1. deferred' \in Seq(Gens \X Messages)
    BY DEF TypeOK
  <2> QED BY <2>1, SeqIndex
<1>3. DeferredOrdered'
  <2> SUFFICES ASSUME NEW i \in DOMAIN deferred', NEW j \in DOMAIN deferred', i < j,
                      deferred'[i][1] = deferred'[j][1]
               PROVE  PostedBefore(deferred'[i][2], deferred'[j][2])
    BY SameTable DEF DeferredOrdered
  <2>1. i + n < j + n /\ i + n \in DOMAIN deferred /\ j + n \in DOMAIN deferred
    BY <1>1, <1>2
  <2> QED BY <1>1, <2>1 DEF Ordered, DeferredOrdered
<1>4. QueuesOrdered'
  <2> SUFFICES ASSUME NEW g \in Gens, NEW c \in Conversations, NEW i \in DOMAIN queue'[g][c],
                      NEW j \in DOMAIN queue'[g][c], i < j
               PROVE  PostedBefore(queue'[g][c][i], queue'[g][c][j])
    BY SameTable DEF QueuesOrdered
  <2>1. PICK k \in Nat : \A x \in DOMAIN queue'[g][c] :
          x + k \in DOMAIN queue[g][c] /\ queue'[g][c][x] = queue[g][c][x + k]
    BY DEF QueuesShrink, SuffixOf
  <2>2. i \in Nat /\ j \in Nat
    <3>1. queue'[g][c] \in Seq(Messages)
      BY QueueType DEF TypeOK
    <3> QED BY <3>1, SeqIndex
  <2>3. i + k < j + k
    BY <2>2
  <2> QED BY <2>1, <2>3 DEF Ordered, QueuesOrdered
<1>5. QueuedFirst'
  <2> SUFFICES ASSUME NEW g \in Gens, NEW c \in Conversations, NEW i \in DOMAIN queue'[g][c],
                      NEW j \in DOMAIN deferred', deferred'[j][1] = g
               PROVE  PostedBefore(queue'[g][c][i], deferred'[j][2])
    BY SameTable DEF QueuedFirst
  <2>1. PICK k \in Nat : \A x \in DOMAIN queue'[g][c] :
          x + k \in DOMAIN queue[g][c] /\ queue'[g][c][x] = queue[g][c][x + k]
    BY DEF QueuesShrink, SuffixOf
  <2> QED BY <1>1, <2>1 DEF Ordered, QueuedFirst
<1> QED BY <1>3, <1>4, <1>5 DEF Ordered

LEMMA OrderShrinks ==
  ASSUME TypeOK, TypeOK', OrderInv, UNCHANGED <<posted, since, claimed, gens>>,
         dbOpen' => dbOpen,
         \A g \in Gens : buffer'[g] = buffer[g] \/ buffer'[g] = <<>>,
         UNCHANGED batch,
         SuffixOf(deferred', deferred), QueuesShrink
  PROVE  OrderInv'
<1>1. PostedOnce' /\ Ordered'
  BY OrderedShrinks DEF OrderInv, PostedOnce
<1>2. \A g \in Gens : VisibleIn(g)' = VisibleIn(g)
  BY SameView
<1>3. \A g \in Gens : WaitingIn(g)' \subseteq WaitingIn(g)
  BY WaitingInShrinks
<1>4. Unborn'
  BY <1>3 DEF OrderInv, Unborn
<1>5. \A g \in Gens : ToSet(buffer'[g]) \subseteq ToSet(buffer[g])
  BY InTurnEmpty
<1>6. Known'
  BY <1>2, <1>3, <1>5 DEF OrderInv, Known
<1>7. ClaimsInOrder'
  <2> SUFFICES ASSUME dbOpen, NEW g \in Gens PROVE InTurn(batch[g], g)' /\ InTurn(buffer[g], g)'
    BY DEF ClaimsInOrder
  <2>1. InTurn(batch[g], g) /\ InTurn(buffer[g], g)
    BY DEF OrderInv, ClaimsInOrder
  <2>2. PICK s, t : s = batch'[g] /\ t = buffer'[g]
    OBVIOUS
  <2>3. InTurn(s, g) /\ InTurn(t, g)
    BY <2>1, <2>2, InTurnEmpty
  <2>4. InTurn(s, g)' /\ InTurn(t, g)'
    BY <2>3, InTurnKept
  <2> QED BY <2>2, <2>4, InTurnNext
<1>8. WaitsInOrder'
  BY <1>2, <1>3, SameTable DEF OrderInv, WaitsInOrder
<1> QED BY <1>1, <1>4, <1>6, <1>7, <1>8 DEF OrderInv

\* A new row stands behind all the others.
LEMMA PostBefore ==
  ASSUME TypeOK, NEW m \in Messages, m \notin ToSet(posted), posted' = Append(posted, m)
  PROVE  /\ \A a, b : PostedBefore(a, b) => PostedBefore(a, b)'
         /\ \A a, b : b \in ToSet(posted) /\ PostedBefore(a, b)'
                        => PostedBefore(a, b) /\ a \in ToSet(posted)
<1>1. posted \in Seq(Messages) /\ Len(posted) \in Nat
  BY DEF TypeOK
<1>2. /\ \A i \in DOMAIN posted : i \in DOMAIN posted' /\ posted'[i] = posted[i]
      /\ \A i \in DOMAIN posted' : i \in DOMAIN posted \/ (i = Len(posted) + 1 /\ posted'[i] = m)
      /\ \A i \in DOMAIN posted : i \in Nat /\ i <= Len(posted)
  BY <1>1
<1>3. \A a, b : PostedBefore(a, b) => PostedBefore(a, b)'
  BY <1>2 DEF PostedBefore
<1>4. ASSUME NEW a, NEW b \in ToSet(posted), PostedBefore(a, b)'
      PROVE  PostedBefore(a, b) /\ a \in ToSet(posted)
  <2>1. PICK i, j \in DOMAIN posted' : i < j /\ posted'[i] = a /\ posted'[j] = b
    BY <1>4 DEF PostedBefore
  <2>2. b # m
    BY <1>4
  <2>3. j \in DOMAIN posted /\ j \in Nat /\ j <= Len(posted)
    BY <1>2, <2>1, <2>2
  <2>4. i \in DOMAIN posted
    BY <1>1, <1>2, <2>1, <2>3
  <2> QED BY <1>2, <2>1, <2>3, <2>4 DEF PostedBefore, ToSet
<1> QED BY <1>3, <1>4

LEMMA OrderPost ==
  ASSUME TypeOK, TypeOK', OrderInv, NEW m \in Messages, Post(m)
  PROVE  OrderInv'
<1>1. /\ m \notin ToSet(posted) /\ posted' = Append(posted, m)
      /\ UNCHANGED <<claimed, since, buffer, batch, dbOpen, deferred, queue, gens>>
  BY DEF Post, workVars, monitorVars
<1>2. posted \in Seq(Messages) /\ Len(posted) \in Nat
  BY DEF TypeOK
<1>3. /\ \A i \in DOMAIN posted : i \in DOMAIN posted' /\ posted'[i] = posted[i]
      /\ \A i \in DOMAIN posted' : i \in DOMAIN posted \/ (i = Len(posted) + 1 /\ posted'[i] = m)
  BY <1>1, <1>2
<1>4. \A g \in Gens : VisibleIn(g) \subseteq VisibleIn(g)'
  BY <1>1, <1>3, VisibleAt, VisibleNext
<1>5. \A g \in Gens : \A x \in VisibleIn(g)' : x = m \/ x \in VisibleIn(g)
  <2> SUFFICES ASSUME NEW g \in Gens, NEW x \in VisibleIn(g)', x # m PROVE x \in VisibleIn(g)
    OBVIOUS
  <2>1. PICK i \in DOMAIN posted' : i > since'[g] /\ posted'[i] = x
    BY VisibleNext
  <2> QED BY <1>1, <1>3, <2>1, VisibleAt
<1>6. \A g \in Gens : WaitingIn(g)' = WaitingIn(g)
  BY <1>1 DEF WaitingIn, QueuedIn
<1>7. PostedOnce'
  <2> SUFFICES ASSUME NEW i \in DOMAIN posted', NEW j \in DOMAIN posted', posted'[i] = posted'[j]
               PROVE  i = j
    BY DEF PostedOnce
  <2>1. \A k \in DOMAIN posted : posted[k] # m
    BY <1>1 DEF ToSet
  <2> QED BY <1>3, <2>1 DEF OrderInv, PostedOnce
<1>8. Unborn' /\ Known'
  BY <1>1, <1>4, <1>6 DEF OrderInv, Unborn, Known
\* What stands before a known message is a row that was visible before.
<1>9. \A g \in Gens : \A x \in VisibleIn(g), y \in VisibleIn(g)' :
        PostedBefore(y, x)' => y \in VisibleIn(g) /\ PostedBefore(y, x)
  BY <1>1, <1>5, VisiblePosted, PostBefore
<1>10. ASSUME NEW g \in Gens, NEW s, ToSet(s) \subseteq VisibleIn(g), InTurn(s, g)
       PROVE  InTurn(s, g)'
  BY <1>1, <1>9, <1>10 DEF InTurn, ToSet
<1>11. ClaimsInOrder'
  <2> SUFFICES ASSUME dbOpen, NEW g \in Gens PROVE InTurn(batch[g], g)' /\ InTurn(buffer[g], g)'
    BY <1>1 DEF ClaimsInOrder
  <2>1. PICK s, t : s = batch[g] /\ t = buffer[g]
    OBVIOUS
  <2>2. InTurn(s, g) /\ InTurn(t, g) /\ ToSet(s) \subseteq VisibleIn(g) /\ ToSet(t) \subseteq VisibleIn(g)
    BY <2>1 DEF OrderInv, ClaimsInOrder, Known
  <2>3. InTurn(s, g)' /\ InTurn(t, g)'
    BY <1>10, <2>2
  <2> QED BY <1>1, <2>1, <2>3, InTurnNext
<1>12. WaitsInOrder'
  <2> SUFFICES ASSUME dbOpen, NEW g \in Gens, NEW x \in WaitingIn(g), NEW y \in VisibleIn(g)',
                      PostedBefore(y, x)'
               PROVE  y \in claimed
    BY <1>1, <1>6 DEF WaitsInOrder
  <2>1. x \in VisibleIn(g)
    BY DEF OrderInv, Known
  <2>2. y \in VisibleIn(g) /\ PostedBefore(y, x)
    BY <1>9, <2>1
  <2> QED BY <2>2 DEF OrderInv, WaitsInOrder
<1>13. Ordered'
  BY <1>1, PostBefore DEF OrderInv, Ordered, DeferredOrdered, QueuesOrdered, QueuedFirst
<1> QED BY <1>7, <1>8, <1>11, <1>12, <1>13 DEF OrderInv

LEMMA ConcatSet ==
  ASSUME NEW S, NEW s \in Seq(S), NEW t \in Seq(S)
  PROVE  ToSet(s \o t) = ToSet(s) \cup ToSet(t)
<1>1. /\ DOMAIN s = 1..Len(s) /\ DOMAIN t = 1..Len(t) /\ Len(s) \in Nat /\ Len(t) \in Nat
      /\ DOMAIN (s \o t) = 1..(Len(s) + Len(t))
  OBVIOUS
<1>2. \A i \in 1..(Len(s) + Len(t)) :
        (s \o t)[i] = IF i <= Len(s) THEN s[i] ELSE t[i - Len(s)]
  OBVIOUS
<1>3. ASSUME NEW x \in ToSet(s \o t) PROVE x \in ToSet(s) \cup ToSet(t)
  <2>1. PICK i \in 1..(Len(s) + Len(t)) : x = (s \o t)[i]
    BY <1>1 DEF ToSet
  <2>2. CASE i <= Len(s)
    BY <1>1, <1>2, <2>1, <2>2 DEF ToSet
  <2>3. CASE i > Len(s)
    <3>1. i - Len(s) \in DOMAIN t /\ x = t[i - Len(s)]
      BY <1>1, <1>2, <2>1, <2>3
    <3> QED BY <3>1 DEF ToSet
  <2> QED BY <1>1, <2>2, <2>3
<1>4. ASSUME NEW x \in ToSet(s) PROVE x \in ToSet(s \o t)
  <2>1. PICK i \in 1..Len(s) : x = s[i]
    BY <1>1 DEF ToSet
  <2>2. i \in DOMAIN (s \o t) /\ x = (s \o t)[i]
    BY <1>1, <1>2, <2>1
  <2> QED BY <2>2 DEF ToSet
<1>5. ASSUME NEW x \in ToSet(t) PROVE x \in ToSet(s \o t)
  <2>1. PICK i \in 1..Len(t) : x = t[i]
    BY <1>1 DEF ToSet
  <2>2. /\ i + Len(s) \in 1..(Len(s) + Len(t)) /\ (i + Len(s)) - Len(s) = i
        /\ ~(i + Len(s) <= Len(s))
    BY <1>1, <2>1
  <2>3. i + Len(s) \in DOMAIN (s \o t) /\ x = (s \o t)[i + Len(s)]
    BY <1>1, <1>2, <2>1, <2>2
  <2> QED BY <2>3 DEF ToSet
<1> QED BY <1>3, <1>4, <1>5

LEMMA DeliveredSet ==
  ASSUME TypeOK, NEW g \in Gens, NEW s \in Seq(Messages)
  PROVE  ToSet(s \o SubSeq(posted, since[g] + 1, Len(posted))) = ToSet(s) \cup VisibleIn(g)
<1>1. SubSeq(posted, since[g] + 1, Len(posted)) \in Seq(Messages)
  BY DEF TypeOK
<1> QED BY <1>1, ConcatSet DEF VisibleIn

\* The visible rows, in the order of the table, behind what is buffered already.
LEMMA InTurnDelivered ==
  ASSUME TypeOK, PostedOnce, NEW g \in Gens, NEW s \in Seq(Messages), InTurn(s, g)
  PROVE  InTurn(s \o SubSeq(posted, since[g] + 1, Len(posted)), g)
<1> DEFINE v == SubSeq(posted, since[g] + 1, Len(posted))
<1> DEFINE w == s \o v
<1>1. posted \in Seq(Messages) /\ since[g] \in Nat /\ Len(posted) \in Nat
      /\ DOMAIN posted = 1..Len(posted)
  BY DEF TypeOK
<1>2. /\ v \in Seq(Messages) /\ Len(v) \in Nat /\ DOMAIN v = 1..Len(v)
      /\ Len(v) = IF since[g] + 1 <= Len(posted) THEN Len(posted) - since[g] ELSE 0
      /\ \A i \in 1..Len(v) : v[i] = posted[i + since[g]]
  <2>1. v \in Seq(Messages)
    BY <1>1
  <2>2. Len(v) = IF since[g] + 1 <= Len(posted) THEN Len(posted) - since[g] ELSE 0
    BY <1>1
  <2>3. \A i \in DOMAIN v : v[i] = posted[i + since[g]]
    BY <1>1
  <2> HIDE DEF v
  <2>4. Len(v) \in Nat /\ DOMAIN v = 1..Len(v)
    BY <2>1
  <2> QED BY <2>1, <2>2, <2>3, <2>4
<1>3. Len(s) \in Nat /\ DOMAIN s = 1..Len(s)
  OBVIOUS
<1> HIDE DEF v
<1>4. /\ DOMAIN w = 1..(Len(s) + Len(v))
      /\ \A i \in 1..Len(s) : w[i] = s[i]
      /\ \A i \in 1..Len(v) : w[Len(s) + i] = v[i]
  BY <1>2, <1>3
<1> HIDE DEF w
<1>5. \A i \in DOMAIN w : \/ i \in 1..Len(s)
                          \/ i - Len(s) \in 1..Len(v) /\ i = Len(s) + (i - Len(s))
  BY <1>2, <1>3, <1>4
<1>6. (\A i \in 1..Len(s) : i \in DOMAIN w) /\ \A i \in 1..Len(v) : Len(s) + i \in DOMAIN w
  BY <1>2, <1>3, <1>4
<1>7. InTurn(w, g)
  <2> SUFFICES ASSUME NEW j \in DOMAIN w, NEW m \in VisibleIn(g), PostedBefore(m, w[j]), m \notin claimed
               PROVE  \E i \in DOMAIN w : i < j /\ w[i] = m
    BY DEF InTurn
  <2>1. CASE j \in 1..Len(s)
    <3>1. \E i \in DOMAIN s : i < j /\ s[i] = m
      BY <1>3, <1>4, <2>1 DEF InTurn
    <3> QED BY <1>3, <1>4, <1>6, <3>1
  <2>2. CASE j \notin 1..Len(s)
    <3> DEFINE e == j - Len(s)
    <3>1. e \in 1..Len(v) /\ j = Len(s) + e /\ w[j] = posted[e + since[g]]
      BY <1>2, <1>4, <1>5, <2>2
    <3>2. PICK k, l \in DOMAIN posted : k < l /\ posted[k] = m /\ posted[l] = w[j]
      BY DEF PostedBefore
    <3>3. e + since[g] \in DOMAIN posted
      BY <1>1, <1>2, <3>1
    <3>4. l = e + since[g]
      BY <3>1, <3>2, <3>3 DEF PostedOnce
    <3>5. PICK i \in DOMAIN posted : i > since[g] /\ posted[i] = m
      BY VisibleAt
    <3>6. i = k
      BY <3>2, <3>5 DEF PostedOnce
    <3> DEFINE d == k - since[g]
    <3>7. d \in 1..Len(v) /\ d < e /\ d + since[g] = k
      BY <1>1, <1>2, <3>1, <3>2, <3>4, <3>5, <3>6
    <3>8. w[Len(s) + d] = m /\ Len(s) + d < j /\ Len(s) + d \in DOMAIN w
      <4>1. w[Len(s) + d] = m
        BY <1>2, <1>4, <3>2, <3>7
      <4>2. Len(s) + d < j
        BY <1>2, <1>3, <3>1, <3>7
      <4> QED BY <1>6, <3>7, <4>1, <4>2
    <3> QED BY <3>8
  <2> QED BY <2>1, <2>2
<1> QED BY <1>7 DEF w, v

LEMMA OrderDeliver ==
  ASSUME TypeOK, TypeOK', OrderInv, NEW g \in Gens, Deliver(g)
  PROVE  OrderInv'
<1> DEFINE w == buffer[g] \o SubSeq(posted, since[g] + 1, Len(posted))
<1>1. /\ buffer' = [buffer EXCEPT ![g] = w] /\ g <= gens
      /\ UNCHANGED <<posted, since, claimed, batch, dbOpen, deferred, queue, gens>>
  BY DEF Deliver, Subscribed, workVars, monitorVars
<1>2. buffer[g] \in Seq(Messages) /\ buffer'[g] = w /\ \A h \in Gens : h # g => buffer'[h] = buffer[h]
  BY <1>1 DEF TypeOK
<1>3. ToSet(w) = ToSet(buffer[g]) \cup VisibleIn(g)
  BY <1>2, DeliveredSet
<1> HIDE DEF w
<1>4. \A h \in Gens : VisibleIn(h)' = VisibleIn(h) /\ WaitingIn(h)' = WaitingIn(h)
  BY <1>1 DEF VisibleIn, WaitingIn, QueuedIn
<1>5. Unborn'
  <2> SUFFICES ASSUME NEW h \in Gens, h > gens
               PROVE  buffer'[h] = <<>> /\ batch'[h] = <<>> /\ WaitingIn(h)' = {}
    BY <1>1 DEF Unborn
  <2>1. h # g
    BY <1>1 DEF TypeOK, Gens
  <2> QED BY <1>1, <1>2, <1>4, <2>1 DEF OrderInv, Unborn
<1>6. Known'
  BY <1>1, <1>2, <1>3, <1>4 DEF OrderInv, Known
<1>7. ClaimsInOrder'
  <2> SUFFICES ASSUME dbOpen, NEW h \in Gens PROVE InTurn(batch[h], h)' /\ InTurn(buffer[h], h)'
    BY <1>1 DEF ClaimsInOrder
  <2>1. PICK s, t : s = batch'[h] /\ t = buffer'[h]
    OBVIOUS
  <2>2. InTurn(batch[h], h) /\ InTurn(buffer[h], h)
    BY DEF OrderInv, ClaimsInOrder
  <2>3. InTurn(s, h) /\ InTurn(t, h)
    <3>1. CASE h = g
      BY <1>1, <1>2, <2>1, <2>2, <3>1, InTurnDelivered DEF OrderInv, w
    <3>2. CASE h # g
      BY <1>1, <1>2, <2>1, <2>2, <3>2
    <3> QED BY <3>1, <3>2
  <2>4. InTurn(s, h)' /\ InTurn(t, h)'
    BY <1>1, <2>3, InTurnKept
  <2> QED BY <2>1, <2>4, InTurnNext
<1>8. PostedOnce' /\ WaitsInOrder' /\ Ordered'
  BY <1>1, <1>4, SameTable DEF OrderInv, PostedOnce, WaitsInOrder, Ordered, DeferredOrdered,
     QueuesOrdered, QueuedFirst
<1> QED BY <1>5, <1>6, <1>7, <1>8 DEF OrderInv

LEMMA OrderTake ==
  ASSUME TypeOK, TypeOK', OrderInv, NEW g \in Gens, TakeBatch(g)
  PROVE  OrderInv'
<1>1. /\ batch[g] = <<>>
      /\ batch' = [batch EXCEPT ![g] = buffer[g]] /\ buffer' = [buffer EXCEPT ![g] = <<>>]
      /\ UNCHANGED <<posted, since, claimed, dbOpen, deferred, queue, gens>>
  BY DEF TakeBatch, workVars, monitorVars
<1>2. /\ batch'[g] = buffer[g] /\ buffer'[g] = <<>>
      /\ \A h \in Gens : h # g => batch'[h] = batch[h] /\ buffer'[h] = buffer[h]
  BY <1>1 DEF TypeOK
<1>3. \A h \in Gens : VisibleIn(h)' = VisibleIn(h) /\ WaitingIn(h)' = WaitingIn(h)
  BY <1>1 DEF VisibleIn, WaitingIn, QueuedIn
<1>4. Unborn'
  BY <1>1, <1>2, <1>3 DEF OrderInv, Unborn
<1>5. ToSet(buffer'[g]) = {}
  BY <1>2, InTurnEmpty
<1>6. Known'
  BY <1>2, <1>3, <1>5 DEF OrderInv, Known
<1>7. ClaimsInOrder'
  <2> SUFFICES ASSUME dbOpen, NEW h \in Gens PROVE InTurn(batch[h], h)' /\ InTurn(buffer[h], h)'
    BY <1>1 DEF ClaimsInOrder
  <2>1. PICK s, t : s = batch'[h] /\ t = buffer'[h]
    OBVIOUS
  <2>2. InTurn(batch[h], h) /\ InTurn(buffer[h], h)
    BY DEF OrderInv, ClaimsInOrder
  <2>3. InTurn(s, h) /\ InTurn(t, h)
    BY <1>2, <2>1, <2>2, InTurnEmpty
  <2>4. InTurn(s, h)' /\ InTurn(t, h)'
    BY <1>1, <2>3, InTurnKept
  <2> QED BY <2>1, <2>4, InTurnNext
<1>8. PostedOnce' /\ WaitsInOrder' /\ Ordered'
  BY <1>1, <1>3, SameTable DEF OrderInv, PostedOnce, WaitsInOrder, Ordered, DeferredOrdered,
     QueuesOrdered, QueuedFirst
<1> QED BY <1>4, <1>6, <1>7, <1>8 DEF OrderInv

\* The head of a batch leaves it once it is claimed.
LEMMA InTurnTail ==
  ASSUME NEW s \in Seq(Messages), s # <<>>, NEW g, InTurn(s, g), UNCHANGED posted,
         since'[g] = since[g], claimed \subseteq claimed', Head(s) \in claimed'
  PROVE  InTurn(Tail(s), g)' /\ ToSet(Tail(s)) \subseteq ToSet(s)
<1>1. /\ s[1] \in claimed'
      /\ \A i \in DOMAIN Tail(s) : i \in Nat /\ i + 1 \in DOMAIN s /\ Tail(s)[i] = s[i + 1]
      /\ \A i \in DOMAIN s : i = 1 \/ (i - 1 \in DOMAIN Tail(s) /\ i \in Nat /\ s[i] = Tail(s)[i - 1])
  OBVIOUS
<1>2. PICK t : t = Tail(s)
  OBVIOUS
<1>3. InTurn(t, g)'
  <2> SUFFICES ASSUME NEW j \in DOMAIN t, NEW m \in VisibleIn(g), PostedBefore(m, t[j]),
                      m \notin claimed'
               PROVE  \E i \in DOMAIN t : i < j /\ t[i] = m
    BY SameView, SameTable DEF InTurn
  <2>1. PICK i \in DOMAIN s : i < j + 1 /\ s[i] = m
    BY <1>1, <1>2 DEF InTurn
  <2>2. i - 1 \in DOMAIN t /\ t[i - 1] = m /\ i - 1 < j
    BY <1>1, <1>2, <2>1
  <2> QED BY <2>2
<1>4. ToSet(t) \subseteq ToSet(s)
  BY <1>1, <1>2 DEF ToSet
<1> QED BY <1>2, <1>3, <1>4

\* The next event: what stays behind the head is still in turn.
LEMMA IntakeNext ==
  ASSUME TypeOK, OrderInv, NEW g \in Gens, batch[g] # <<>>,
         batch' = [batch EXCEPT ![g] = Tail(@)],
         UNCHANGED <<posted, since, buffer, dbOpen, gens>>, claimed \subseteq claimed',
         dbOpen => Head(batch[g]) \in claimed'
  PROVE  /\ PostedOnce' /\ ClaimsInOrder'
         /\ \A h \in Gens : ToSet(batch'[h]) \subseteq ToSet(batch[h])
         /\ \A h \in Gens : batch[h] = <<>> => batch'[h] = <<>>
         /\ \A h \in Gens : VisibleIn(h)' = VisibleIn(h)
<1>1. batch[g] \in Seq(Messages)
  BY DEF TypeOK
<1>2. batch'[g] = Tail(batch[g]) /\ \A h \in Gens : h # g => batch'[h] = batch[h]
  BY DEF TypeOK
<1>3. ToSet(Tail(batch[g])) \subseteq ToSet(batch[g])
  <2>1. \A i \in DOMAIN Tail(batch[g]) :
          i + 1 \in DOMAIN batch[g] /\ Tail(batch[g])[i] = batch[g][i + 1]
    BY <1>1, TailIndex
  <2> QED BY <2>1 DEF ToSet
<1>4. ClaimsInOrder'
  <2> SUFFICES ASSUME dbOpen, NEW h \in Gens PROVE InTurn(batch[h], h)' /\ InTurn(buffer[h], h)'
    BY DEF ClaimsInOrder
  <2>1. PICK s, t : s = batch'[h] /\ t = buffer'[h]
    OBVIOUS
  <2>2. InTurn(batch[h], h) /\ InTurn(buffer[h], h)
    BY DEF OrderInv, ClaimsInOrder
  <2>3. InTurn(t, h)'
    BY <2>1, <2>2, InTurnKept
  <2>4. InTurn(s, h)'
    <3>1. CASE h = g
      BY <1>1, <1>2, <2>1, <2>2, <3>1, InTurnTail
    <3>2. CASE h # g
      BY <1>2, <2>1, <2>2, <3>2, InTurnKept
    <3> QED BY <3>1, <3>2
  <2> QED BY <2>1, <2>3, <2>4, InTurnNext
<1>5. PostedOnce'
  BY DEF OrderInv, PostedOnce
<1> QED BY <1>2, <1>3, <1>4, <1>5, SameView

\* An event that has been handled before, or that meets a closed database.
LEMMA OrderPass ==
  ASSUME TypeOK, TypeOK', OrderInv, NEW g \in Gens, batch[g] # <<>>,
         batch' = [batch EXCEPT ![g] = Tail(@)],
         UNCHANGED <<posted, since, buffer, dbOpen, gens, deferred, queue>>,
         claimed \subseteq claimed', dbOpen => Head(batch[g]) \in claimed'
  PROVE  OrderInv'
<1>1. /\ PostedOnce' /\ ClaimsInOrder'
      /\ \A h \in Gens : ToSet(batch'[h]) \subseteq ToSet(batch[h])
      /\ \A h \in Gens : batch[h] = <<>> => batch'[h] = <<>>
      /\ \A h \in Gens : VisibleIn(h)' = VisibleIn(h)
  BY IntakeNext
<1>2. \A h \in Gens : WaitingIn(h)' = WaitingIn(h)
  BY DEF WaitingIn, QueuedIn
<1>3. Unborn' /\ Known'
  BY <1>1, <1>2 DEF OrderInv, Unborn, Known
<1>4. WaitsInOrder'
  BY <1>1, <1>2, SameTable DEF OrderInv, WaitsInOrder
<1>5. Ordered'
  BY SameTable DEF OrderInv, Ordered, DeferredOrdered, QueuesOrdered, QueuedFirst
<1> QED BY <1>1, <1>3, <1>4, <1>5 DEF OrderInv

\* A waiting message is claimed, and behind it in the table nothing else waits unclaimed.
LEMMA WaitingInWaits ==
  ASSUME TypeOK, NEW g \in Gens, NEW x \in WaitingIn(g)
  PROVE  Waiting(x)
BY WaitingInAt DEF Waiting

\* The winner of a claim stands behind all who wait in its state.
LEMMA WinnerLast ==
  ASSUME TypeOK, OnceInv, OrderInv, NEW g \in Gens, dbOpen, NEW m \in VisibleIn(g),
         m \notin claimed, NEW x \in WaitingIn(g)
  PROVE  PostedBefore(x, m)
<1>1. x \in claimed
  BY WaitingInWaits, WaitingFresh DEF OnceInv, Fresh
<1>2. x \in ToSet(posted) /\ m \in ToSet(posted)
  BY VisiblePosted DEF OrderInv, Known
<1>3. ~PostedBefore(m, x)
  BY DEF OrderInv, WaitsInOrder
<1> QED BY <1>1, <1>2, <1>3, BeforeTotal

LEMMA OrderClaim ==
  ASSUME TypeOK, TypeOK', OnceInv, OrderInv, NEW g \in Gens, Claim(g)
  PROVE  OrderInv'
<1>1. PICK m \in Messages : m = Head(batch[g])
  BY DEF TypeOK, Claim
<1>2. /\ batch[g] # <<>> /\ dbOpen /\ claimed' = claimed \cup {m}
      /\ batch' = [batch EXCEPT ![g] = Tail(@)]
      /\ UNCHANGED <<posted, since, buffer, dbOpen, gens, queue>>
      /\ \/ UNCHANGED deferred
         \/ m \notin claimed /\ deferred' = Append(deferred, <<g, m>>)
  BY <1>1 DEF Claim, NextEvent, WinsClaim, workVars, monitorVars
<1>3. CASE UNCHANGED deferred
  BY <1>1, <1>2, <1>3, OrderPass
<1>4. CASE m \notin claimed /\ deferred' = Append(deferred, <<g, m>>)
  <2>1. /\ PostedOnce' /\ ClaimsInOrder'
        /\ \A h \in Gens : ToSet(batch'[h]) \subseteq ToSet(batch[h])
        /\ \A h \in Gens : batch[h] = <<>> => batch'[h] = <<>>
        /\ \A h \in Gens : VisibleIn(h)' = VisibleIn(h)
    BY <1>1, <1>2, IntakeNext
  <2>2. batch[g] \in Seq(Messages) /\ 1 \in DOMAIN batch[g] /\ batch[g][1] = m
    BY <1>1, <1>2 DEF TypeOK
  <2>3. m \in VisibleIn(g)
    BY <2>2 DEF OrderInv, Known, ToSet
  <2>4. \A x \in WaitingIn(g) : PostedBefore(x, m)
    BY <1>2, <1>4, <2>3, WinnerLast
  \* What stands before the head of the batch is claimed.
  <2>5. \A y \in VisibleIn(g) : PostedBefore(y, m) => y \in claimed
    <3> SUFFICES ASSUME NEW y \in VisibleIn(g), PostedBefore(y, m), y \notin claimed PROVE FALSE
      OBVIOUS
    <3>1. \E i \in DOMAIN batch[g] : i < 1 /\ batch[g][i] = y
      BY <1>2, <2>2 DEF OrderInv, ClaimsInOrder, InTurn
    <3> QED BY <2>2, <3>1, SeqIndex
  <2>6. deferred \in Seq(Gens \X Messages)
    BY DEF TypeOK
  <2>7. /\ \A i \in DOMAIN deferred' : \/ i \in DOMAIN deferred /\ deferred'[i] = deferred[i]
                                       \/ i = Len(deferred) + 1 /\ deferred'[i] = <<g, m>>
        /\ \A i \in DOMAIN deferred : i \in Nat /\ i <= Len(deferred)
        /\ Len(deferred) \in Nat
    BY <1>4, <2>6
  <2>8. \A h \in Gens : \A x \in WaitingIn(h)' : x \in WaitingIn(h) \/ (h = g /\ x = m)
    <3> SUFFICES ASSUME NEW h \in Gens, NEW x \in WaitingIn(h)', x \notin WaitingIn(h)
                 PROVE  h = g /\ x = m
      OBVIOUS
    <3>1. \/ \E c \in Conversations : \E i \in DOMAIN queue'[h][c] : queue'[h][c][i] = x
          \/ \E i \in DOMAIN deferred' : deferred'[i][1] = h /\ deferred'[i][2] = x
      BY DEF WaitingIn, QueuedIn, ToSet
    <3>2. \E i \in DOMAIN deferred' : deferred'[i][1] = h /\ deferred'[i][2] = x
      BY <1>2, <3>1, WaitingInAt
    <3>3. ~ \E i \in DOMAIN deferred : deferred[i][1] = h /\ deferred[i][2] = x
      BY WaitingInAt
    <3> QED BY <2>7, <3>2, <3>3
  <2>9. g <= gens
    BY <1>2 DEF OrderInv, Unborn, TypeOK, Gens
  <2>10. Unborn'
    <3> SUFFICES ASSUME NEW h \in Gens, h > gens
                 PROVE  buffer'[h] = <<>> /\ batch'[h] = <<>> /\ WaitingIn(h)' = {}
      BY <1>2 DEF Unborn
    <3>1. h # g
      BY <2>9 DEF TypeOK, Gens
    <3> QED BY <1>2, <2>1, <2>8, <3>1 DEF OrderInv, Unborn
  <2>11. Known'
    BY <1>2, <2>1, <2>3, <2>8 DEF OrderInv, Known
  <2>12. WaitsInOrder'
    BY <1>2, <2>1, <2>5, <2>8, SameTable DEF OrderInv, WaitsInOrder
  <2>13. \A i \in DOMAIN deferred : deferred[i][1] = g => PostedBefore(deferred[i][2], m)
    BY <2>4, WaitingInAt
  <2>14. \A c \in Conversations : \A i \in DOMAIN queue[g][c] : PostedBefore(queue[g][c][i], m)
    BY <2>4, WaitingInAt
  <2>15. DeferredOrdered'
    <3> SUFFICES ASSUME NEW i \in DOMAIN deferred', NEW j \in DOMAIN deferred', i < j,
                        deferred'[i][1] = deferred'[j][1]
                 PROVE  PostedBefore(deferred'[i][2], deferred'[j][2])
      BY <1>2, SameTable DEF DeferredOrdered
    <3>1. i \in DOMAIN deferred /\ deferred'[i] = deferred[i]
      BY <2>7
    <3>2. CASE j \in DOMAIN deferred /\ deferred'[j] = deferred[j]
      BY <3>1, <3>2 DEF OrderInv, Ordered, DeferredOrdered
    <3>3. CASE deferred'[j] = <<g, m>>
      BY <2>13, <3>1, <3>3
    <3> QED BY <2>7, <3>2, <3>3
  <2>16. QueuesOrdered'
    BY <1>2, SameTable DEF OrderInv, Ordered, QueuesOrdered
  <2>17. QueuedFirst'
    BY <1>2, <2>7, <2>14, SameTable DEF OrderInv, Ordered, QueuedFirst
  <2> QED BY <2>1, <2>10, <2>11, <2>12, <2>15, <2>16, <2>17 DEF OrderInv, Ordered
<1> QED BY <1>2, <1>3, <1>4

\* The message goes from the head of setImmediate to the end of its queue.
LEMMA OrderEnqueue ==
  ASSUME TypeOK, TypeOK', OrderInv, NEW g \in Gens, NEW m \in Messages, EnqueueMessage(g, m)
  PROVE  OrderInv'
<1> DEFINE c == ConvOf[m]
<1>1. c \in Conversations
  BY ConvOfAssumption
<1>2. PICK q \in Seq(Messages) :
        SuffixOf(q, queue[g][c]) /\ queue' = [queue EXCEPT ![g][c] = Append(q, m)]
  BY EnqueueAppends
<1>3. Handling(g, m) /\ UNCHANGED <<posted, since, claimed, buffer, batch, dbOpen, gens>>
  BY DEF EnqueueMessage, intakeVars, monitorVars
<1>4. /\ deferred \in Seq(Gens \X Messages) /\ deferred # <<>>
      /\ deferred[1] = <<g, m>> /\ deferred' = Tail(deferred)
  BY <1>3, HandlingDeferred
<1>5. /\ 1 \in DOMAIN deferred
      /\ \A i \in DOMAIN deferred' : /\ i + 1 \in DOMAIN deferred /\ i \in Nat /\ 1 < i + 1
                                     /\ deferred'[i] = deferred[i + 1]
  BY <1>4
<1>6. queue'[g][c] = Append(q, m) /\ \A h \in Gens, d \in Conversations :
        ~(h = g /\ d = c) => queue'[h][d] = queue[h][d]
  BY <1>1, <1>2, QueueType
<1>7. PICK k \in Nat : \A i \in DOMAIN q : i + k \in DOMAIN queue[g][c] /\ q[i] = queue[g][c][i + k]
  BY <1>2 DEF SuffixOf
<1>8. /\ \A i \in DOMAIN queue'[g][c] :
           \/ i \in DOMAIN q /\ queue'[g][c][i] = q[i] /\ i <= Len(q)
           \/ i = Len(q) + 1 /\ queue'[g][c][i] = m
      /\ \A i \in DOMAIN queue'[g][c] : i \in Nat
      /\ Len(q) \in Nat
  <2>1. \A i \in DOMAIN Append(q, m) : /\ i \in Nat
                                       /\ \/ i \in DOMAIN q /\ Append(q, m)[i] = q[i] /\ i <= Len(q)
                                          \/ i = Len(q) + 1 /\ Append(q, m)[i] = m
    OBVIOUS
  <2> QED BY <1>6, <2>1
<1> HIDE DEF c
<1>9. \A h \in Gens : VisibleIn(h)' = VisibleIn(h)
  BY <1>3, SameView
<1>10. \A h \in Gens : WaitingIn(h)' \subseteq WaitingIn(h)
  <2> SUFFICES ASSUME NEW h \in Gens, NEW x \in WaitingIn(h)' PROVE x \in WaitingIn(h)
    OBVIOUS
  <2>1. \/ \E d \in Conversations : \E i \in DOMAIN queue'[h][d] : queue'[h][d][i] = x
        \/ \E i \in DOMAIN deferred' : deferred'[i][1] = h /\ deferred'[i][2] = x
    BY DEF WaitingIn, QueuedIn, ToSet
  <2>2. CASE \E i \in DOMAIN deferred' : deferred'[i][1] = h /\ deferred'[i][2] = x
    BY <1>5, <2>2, WaitingInAt
  <2>3. ASSUME NEW d \in Conversations, NEW i \in DOMAIN queue'[h][d], queue'[h][d][i] = x
        PROVE  x \in WaitingIn(h)
    <3>1. CASE h = g /\ d = c
      <4>1. CASE x = m
        BY <1>4, <1>5, <3>1, <4>1, WaitingInAt
      <4>2. CASE x # m
        <5>1. i \in DOMAIN q /\ x = q[i]
          BY <1>8, <2>3, <3>1, <4>2
        <5> QED BY <1>1, <1>7, <3>1, <5>1, WaitingInAt
      <4> QED BY <4>1, <4>2
    <3>2. CASE ~(h = g /\ d = c)
      BY <1>6, <2>3, <3>2, WaitingInAt
    <3> QED BY <3>1, <3>2
  <2> QED BY <2>1, <2>2, <2>3
<1>11. Unborn' /\ Known' /\ PostedOnce'
  BY <1>3, <1>9, <1>10 DEF OrderInv, Unborn, Known, PostedOnce
<1>12. ClaimsInOrder'
  BY <1>3, <1>9, SameTable DEF OrderInv, ClaimsInOrder, InTurn
<1>13. WaitsInOrder'
  BY <1>3, <1>9, <1>10, SameTable DEF OrderInv, WaitsInOrder
<1>14. DeferredOrdered'
  <2> SUFFICES ASSUME NEW i \in DOMAIN deferred', NEW j \in DOMAIN deferred', i < j,
                      deferred'[i][1] = deferred'[j][1]
               PROVE  PostedBefore(deferred'[i][2], deferred'[j][2])
    BY <1>3, SameTable DEF DeferredOrdered
  <2>1. i + 1 < j + 1
    BY <1>5
  <2> QED BY <1>5, <2>1 DEF OrderInv, Ordered, DeferredOrdered
\* The message came behind all that was queued for its state.
<1>15. \A d \in Conversations : \A i \in DOMAIN queue[g][d] : PostedBefore(queue[g][d][i], m)
  BY <1>4, <1>5 DEF OrderInv, Ordered, QueuedFirst
<1>16. QueuesOrdered'
  <2> SUFFICES ASSUME NEW h \in Gens, NEW d \in Conversations, NEW i \in DOMAIN queue'[h][d],
                      NEW j \in DOMAIN queue'[h][d], i < j
               PROVE  PostedBefore(queue'[h][d][i], queue'[h][d][j])
    BY <1>3, SameTable DEF QueuesOrdered
  <2>1. CASE ~(h = g /\ d = c)
    BY <1>6, <2>1 DEF OrderInv, Ordered, QueuesOrdered
  <2>2. CASE h = g /\ d = c
    <3>1. i \in DOMAIN q /\ queue'[g][c][i] = q[i] /\ i \in Nat /\ j \in Nat
      BY <1>8, <2>2
    <3>2. i + k \in DOMAIN queue[g][c] /\ q[i] = queue[g][c][i + k]
      BY <1>7, <3>1
    <3>3. CASE j \in DOMAIN q /\ queue'[g][c][j] = q[j]
      <4>1. j + k \in DOMAIN queue[g][c] /\ q[j] = queue[g][c][j + k] /\ i + k < j + k
        BY <1>7, <3>1, <3>3
      <4> QED BY <1>1, <2>2, <3>1, <3>2, <3>3, <4>1 DEF OrderInv, Ordered, QueuesOrdered
    <3>4. CASE queue'[g][c][j] = m
      BY <1>1, <1>15, <2>2, <3>1, <3>2, <3>4
    <3> QED BY <1>8, <2>2, <3>3, <3>4
  <2> QED BY <2>1, <2>2
<1>17. QueuedFirst'
  <2> SUFFICES ASSUME NEW h \in Gens, NEW d \in Conversations, NEW i \in DOMAIN queue'[h][d],
                      NEW j \in DOMAIN deferred', deferred'[j][1] = h
               PROVE  PostedBefore(queue'[h][d][i], deferred'[j][2])
    BY <1>3, SameTable DEF QueuedFirst
  <2>1. j + 1 \in DOMAIN deferred /\ 1 < j + 1 /\ deferred'[j] = deferred[j + 1]
    BY <1>5
  <2>2. CASE ~(h = g /\ d = c)
    BY <1>6, <2>1, <2>2 DEF OrderInv, Ordered, QueuedFirst
  <2>3. CASE h = g /\ d = c
    <3>1. CASE i \in DOMAIN q /\ queue'[g][c][i] = q[i]
      BY <1>1, <1>7, <2>1, <2>3, <3>1 DEF OrderInv, Ordered, QueuedFirst
    <3>2. CASE queue'[g][c][i] = m
      BY <1>4, <1>5, <2>1, <2>3, <3>2 DEF OrderInv, Ordered, DeferredOrdered
    <3> QED BY <1>8, <2>3, <3>1, <3>2
  <2> QED BY <2>2, <2>3
<1> QED BY <1>11, <1>12, <1>13, <1>14, <1>16, <1>17 DEF OrderInv, Ordered

\* A new state has nothing yet, so that it may see whatever it sees.
LEMMA OrderNewGen ==
  ASSUME TypeOK, TypeOK', OrderInv, NewGeneration,
         UNCHANGED <<posted, claimed, buffer, batch, dbOpen, deferred, queue>>
  PROVE  OrderInv'
<1> DEFINE n == gens + 1
<1>1. gens' = n /\ gens \in Nat /\ n \in Gens
  BY BoundsAssumption DEF NewGeneration, TypeOK, Gens
<1>2. \A h \in Gens : h # n => since'[h] = since[h]
  BY DEF NewGeneration, TypeOK
<1>3. \A h \in Gens : h # n => VisibleIn(h)' = VisibleIn(h)
  BY <1>2, SameView
<1>4. \A h \in Gens : WaitingIn(h)' = WaitingIn(h)
  BY DEF WaitingIn, QueuedIn
<1>5. buffer[n] = <<>> /\ batch[n] = <<>> /\ WaitingIn(n) = {}
  BY <1>1 DEF OrderInv, Unborn
<1>6. Unborn'
  <2>1. \A h \in Gens : h > n => h > gens
    BY <1>1 DEF Gens
  <2> QED BY <1>1, <1>4, <2>1 DEF OrderInv, Unborn
<1>7. Known'
  <2> SUFFICES ASSUME NEW h \in Gens
               PROVE  (ToSet(buffer[h]) \cup ToSet(batch[h]) \cup WaitingIn(h)) \subseteq VisibleIn(h)'
    BY <1>4 DEF Known
  <2>1. CASE h = n
    BY <1>5, <2>1, InTurnEmpty
  <2>2. CASE h # n
    BY <1>3, <2>2 DEF OrderInv, Known
  <2> QED BY <2>1, <2>2
<1>8. ClaimsInOrder'
  <2> SUFFICES ASSUME dbOpen, NEW h \in Gens PROVE InTurn(batch[h], h)' /\ InTurn(buffer[h], h)'
    BY DEF ClaimsInOrder
  <2>1. CASE h = n
    BY <1>5, <2>1 DEF InTurn
  <2>2. CASE h # n
    BY <1>3, <2>2, SameTable DEF OrderInv, ClaimsInOrder, InTurn
  <2> QED BY <2>1, <2>2
<1>9. WaitsInOrder'
  BY <1>3, <1>4, <1>5, SameTable DEF OrderInv, WaitsInOrder
<1>10. PostedOnce' /\ Ordered'
  BY SameTable DEF OrderInv, PostedOnce, Ordered, DeferredOrdered, QueuesOrdered, QueuedFirst
<1> QED BY <1>6, <1>7, <1>8, <1>9, <1>10 DEF OrderInv

\* Nothing is left in memory.
LEMMA OrderCrash ==
  ASSUME TypeOK, OrderInv, Crash
  PROVE  OrderInv'
<1>1. /\ \A g \in Gens : /\ buffer'[g] = <<>> /\ batch'[g] = <<>>
                         /\ \A c \in Conversations : queue'[g][c] = <<>>
      /\ deferred' = <<>> /\ UNCHANGED posted
  BY DEF Crash, EmptyQueues
<1>2. \A g \in Gens : WaitingIn(g)' = {}
  BY <1>1 DEF WaitingIn, QueuedIn, ToSet
<1>3. \A g \in Gens : ToSet(buffer'[g]) = {} /\ ToSet(batch'[g]) = {}
  BY <1>1, InTurnEmpty
<1>4. ClaimsInOrder'
  BY <1>1 DEF ClaimsInOrder, InTurn
<1>5. Unborn' /\ Known' /\ WaitsInOrder'
  BY <1>1, <1>2, <1>3 DEF Unborn, Known, WaitsInOrder
<1>6. PostedOnce' /\ Ordered'
  BY <1>1 DEF OrderInv, PostedOnce, Ordered, DeferredOrdered, QueuesOrdered, QueuedFirst
<1> QED BY <1>4, <1>5, <1>6 DEF OrderInv

LEMMA OrderInit == Init => OrderInv
<1> SUFFICES ASSUME Init PROVE OrderInv
  OBVIOUS
<1>1. /\ \A g \in Gens : /\ buffer[g] = <<>> /\ batch[g] = <<>>
                         /\ \A c \in Conversations : queue[g][c] = <<>>
      /\ deferred = <<>> /\ posted = <<>>
  BY DEF Init, EmptyQueues
<1>2. \A g \in Gens : WaitingIn(g) = {}
  BY <1>1 DEF WaitingIn, QueuedIn, ToSet
<1>3. \A g \in Gens : ToSet(buffer[g]) = {} /\ ToSet(batch[g]) = {}
  BY <1>1, InTurnEmpty
<1>4. ClaimsInOrder
  BY <1>1 DEF ClaimsInOrder, InTurn
<1>5. Unborn /\ Known /\ WaitsInOrder
  BY <1>1, <1>2, <1>3 DEF Unborn, Known, WaitsInOrder
<1>6. PostedOnce /\ Ordered
  BY <1>1 DEF PostedOnce, Ordered, DeferredOrdered, QueuesOrdered, QueuedFirst
<1> QED BY <1>4, <1>5, <1>6 DEF OrderInv

LEMMA OrderHandle ==
  ASSUME TypeOK, TypeOK', OrderInv, NEW g \in Gens, NEW m \in Messages, HandleUserMessage(g, m)
  PROVE  OrderInv'
<1> USE DEF workVars, monitorVars, intakeVars
<1>1. CASE EnqueueMessage(g, m)
  BY <1>1, OrderEnqueue
<1>2. CASE HandleUserMessage(g, m) /\ ~EnqueueMessage(g, m)
  <2>1. /\ Handling(g, m)
        /\ UNCHANGED <<posted, since, claimed, gens, batch, buffer, dbOpen, queue>>
    BY <1>2 DEF HandleUserMessage, RejectAtCap, RefuseIntake, RefuseOverflow,
         RefuseConversation, StartRun, StartFails, MayStart
  <2> QED BY <2>1, HandlingDeferred, QueuesKept, OrderShrinks
<1> QED BY <1>1, <1>2

LEMMA OrderStep ==
  ASSUME TypeOK, OnceInv, OrderInv, "db" \notin Faults, [Next]_vars
  PROVE  OrderInv'
<1> USE DEF workVars, monitorVars, intakeVars
<1>0. TypeOK' /\ (UNCHANGED deferred => SuffixOf(deferred', deferred))
  <2>1. TypeOK'
    BY StepType
  <2>2. SuffixOf(deferred, deferred)
    BY SuffixSelf DEF TypeOK
  <2> QED BY <2>1, <2>2
<1>1. CASE UNCHANGED vars
  BY <1>0, <1>1, QueuesKept, OrderShrinks DEF vars
<1>2. ASSUME NEW m \in Messages, Post(m) PROVE OrderInv'
  BY <1>0, <1>2, OrderPost
<1>3. ASSUME NEW g \in Gens, \/ Deliver(g) \/ TakeBatch(g)
                             \/ CheckProcessed(g) \/ Claim(g) \/ SkipOnDbError(g)
      PROVE  OrderInv'
  <2>1. CASE CheckProcessed(g) /\ Head(batch[g]) \in claimed
    BY <1>0, <2>1, OrderPass DEF CheckProcessed, NextEvent
  <2>2. CASE CheckProcessed(g) /\ Head(batch[g]) \notin claimed
    BY <1>0, <2>2, QueuesKept, OrderShrinks DEF CheckProcessed
  <2>3. CASE SkipOnDbError(g)
    BY <1>0, <2>3, OrderPass DEF SkipOnDbError, NextEvent
  <2> QED BY <1>0, <1>3, <2>1, <2>2, <2>3, OrderDeliver, OrderTake, OrderClaim
<1>4. CASE Dispatch
  <2>1. ASSUME NEW r \in runs, FinishRun(r) \/ AbortRun(r) PROVE OrderInv'
    BY <1>0, <2>1, QueuesKept, OrderShrinks DEF FinishRun, AbortRun, ReleaseRun
  <2>2. ASSUME NEW l \in loops,
               StartQueued(l) \/ StartQueuedFails(l) \/ DropQueued(l) \/ EndLoop(l)
        PROVE  OrderInv'
    <3>1. Dequeue(l) \/ UNCHANGED queue
      BY <2>2 DEF StartQueued, StartQueuedFails, MayStartQueued, DropQueued, EndLoop
    <3>2. QueuesShrink
      BY <3>1, DequeueShrinks, QueuesKept
    <3> QED BY <1>0, <2>2, <3>2, OrderShrinks DEF StartQueued, StartQueuedFails, DropQueued, EndLoop
  <2> QED BY <1>0, <1>4, <2>1, <2>2, OrderHandle DEF Dispatch
<1>5. CASE Timers
  BY <1>0, <1>5, QueuesKept, ExpireShrinks, OrderShrinks DEF Timers, CallTimeout, ExpireStale
<1>6. CASE Monitoring
  <2>1. ASSUME Unsubscribe(current)
        PROVE  \A g \in Gens : buffer'[g] = buffer[g] \/ buffer'[g] = <<>>
    BY <2>1 DEF Unsubscribe, TypeOK
  <2>2. CASE StartMonitoring
    BY <1>0, <2>2, OrderNewGen DEF StartMonitoring
  <2>3. CASE StopMonitoring
    BY <1>0, <2>1, <2>3, QueuesKept, OrderShrinks DEF StopMonitoring
  <2>4. CASE Reconnected
    <3>1. current \in Gens
      BY <2>4 DEF Reconnected, TypeOK, Gens
    <3> QED BY <1>0, <2>1, <2>4, <3>1, DestroyShrinks, OrderShrinks DEF Reconnected
  <2>5. CASE StopAll
    BY <1>0, <2>1, <2>5, QueuesKept, OrderShrinks DEF StopAll
  <2>6. CASE Crash
    BY <2>6, OrderCrash
  <2>7. ASSUME NEW g \in Gens, FinishStop(g) PROVE OrderInv'
    BY <1>0, <2>7, DestroyShrinks, OrderShrinks DEF FinishStop
  <2>8. ASSUME NEW g \in Gens, FinishReconnect(g) PROVE OrderInv'
    BY <1>0, <2>8, QueuesKept, OrderNewGen, OrderShrinks DEF FinishReconnect
  <2> QED BY <1>6, <2>2, <2>3, <2>4, <2>5, <2>6, <2>7, <2>8 DEF Monitoring
<1> QED BY <1>1, <1>2, <1>3, <1>4, <1>5, <1>6 DEF Next, Intake

\* A callback starts a run: its conversation has no queue, and the others came later.
LEMMA StartRunFirst ==
  ASSUME TypeOK, SerialInv, QueuedBelong, ServedInv, OrderInv,
         NEW g \in Gens, NEW m \in Messages, StartRun(g, m),
         NEW x \in WaitingIn(g)', ConvOf[x] = ConvOf[m]
  PROVE  PostedBefore(m, x)
<1>1. /\ Handling(g, m) /\ loops = {} /\ ConvOf[m] \notin active[g] /\ UNCHANGED queue
  BY DEF StartRun, MayStart, Handling, MicrotasksDone, Busy
<1>2. /\ deferred \in Seq(Gens \X Messages) /\ deferred # <<>>
      /\ deferred[1] = <<g, m>> /\ deferred' = Tail(deferred)
  BY <1>1, HandlingDeferred
<1>3. /\ 1 \in DOMAIN deferred
      /\ \A i \in DOMAIN deferred' : /\ i + 1 \in DOMAIN deferred /\ 1 < i + 1
                                     /\ deferred'[i] = deferred[i + 1]
  BY <1>2
<1>4. \/ \E c \in Conversations : \E i \in DOMAIN queue[g][c] : queue[g][c][i] = x
      \/ \E i \in DOMAIN deferred' : deferred'[i][1] = g /\ deferred'[i][2] = x
  BY <1>1 DEF WaitingIn, QueuedIn, ToSet
<1>5. ASSUME NEW c \in Conversations, NEW i \in DOMAIN queue[g][c], queue[g][c][i] = x
      PROVE  FALSE
  <2>1. c = ConvOf[m]
    BY <1>5 DEF QueuedBelong
  <2>2. queue[g][c] # <<>>
    <3>1. queue[g][c] \in Seq(Messages)
      BY QueueType
    <3> QED BY <1>5, <3>1
  <2>3. \E r \in runs : r.gen = g /\ ConvOf[r.msg] = c
    BY <1>1, <2>2, WorkersAt DEF ServedInv, QueueServed
  <2> QED BY <1>1, <2>1, <2>3 DEF SerialInv, RunsAreActive
<1> QED BY <1>2, <1>3, <1>4, <1>5 DEF OrderInv, Ordered, DeferredOrdered

\* A loop starts a run: the rest of its queue, and what is deferred, came later.
LEMMA StartQueuedFirst ==
  ASSUME TypeOK, QueuedBelong, OrderInv, NEW l \in loops, StartQueued(l),
         NEW x \in WaitingIn(l.gen)', ConvOf[x] = ConvOf[Head(queue[l.gen][l.conv])]
  PROVE  PostedBefore(Head(queue[l.gen][l.conv]), x)
<1> DEFINE g == l.gen
<1> DEFINE q == queue[g][l.conv]
<1>1. g \in Gens /\ l.conv \in Conversations
  BY DEF TypeOK, Loops
<1>2. /\ q \in Seq(Messages) /\ q # <<>> /\ queue' = [queue EXCEPT ![g][l.conv] = Tail(q)]
      /\ UNCHANGED deferred
  BY <1>1, QueueType DEF StartQueued, MayStartQueued, Dequeue
<1>3. queue'[g][l.conv] = Tail(q)
      /\ \A c \in Conversations : c # l.conv => queue'[g][c] = queue[g][c]
  BY <1>1, <1>2, QueueType
<1>4. /\ 1 \in DOMAIN q /\ q[1] = Head(q)
      /\ \A i \in DOMAIN Tail(q) : i + 1 \in DOMAIN q /\ 1 < i + 1 /\ Tail(q)[i] = q[i + 1]
  BY <1>2
<1>5. \/ \E c \in Conversations : \E i \in DOMAIN queue'[g][c] : queue'[g][c][i] = x
      \/ \E i \in DOMAIN deferred : deferred[i][1] = g /\ deferred[i][2] = x
  BY <1>2 DEF WaitingIn, QueuedIn, ToSet
<1>6. CASE \E i \in DOMAIN deferred : deferred[i][1] = g /\ deferred[i][2] = x
  BY <1>1, <1>4, <1>6 DEF OrderInv, Ordered, QueuedFirst
<1>7. ASSUME NEW c \in Conversations, NEW i \in DOMAIN queue'[g][c], queue'[g][c][i] = x
      PROVE  PostedBefore(Head(q), x)
  <2>1. c = l.conv
    <3>1. ConvOf[Head(q)] = l.conv
      BY <1>1, <1>4 DEF QueuedBelong
    <3>2. c # l.conv => ConvOf[x] = c
      BY <1>1, <1>3, <1>7 DEF QueuedBelong
    <3> QED BY <3>1, <3>2
  <2>2. i + 1 \in DOMAIN q /\ 1 < i + 1 /\ x = q[i + 1]
    BY <1>3, <1>4, <1>7, <2>1
  <2>3. \A j, k \in DOMAIN q : j < k => PostedBefore(q[j], q[k])
    BY <1>1 DEF OrderInv, Ordered, QueuesOrdered
  <2> QED BY <1>4, <2>2, <2>3
<1> QED BY <1>5, <1>6, <1>7

LEMMA StartsNext ==
  ASSUME TypeOK, SerialInv, QueuedBelong, ServedInv, OrderInv, [Next]_vars,
         NEW r \in runs', r \notin runs, NEW m \in WaitingIn(r.gen)', ConvOf[m] = ConvOf[r.msg]
  PROVE  ~PostedBefore(m, r.msg)
<1>1. ASSUME NEW g \in Gens, NEW x \in Messages, StartRun(g, x) PROVE PostedBefore(r.msg, m)
  <2>1. r = [gen |-> g, msg |-> x, count |-> 0]
    BY <1>1 DEF StartRun
  <2>2. r.gen = g /\ r.msg = x
    BY <2>1
  <2> QED BY <1>1, <2>2, StartRunFirst
<1>2. ASSUME NEW l \in loops, StartQueued(l) PROVE PostedBefore(r.msg, m)
  <2>1. r = [gen |-> l.gen, msg |-> Head(queue[l.gen][l.conv]), count |-> l.count + 1]
    BY <1>2 DEF StartQueued
  <2>2. r.gen = l.gen /\ r.msg = Head(queue[l.gen][l.conv])
    BY <2>1
  <2> QED BY <1>2, <2>2, StartQueuedFirst
<1>3. PostedBefore(r.msg, m)
  BY <1>1, <1>2, RunsShrink
<1> QED BY <1>3, BeforeAsymmetric DEF OrderInv

(***************************************************************************)
(* A run never starts while an earlier message of its conversation waits   *)
(* in the same state, through redeliveries, reconnections and restarts.    *)
(* The hypotheses: the database answers, no commit fails at the start or   *)
(* the end of a run, and one loop is long enough for a conversation.       *)
(***************************************************************************)
THEOREM StartsInOrder ==
  ASSUME "commit" \notin Faults, "db" \notin Faults, DrainSuffices
  PROVE  Spec => RunsInPostOrder
<1> DEFINE I == TypeOK /\ OnceInv /\ SerialInv /\ QueuedBelong /\ ServedInv /\ OrderInv
<1> DEFINE A == \A r \in runs' \ runs : \A m \in WaitingIn(r.gen)' :
                  ConvOf[m] = ConvOf[r.msg] => ~PostedBefore(m, r.msg)
<1>1. Init => I
  BY InitType, OnceInit, SerialInit, ServedInit, OrderInit
<1>2. I /\ [Next]_vars => I'
  BY StepType, OnceStep, SerialStep, BelongStep, ServedStep, OrderStep
<1>3. I /\ [Next]_vars => [A]_vars
  BY StartsNext
<1>4. RunsInPostOrder <=> [][A]_vars
  BY DEF RunsInPostOrder
<1> HIDE DEF I, A
<1> QED BY <1>1, <1>2, <1>3, <1>4, PTL DEF Spec

===============================================================================

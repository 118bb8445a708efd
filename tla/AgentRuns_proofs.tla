--------------------------- MODULE AgentRuns_proofs ---------------------------
(***************************************************************************)
(* Theorems about AgentRuns for every set of messages and conversations,   *)
(* every bound on sessions and on active conversations, and every number   *)
(* of generations.  The three about live sessions are for a dispose() that *)
(* takes no time.                                                          *)
(***************************************************************************)
EXTENDS AgentRuns, SequenceTheorems, FiniteSetTheorems, TLAPS

Distinct(s) == \A i, j \in DOMAIN s : s[i].conv = s[j].conv => i = j

Caches == {s \in Seq(Entries) : Distinct(s)}

(***************************************************************************)
(* Sequences of entries: what the operators of the cache do to their       *)
(* elements.                                                               *)
(***************************************************************************)
LEMMA Elements ==
  ASSUME NEW s \in Seq(Entries)
  PROVE  /\ DOMAIN s = 1..Len(s) /\ Len(s) \in Nat
         /\ ToSet(s) \subseteq Entries
         /\ \A x : x \in ToSet(s) <=> \E i \in 1..Len(s) : x = s[i]
         /\ s = <<>> => ToSet(s) = {}
BY DEF ToSet

LEMMA SameConversation ==
  ASSUME NEW s \in Caches, NEW e \in ToSet(s), NEW f \in ToSet(s), e.conv = f.conv
  PROVE  e = f
BY Elements DEF Caches, Distinct

LEMMA EmptyCache == <<>> \in Caches /\ ToSet(<<>>) = {}
<1>1. <<>> \in Seq(Entries) /\ DOMAIN <<>> = {}
  OBVIOUS
<1> QED BY <1>1 DEF Caches, Distinct, ToSet

LEMMA PrefixElements ==
  ASSUME NEW s \in Seq(Entries), NEW k \in 0..Len(s)
  PROVE  SubSeq(s, 1, k) \in Seq(Entries) /\ ToSet(SubSeq(s, 1, k)) \subseteq ToSet(s)
<1>1. /\ SubSeq(s, 1, k) \in Seq(Entries)
      /\ Len(SubSeq(s, 1, k)) = k
      /\ \A i \in 1..k : SubSeq(s, 1, k)[i] = s[i]
  BY SMTT(30)
<1>2. ASSUME NEW x \in ToSet(SubSeq(s, 1, k)) PROVE x \in ToSet(s)
  <2> DEFINE t == SubSeq(s, 1, k)
  <2>0. t \in Seq(Entries) /\ Len(t) = k /\ x \in ToSet(t)
    BY <1>1
  <2> HIDE DEF t
  <2>1. PICK i \in 1..k : x = t[i]
    BY <2>0, Elements
  <2>3. x = s[i]
    BY <1>1, <2>1 DEF t
  <2>2. i \in 1..Len(s)
    OBVIOUS
  <2> QED BY <2>2, <2>3, Elements
<1> QED BY <1>1, <1>2

LEMMA HeadElements ==
  ASSUME NEW s \in Seq(Entries), s # <<>>
  PROVE  /\ Head(s) \in ToSet(s)
         /\ Tail(s) \in Seq(Entries) /\ ToSet(Tail(s)) \subseteq ToSet(s)
         /\ \A x \in ToSet(s) : x = Head(s) \/ x \in ToSet(Tail(s))
<1>1. /\ Tail(s) \in Seq(Entries) /\ Len(Tail(s)) = Len(s) - 1 /\ Len(s) \in Nat \ {0}
      /\ \A i \in 1..Len(Tail(s)) : Tail(s)[i] = s[i + 1]
      /\ Head(s) = s[1]
  OBVIOUS
<1>2. Head(s) \in ToSet(s)
  BY <1>1, Elements
<1>3. ToSet(Tail(s)) \subseteq ToSet(s)
  <2>1. SUFFICES ASSUME NEW x \in ToSet(Tail(s)) PROVE x \in ToSet(s)
    OBVIOUS
  <2>2. PICK i \in 1..Len(Tail(s)) : x = Tail(s)[i]
    BY <1>1, Elements
  <2>3. i + 1 \in 1..Len(s) /\ x = s[i + 1]
    BY <1>1, <2>2
  <2> QED BY <2>3, Elements
<1>4. ASSUME NEW i \in 1..Len(s), i # 1 PROVE s[i] \in ToSet(Tail(s))
  <2>1. i - 1 \in 1..Len(Tail(s)) /\ Tail(s)[i - 1] = s[i]
    BY <1>1, <1>4
  <2> QED BY <1>1, <2>1, Elements
<1> QED BY <1>1, <1>2, <1>3, <1>4, Elements

LEMMA RemovedAt ==
  ASSUME NEW s \in Caches, NEW k \in 1..Len(s)
  PROVE  /\ RemoveAt(s, k) \in Caches
         /\ ToSet(RemoveAt(s, k)) = ToSet(s) \ {s[k]}
         /\ Len(RemoveAt(s, k)) = Len(s) - 1
<1> DEFINE r == RemoveAt(s, k)
<1>0. s \in Seq(Entries) /\ Len(s) \in Nat /\ Distinct(s)
  BY DEF Caches
<1>1. /\ SubSeq(s, 1, k - 1) \in Seq(Entries) /\ Len(SubSeq(s, 1, k - 1)) = k - 1
      /\ SubSeq(s, k + 1, Len(s)) \in Seq(Entries)
      /\ Len(SubSeq(s, k + 1, Len(s))) = Len(s) - k
      /\ \A i \in 1..(k - 1) : SubSeq(s, 1, k - 1)[i] = s[i]
      /\ \A i \in 1..(Len(s) - k) : SubSeq(s, k + 1, Len(s))[i] = s[k + i]
  BY <1>0, SMTT(30)
<1>2. /\ r \in Seq(Entries) /\ Len(r) = Len(s) - 1
      /\ \A i \in 1..(Len(s) - 1) : r[i] = IF i < k THEN s[i] ELSE s[i + 1]
  <2> DEFINE a == SubSeq(s, 1, k - 1)  b == SubSeq(s, k + 1, Len(s))
  <2>1. r = a \o b
    BY DEF RemoveAt
  <2>2. /\ a \o b \in Seq(Entries) /\ Len(a \o b) = Len(a) + Len(b)
        /\ \A i \in 1..(Len(a) + Len(b)) :
             (a \o b)[i] = IF i <= Len(a) THEN a[i] ELSE b[i - Len(a)]
    BY <1>1, ConcatProperties
  <2> HIDE DEF a, b, r
  <2>3. Len(a) = k - 1 /\ Len(b) = Len(s) - k
    BY <1>1 DEF a, b
  <2>4. ASSUME NEW i \in 1..(Len(s) - 1)
        PROVE  r[i] = IF i < k THEN s[i] ELSE s[i + 1]
    <3>1. CASE i < k
      <4>1. r[i] = a[i]
        BY <1>0, <2>1, <2>2, <2>3, <3>1
      <4> QED BY <1>1, <3>1, <4>1 DEF a
    <3>2. CASE i >= k
      <4>1. r[i] = b[i - (k - 1)] /\ i - (k - 1) \in 1..(Len(s) - k)
        BY <1>0, <2>1, <2>2, <2>3, <3>2
      <4>2. b[i - (k - 1)] = s[k + (i - (k - 1))] /\ k + (i - (k - 1)) = i + 1
        BY <1>1, <4>1 DEF b
      <4> QED BY <3>2, <4>1, <4>2
    <3> QED BY <1>0, <3>1, <3>2
  <2>5. r \in Seq(Entries)
    BY <2>1, <2>2
  <2>6. Len(r) = Len(s) - 1
    <3>1. Len(r) = Len(a) + Len(b)
      BY <2>1, <2>2
    <3>2. (k - 1) + (Len(s) - k) = Len(s) - 1
      BY <1>0
    <3> QED BY <2>3, <3>1, <3>2
  <2> QED BY <2>4, <2>5, <2>6
<1> HIDE DEF r
<1>3. Distinct(r)
  <2>0. DOMAIN r = 1..(Len(s) - 1)
    BY <1>2
  <2>1. SUFFICES ASSUME NEW i \in 1..(Len(s) - 1), NEW j \in 1..(Len(s) - 1),
                        r[i].conv = r[j].conv
                 PROVE  i = j
    BY <2>0 DEF Distinct
  <2>2. \A n \in 1..(Len(s) - 1) :
          \E a \in DOMAIN s : r[n] = s[a] /\ a = IF n < k THEN n ELSE n + 1
    <3>1. DOMAIN s = 1..Len(s)
      BY <1>0
    <3> QED BY <1>0, <1>2, <3>1
  <2>3. PICK a \in DOMAIN s : r[i] = s[a] /\ a = IF i < k THEN i ELSE i + 1
    BY <2>2
  <2>4. PICK b \in DOMAIN s : r[j] = s[b] /\ b = IF j < k THEN j ELSE j + 1
    BY <2>2
  <2>5. a = b
    BY <1>0, <2>1, <2>3, <2>4 DEF Distinct
  <2> QED BY <2>3, <2>4, <2>5
<1>4. ASSUME NEW x \in ToSet(r) PROVE x \in ToSet(s) \ {s[k]}
  <2>1. PICK i \in 1..(Len(s) - 1) : x = r[i]
    BY <1>2, Elements
  <2>2. PICK j \in 1..Len(s) : j # k /\ x = s[j]
    BY <1>0, <1>2, <2>1
  <2>3. s[j] # s[k]
    BY <1>0, <2>2 DEF Distinct
  <2> QED BY <1>0, <2>2, <2>3, Elements
<1>5. ASSUME NEW x \in ToSet(s), x # s[k] PROVE x \in ToSet(r)
  <2>1. PICK j \in 1..Len(s) : x = s[j] /\ j # k
    BY <1>0, <1>5, Elements
  <2>2. PICK i \in 1..(Len(s) - 1) : r[i] = s[j]
    <3>1. CASE j < k
      BY <1>0, <1>2, <3>1
    <3>2. CASE j > k
      <4>1. j - 1 \in 1..(Len(s) - 1) /\ r[j - 1] = s[j]
        BY <1>0, <1>2, <3>2
      <4> QED BY <4>1
    <3> QED BY <2>1, <3>1, <3>2
  <2> QED BY <1>2, <2>1, <2>2, Elements
<1> QED BY <1>2, <1>3, <1>4, <1>5 DEF Caches, r

\* Without removes the entry of one conversation.
LEMMA WithoutElements ==
  ASSUME NEW s \in Caches, NEW c
  PROVE  /\ Without(s, c) \in Caches
         /\ ToSet(Without(s, c)) = {e \in ToSet(s) : e.conv # c}
         /\ Len(Without(s, c)) <= Len(s)
<1>0. s \in Seq(Entries) /\ Distinct(s)
  BY DEF Caches
<1>1. CASE c \in ConvsIn(s)
  <2> DEFINE k == CHOOSE i \in DOMAIN s : s[i].conv = c
  <2>1. \E i \in DOMAIN s : s[i].conv = c
    BY <1>0, <1>1, Elements DEF ConvsIn
  <2>2. k \in 1..Len(s) /\ s[k].conv = c
    BY <1>0, <2>1
  <2>3. Without(s, c) = RemoveAt(s, k)
    BY <1>1 DEF Without
  <2> HIDE DEF k
  <2>4. \A e \in ToSet(s) : e.conv = c <=> e = s[k]
    <3>1. s[k] \in ToSet(s)
      BY <1>0, <2>2, Elements
    <3> QED BY <2>2, <3>1, SameConversation
  <2> QED BY <1>0, <2>2, <2>3, <2>4, RemovedAt
<1>2. CASE c \notin ConvsIn(s)
  BY <1>0, <1>2 DEF Without, ConvsIn
<1> QED BY <1>1, <1>2

LEMMA Appended ==
  ASSUME NEW s \in Caches, NEW e \in Entries, \A f \in ToSet(s) : f.conv # e.conv
  PROVE  Append(s, e) \in Caches /\ ToSet(Append(s, e)) = ToSet(s) \cup {e}
<1> DEFINE r == Append(s, e)
<1>0. s \in Seq(Entries) /\ Distinct(s) /\ Len(s) \in Nat
  BY DEF Caches
<1>1. /\ r \in Seq(Entries) /\ Len(r) = Len(s) + 1
      /\ \A i \in 1..Len(s) : r[i] = s[i]
      /\ r[Len(s) + 1] = e
  BY <1>0
<1> HIDE DEF r
<1>2. \A i \in 1..Len(s) : s[i].conv # e.conv
  BY <1>0, Elements
<1>3. Distinct(r)
  <2>1. DOMAIN r = 1..(Len(s) + 1) /\ DOMAIN s = 1..Len(s)
    BY <1>0, <1>1
  <2> QED BY <1>0, <1>1, <1>2, <2>1 DEF Distinct
<1>4. \A x : x \in ToSet(r) <=> x \in ToSet(s) \/ x = e
  BY <1>0, <1>1, Elements
<1> QED BY <1>1, <1>3, <1>4 DEF Caches, r

-----------------------------------------------------------------------------
(* The parts of TypeOK, with what the proofs need besides: a run that has    *)
(* begun has a generation, a run that awaits a dispose() is evicting, and a   *)
(* promise is one run.                                                        *)
MonitorOK ==
  /\ gens \in 0..MaxGen /\ current \in 0..gens
  /\ stopping \subseteq 1..gens
  /\ closing \subseteq stopping \X {"stop", "reconnect"}
  /\ store \in StoreStates
CacheOK == cache \in [Gens -> Caches] /\ live \subseteq Messages
ResourcesOK ==
  /\ ready \in BOOLEAN
  /\ promise = {} \/ \E p \in Messages : promise = {p}
RunsOK ==
  /\ run \in [Messages -> RunRecords]
  /\ \A m \in Messages :
       /\ run[m].phase # "waiting" => run[m].gen \in Gens
       /\ run[m].busy => run[m].phase \in Evicting /\ run[m].victims # <<>>

AllTypes == MonitorOK /\ CacheOK /\ ResourcesOK /\ RunsOK

LEMMA TypeParts == AllTypes => TypeOK
<1> SUFFICES ASSUME AllTypes PROVE TypeOK
  OBVIOUS
<1>1. Cardinality(promise) <= 1 /\ promise \subseteq Messages
  <2>1. CASE promise = {}
    BY <2>1, FS_EmptySet
  <2>2. ASSUME NEW p \in Messages, promise = {p}
        PROVE  Cardinality(promise) <= 1 /\ promise \subseteq Messages
    <3>1. Cardinality(promise) = 1
      BY <2>2, FS_Singleton
    <3> QED BY <2>2, <3>1
  <2> QED BY <2>1, <2>2 DEF AllTypes, ResourcesOK
<1>2. /\ cache \in [Gens -> Seq(Entries)]
      /\ \A g \in Gens : Distinct(cache[g])
  BY DEF AllTypes, CacheOK, Caches
<1> QED BY <1>1, <1>2, SMTT(30) DEF AllTypes, MonitorOK, CacheOK, ResourcesOK, RunsOK, TypeOK, Distinct

LEMMA BoundsAreNat == MaxGen \in Nat /\ MaxSessions \in Nat /\ MaxActive \in Nat
BY RunAssumption

LEMMA InitTypes == Init => AllTypes
<1> SUFFICES ASSUME Init PROVE AllTypes
  OBVIOUS
<1>1. NewRun \in RunRecords
  BY DEF NewRun, RunRecords, Phases
<1>2. RunsOK
  BY <1>1 DEF Init, RunsOK, NewRun
<1>3. MonitorOK
  BY BoundsAreNat DEF Init, MonitorOK, StoreStates
<1>4. CacheOK
  BY EmptyCache DEF Init, CacheOK
<1> QED BY <1>2, <1>3, <1>4 DEF Init, AllTypes, ResourcesOK

(***************************************************************************)
(* What the steps do to a run: the others stay as they are.                *)
(***************************************************************************)
Others(m) == \A n \in Messages : n # m => run'[n] = run[n]

(* The records a step gives to its run. *)
Begun(r, g, p, s)     == [r EXCEPT !.gen = g, !.phase = p, !.victims = s]
Unserved(r, g)        == [r EXCEPT !.gen = g, !.phase = "unserved", !.error = TRUE]
Served(r, g, s)       == [r EXCEPT !.gen = g, !.phase = "prompting", !.session = {s}]
Disposing(r)          == [r EXCEPT !.busy = TRUE]
Advanced(r)              == [r EXCEPT !.busy = FALSE, !.victims = Tail(@)]
Crowded(r, s, C)      == [r EXCEPT !.phase = "lru", !.victims = s, !.spared = C]
Roomy(r)              == [r EXCEPT !.phase = "directory", !.victims = <<>>, !.spared = {}]
Gone(r, p)            == [r EXCEPT !.phase = p]
Patient(r, P)         == [r EXCEPT !.phase = "resources", !.awaits = P]
Resumed(r, p)         == [r EXCEPT !.phase = p, !.awaits = {}]
Prompted(r, m)        == [r EXCEPT !.phase = "prompting", !.session = {m}]
Finished(r, p, e, t, k) == [r EXCEPT !.phase = p, !.session = {}, !.error = e, !.told = t,
                                     !.completed = k]

Becomes(m, r) == run' = [run EXCEPT ![m] = r]

LEMMA RunChanges ==
  ASSUME RunsOK, NEW m \in Messages, NEW r \in RunRecords,
         r.gen \in Gens, r.busy => r.phase \in Evicting /\ r.victims # <<>>,
         Becomes(m, r)
  PROVE  RunsOK' /\ Others(m) /\ run'[m] = r
BY DEF RunsOK, Others, Becomes

LEMMA RunBegins ==
  ASSUME RunsOK, NEW m \in Messages, NEW g \in Gens, NEW p \in {"ttl", "failing"}, NEW s \in Seq(Entries),
         run[m].phase = "waiting",
         Becomes(m, Begun(run[m], g, p, s))
  PROVE  RunsOK' /\ Others(m) /\ run'[m] = Begun(run[m], g, p, s)
<1> DEFINE r == Begun(run[m], g, p, s)
<1>1. run[m] \in RunRecords
  BY DEF RunsOK
<1>3. r \in RunRecords
  BY <1>1 DEF Begun, RunRecords, Phases, Over, Evicting
<1>4. r.gen \in Gens /\ (r.busy => r.phase \in Evicting /\ r.victims # <<>>)
  BY <1>1 DEF Begun, RunsOK, RunRecords, Evicting
<1> HIDE DEF r
<1>5. RunsOK' /\ Others(m) /\ run'[m] = r
  BY <1>3, <1>4, RunChanges DEF r
<1> QED BY <1>5 DEF r

LEMMA RunIsServed ==
  ASSUME RunsOK, NEW m \in Messages, NEW g \in Gens, NEW s \in Messages, run[m].phase = "waiting",
         Becomes(m, Served(run[m], g, s))
  PROVE  RunsOK' /\ Others(m) /\ run'[m] = Served(run[m], g, s)
<1> DEFINE r == Served(run[m], g, s)
<1>1. run[m] \in RunRecords
  BY DEF RunsOK
<1>3. r \in RunRecords
  BY <1>1 DEF Served, RunRecords, Phases, Over, Evicting
<1>4. r.gen \in Gens /\ (r.busy => r.phase \in Evicting /\ r.victims # <<>>)
  BY <1>1 DEF Served, RunsOK, RunRecords, Evicting
<1> HIDE DEF r
<1>5. RunsOK' /\ Others(m) /\ run'[m] = r
  BY <1>3, <1>4, RunChanges DEF r
<1> QED BY <1>5 DEF r

LEMMA RunFindsNoStore ==
  ASSUME RunsOK, NEW m \in Messages, NEW g \in Gens, run[m].phase = "waiting",
         Becomes(m, Unserved(run[m], g))
  PROVE  RunsOK' /\ Others(m) /\ run'[m] = Unserved(run[m], g)
<1> DEFINE r == Unserved(run[m], g)
<1>1. run[m] \in RunRecords
  BY DEF RunsOK
<1>3. r \in RunRecords
  BY <1>1 DEF Unserved, RunRecords, Phases
<1>4. r.gen \in Gens /\ (r.busy => r.phase \in Evicting /\ r.victims # <<>>)
  BY <1>1 DEF Unserved, RunsOK, RunRecords, Evicting
<1> HIDE DEF r
<1>5. RunsOK' /\ Others(m) /\ run'[m] = r
  BY <1>3, <1>4, RunChanges DEF r
<1> QED BY <1>5 DEF r

LEMMA RunDisposes ==
  ASSUME RunsOK, NEW m \in Messages, run[m].phase \in Evicting, run[m].victims # <<>>,
         Becomes(m, Disposing(run[m]))
  PROVE  RunsOK' /\ Others(m) /\ run'[m] = Disposing(run[m])
<1> DEFINE r == Disposing(run[m])
<1>1. run[m] \in RunRecords
  BY DEF RunsOK
<1>3. r \in RunRecords
  BY <1>1 DEF Disposing, RunRecords, Phases, Over, Evicting
<1>4. r.gen \in Gens /\ (r.busy => r.phase \in Evicting /\ r.victims # <<>>)
  BY <1>1 DEF Disposing, RunsOK, RunRecords, Evicting
<1> HIDE DEF r
<1>5. RunsOK' /\ Others(m) /\ run'[m] = r
  BY <1>3, <1>4, RunChanges DEF r
<1> QED BY <1>5 DEF r

LEMMA RunMovesOn ==
  ASSUME RunsOK, NEW m \in Messages, run[m].phase \in Evicting, run[m].victims # <<>>,
         Becomes(m, Advanced(run[m]))
  PROVE  RunsOK' /\ Others(m) /\ run'[m] = Advanced(run[m])
<1> DEFINE r == Advanced(run[m])
<1>1. run[m] \in RunRecords
  BY DEF RunsOK
<1>2. Tail(run[m].victims) \in Seq(Entries)
  BY <1>1, HeadElements DEF RunRecords
<1>3. r \in RunRecords
  BY <1>1, <1>2 DEF Advanced, RunRecords, Phases, Over, Evicting
<1>4. r.gen \in Gens /\ (r.busy => r.phase \in Evicting /\ r.victims # <<>>)
  BY <1>1 DEF Advanced, RunsOK, RunRecords, Evicting
<1> HIDE DEF r
<1>5. RunsOK' /\ Others(m) /\ run'[m] = r
  BY <1>3, <1>4, RunChanges DEF r
<1> QED BY <1>5 DEF r

LEMMA RunMakesRoom ==
  ASSUME RunsOK, NEW m \in Messages, NEW s \in Seq(Entries), NEW C \in SUBSET Conversations,
         run[m].phase = "ttl", run[m].victims = <<>>,
         Becomes(m, Crowded(run[m], s, C))
  PROVE  RunsOK' /\ Others(m) /\ run'[m] = Crowded(run[m], s, C)
<1> DEFINE r == Crowded(run[m], s, C)
<1>1. run[m] \in RunRecords
  BY DEF RunsOK
<1>3. r \in RunRecords
  BY <1>1 DEF Crowded, RunRecords, Phases, Over, Evicting
<1>4. r.gen \in Gens /\ (r.busy => r.phase \in Evicting /\ r.victims # <<>>)
  BY <1>1 DEF Crowded, RunsOK, RunRecords, Evicting
<1> HIDE DEF r
<1>5. RunsOK' /\ Others(m) /\ run'[m] = r
  BY <1>3, <1>4, RunChanges DEF r
<1> QED BY <1>5 DEF r

LEMMA RunHasRoom ==
  ASSUME RunsOK, NEW m \in Messages, run[m].phase = "lru", ~run[m].busy,
         Becomes(m, Roomy(run[m]))
  PROVE  RunsOK' /\ Others(m) /\ run'[m] = Roomy(run[m])
<1> DEFINE r == Roomy(run[m])
<1>1. run[m] \in RunRecords
  BY DEF RunsOK
<1>2. <<>> \in Seq(Entries)
  OBVIOUS
<1>3. r \in RunRecords
  BY <1>1, <1>2 DEF Roomy, RunRecords, Phases, Over, Evicting
<1>4. r.gen \in Gens /\ (r.busy => r.phase \in Evicting /\ r.victims # <<>>)
  BY <1>1 DEF Roomy, RunsOK, RunRecords, Evicting
<1> HIDE DEF r
<1>5. RunsOK' /\ Others(m) /\ run'[m] = r
  BY <1>3, <1>4, RunChanges DEF r
<1> QED BY <1>5 DEF r

LEMMA RunGoes ==
  ASSUME RunsOK, NEW m \in Messages, run[m].phase # "waiting", ~run[m].busy,
         NEW p \in Phases,
         Becomes(m, Gone(run[m], p))
  PROVE  RunsOK' /\ Others(m) /\ run'[m] = Gone(run[m], p)
<1> DEFINE r == Gone(run[m], p)
<1>1. run[m] \in RunRecords
  BY DEF RunsOK
<1>3. r \in RunRecords
  BY <1>1 DEF Gone, RunRecords, Phases, Over, Evicting
<1>4. r.gen \in Gens /\ (r.busy => r.phase \in Evicting /\ r.victims # <<>>)
  BY <1>1 DEF Gone, RunsOK, RunRecords, Evicting
<1> HIDE DEF r
<1>5. RunsOK' /\ Others(m) /\ run'[m] = r
  BY <1>3, <1>4, RunChanges DEF r
<1> QED BY <1>5 DEF r

LEMMA RunAwaits ==
  ASSUME RunsOK, NEW m \in Messages, NEW P \in SUBSET Messages, run[m].phase = "directory",
         Becomes(m, Patient(run[m], P))
  PROVE  RunsOK' /\ Others(m) /\ run'[m] = Patient(run[m], P)
<1> DEFINE r == Patient(run[m], P)
<1>1. run[m] \in RunRecords
  BY DEF RunsOK
<1>3. r \in RunRecords
  BY <1>1 DEF Patient, RunRecords, Phases, Over, Evicting
<1>4. r.gen \in Gens /\ (r.busy => r.phase \in Evicting /\ r.victims # <<>>)
  BY <1>1 DEF Patient, RunsOK, RunRecords, Evicting
<1> HIDE DEF r
<1>5. RunsOK' /\ Others(m) /\ run'[m] = r
  BY <1>3, <1>4, RunChanges DEF r
<1> QED BY <1>5 DEF r

LEMMA RunHasSession ==
  ASSUME RunsOK, NEW m \in Messages, run[m].phase = "creating",
         Becomes(m, Prompted(run[m], m))
  PROVE  RunsOK' /\ Others(m) /\ run'[m] = Prompted(run[m], m)
<1> DEFINE r == Prompted(run[m], m)
<1>1. run[m] \in RunRecords
  BY DEF RunsOK
<1>3. r \in RunRecords
  BY <1>1 DEF Prompted, RunRecords, Phases, Over, Evicting
<1>4. r.gen \in Gens /\ (r.busy => r.phase \in Evicting /\ r.victims # <<>>)
  BY <1>1 DEF Prompted, RunsOK, RunRecords, Evicting
<1> HIDE DEF r
<1>5. RunsOK' /\ Others(m) /\ run'[m] = r
  BY <1>3, <1>4, RunChanges DEF r
<1> QED BY <1>5 DEF r

LEMMA RunEnds ==
  ASSUME RunsOK, NEW m \in Messages, run[m].phase \in {"prompting", "failing"},
         NEW p \in Over, NEW e \in BOOLEAN, NEW t \in BOOLEAN, NEW k \in Nat,
         Becomes(m, Finished(run[m], p, e, t, k))
  PROVE  RunsOK' /\ Others(m) /\ run'[m] = Finished(run[m], p, e, t, k)
<1> DEFINE r == Finished(run[m], p, e, t, k)
<1>1. run[m] \in RunRecords
  BY DEF RunsOK
<1>3. r \in RunRecords
  BY <1>1 DEF Finished, RunRecords, Phases, Over, Evicting
<1>4. r.gen \in Gens /\ (r.busy => r.phase \in Evicting /\ r.victims # <<>>)
  BY <1>1 DEF Finished, RunsOK, RunRecords, Evicting
<1> HIDE DEF r
<1>5. RunsOK' /\ Others(m) /\ run'[m] = r
  BY <1>3, <1>4, RunChanges DEF r
<1> QED BY <1>5 DEF r

LEMMA RunsResume ==
  ASSUME RunsOK, NEW p \in Messages, NEW to \in {"creating", "failing"}, Resume(p, to)
  PROVE  /\ RunsOK'
         /\ \A n \in Messages :
              run'[n] = IF n \in Waiting(p) THEN Resumed(run[n], to) ELSE run[n]
<1>1. \A n \in Messages : run[n] \in RunRecords
  BY DEF RunsOK
<1>2. ASSUME NEW n \in Messages
      PROVE  Resumed(run[n], to) \in RunRecords
  <2>1. run[n] \in RunRecords
    BY <1>1
  <2> QED BY <2>1 DEF Resumed, RunRecords, Phases
<1>3. \A n \in Messages :
        run'[n] = IF n \in Waiting(p) THEN Resumed(run[n], to) ELSE run[n]
  BY DEF Resume, Resumed
<1>4. run' = [n \in Messages |-> IF n \in Waiting(p) THEN Resumed(run[n], to) ELSE run[n]]
  BY DEF Resume, Resumed
<1>5. run' \in [Messages -> RunRecords]
  BY <1>1, <1>2, <1>4
<1>6. ASSUME NEW n \in Messages
      PROVE  /\ run'[n].phase # "waiting" => run'[n].gen \in Gens
             /\ run'[n].busy => run'[n].phase \in Evicting /\ run'[n].victims # <<>>
  <2>1. CASE n \in Waiting(p)
    BY <1>1, <1>3, <2>1, ZenonT(60) DEF RunsOK, RunRecords, Resumed, Waiting, Evicting
  <2>2. CASE n \notin Waiting(p)
    BY <1>3, <2>2 DEF RunsOK
  <2> QED BY <2>1, <2>2
<1> QED BY <1>3, <1>5, <1>6 DEF RunsOK

-----------------------------------------------------------------------------
(* The cache and the types, step by step.                                    *)

LEMMA TouchCache ==
  ASSUME CacheOK, NEW g \in Gens, NEW e \in Entries, Touch(g, e)
  PROVE  /\ cache' \in [Gens -> Caches]
         /\ ToSet(cache'[g]) = {x \in ToSet(cache[g]) : x.conv # e.conv} \cup {e}
         /\ \A h \in Gens : h # g => cache'[h] = cache[h]
<1> DEFINE w == Without(cache[g], e.conv)
<1>1. cache[g] \in Caches
  BY DEF CacheOK
<1>2. w \in Caches /\ ToSet(w) = {x \in ToSet(cache[g]) : x.conv # e.conv}
  BY <1>1, WithoutElements
<1>3. cache' = [cache EXCEPT ![g] = Append(w, e)]
  BY DEF Touch
<1> HIDE DEF w
<1>4. Append(w, e) \in Caches /\ ToSet(Append(w, e)) = ToSet(w) \cup {e}
  BY <1>2, Appended
<1>5. cache'[g] = Append(w, e)
  BY <1>3 DEF CacheOK
<1> QED BY <1>2, <1>3, <1>4, <1>5 DEF CacheOK

(***************************************************************************)
(* What no step does: a run that has begun keeps its generation, one that  *)
(* is over does not change, and one that had a store and ends has reported.*)
(***************************************************************************)
Reported == {"ended", "aborted"}

Settled(n) ==
  /\ IF run[n].phase = "waiting" THEN run'[n].phase \notin Reported
     ELSE run'[n].gen = run[n].gen /\ run'[n].phase # "waiting"
  /\ run[n].phase \in Over => run'[n] = run[n]
  /\ run'[n].phase \notin Reported => run'[n].completed = run[n].completed
  /\ (run'[n].phase \in Reported /\ run[n].phase \notin Over) =>
       /\ run'[n].completed = IF run'[n].phase = "ended" THEN 1 ELSE 0
       /\ (run'[n].phase = "ended" /\ run'[n].error /\ ~run'[n].told) => Stopping(n)

\* The runs that wait for the resources are the same, and wait for the same.
Undisturbed ==
  \A n \in Messages :
    /\ run'[n].phase = "resources" <=> run[n].phase = "resources"
    /\ run[n].phase = "resources" => run'[n].awaits = run[n].awaits

Kept == (\A n \in Messages : Settled(n)) /\ stopping \subseteq stopping'

LEMMA KeptByOthers ==
  ASSUME NEW m \in Messages, Others(m), Settled(m), UNCHANGED stopping
  PROVE  Kept
BY DEF Others, Settled, Kept, Over, Reported

LEMMA UndisturbedByOthers ==
  ASSUME NEW m \in Messages, Others(m),
         run[m].phase # "resources", run'[m].phase # "resources"
  PROVE  Undisturbed
BY DEF Others, Undisturbed

\* A step of one run that waits for no resources.
LEMMA OneRunStep ==
  ASSUME MonitorOK, NEW m \in Messages, RunsOK', Others(m), Settled(m),
         run[m].phase # "resources", run'[m].phase # "resources",
         UNCHANGED monitorVars, CacheOK', ResourcesOK'
  PROVE  AllTypes' /\ Kept /\ Undisturbed
<1>1. MonitorOK' /\ UNCHANGED stopping
  BY DEF MonitorOK, monitorVars
<1> QED BY <1>1, KeptByOthers, UndisturbedByOthers DEF AllTypes

LEMMA StartsTypes ==
  ASSUME AllTypes, NEW g \in Gens, NEW m \in Messages, Starts(g, m)
  PROVE  AllTypes' /\ Kept /\ Undisturbed
<1>0. run[m].phase = "waiting" /\ run[m] \in RunRecords /\ RunsOK
  BY DEF AllTypes, RunsOK, Starts, StartStoreless, StartRefused, StartCached, StartWithoutSession,
     StartingServed, Starting
<1>4. CASE StartStoreless(g, m)
  <2>1. Becomes(m, Unserved(run[m], g))
    BY <1>0, <1>4 DEF StartStoreless, Becomes, Unserved, RunsOK, RunRecords
  <2>2. RunsOK' /\ Others(m) /\ run'[m] = Unserved(run[m], g)
    BY <1>0, <2>1, RunFindsNoStore
  <2>3. Settled(m) /\ run'[m].phase # "resources"
    BY <1>0, <2>2 DEF Settled, Unserved, RunRecords, Over, Reported
  <2>4. UNCHANGED <<monitorVars, sessionVars, resources>>
    BY <1>4 DEF StartStoreless
  <2> QED BY <1>0, <2>2, <2>3, <2>4, OneRunStep
       DEF AllTypes, CacheOK, ResourcesOK, sessionVars, resources
<1>1. CASE StartRefused(g, m)
  <2>1. <<>> \in Seq(Entries) /\ Becomes(m, Begun(run[m], g, "failing", <<>>))
    BY <1>0, <1>1 DEF StartRefused, Begins, Becomes, Begun, RunsOK, RunRecords
  <2>2. RunsOK' /\ Others(m) /\ run'[m] = Begun(run[m], g, "failing", <<>>)
    BY <1>0, <2>1, RunBegins
  <2>3. Settled(m) /\ run'[m].phase # "resources"
    BY <1>0, <2>2 DEF Settled, Begun, RunRecords, Over, Reported
  <2>4. UNCHANGED <<monitorVars, sessionVars, resources>>
    BY <1>1 DEF StartRefused
  <2> QED BY <1>0, <2>2, <2>3, <2>4, OneRunStep
       DEF AllTypes, CacheOK, ResourcesOK, sessionVars, resources
<1>2. CASE StartCached(g, m)
  <2>1. PICK e \in EntryOf(g, ConvOf[m]) :
          /\ Touch(g, e)
          /\ run' = [run EXCEPT ![m].gen = g, ![m].phase = "prompting",
                                ![m].session = {e.session}]
    BY <1>2 DEF StartCached
  <2>2. e \in Entries /\ e.session \in Messages
    <3>1. cache[g] \in Seq(Entries)
      BY DEF AllTypes, CacheOK, Caches
    <3> QED BY <3>1, Elements DEF EntryOf, Entries
  <2>3. Becomes(m, Served(run[m], g, e.session))
    BY <1>0, <2>1 DEF Becomes, Served, RunsOK, RunRecords
  <2>4. RunsOK' /\ Others(m) /\ run'[m] = Served(run[m], g, e.session)
    BY <1>0, <2>2, <2>3, RunIsServed
  <2>5. Settled(m) /\ run'[m].phase # "resources"
    BY <1>0, <2>4 DEF Settled, Served, RunRecords, Over, Reported
  <2>6. UNCHANGED <<monitorVars, live, resources>>
    BY <1>2 DEF StartCached
  <2>7. CacheOK'
    BY <2>1, <2>2, <2>6, TouchCache DEF AllTypes, CacheOK
  <2> QED BY <1>0, <2>4, <2>5, <2>6, <2>7, OneRunStep
       DEF AllTypes, ResourcesOK, resources
<1>3. CASE StartWithoutSession(g, m)
  <2>1. PICK k \in 0..Len(cache[g]) : Begins(g, m, "ttl", SubSeq(cache[g], 1, k))
    BY <1>3 DEF StartWithoutSession
  <2> DEFINE s == SubSeq(cache[g], 1, k)
  <2>2. s \in Seq(Entries)
    BY PrefixElements DEF AllTypes, CacheOK, Caches
  <2> HIDE DEF s
  <2>3. Becomes(m, Begun(run[m], g, "ttl", s))
    BY <1>0, <2>1 DEF s, Begins, Becomes, Begun, RunsOK, RunRecords
  <2>4. RunsOK' /\ Others(m) /\ run'[m] = Begun(run[m], g, "ttl", s)
    BY <1>0, <2>2, <2>3, RunBegins
  <2>5. Settled(m) /\ run'[m].phase # "resources"
    BY <1>0, <2>4 DEF Settled, Begun, RunRecords, Over, Reported
  <2>6. UNCHANGED <<monitorVars, sessionVars, resources>>
    BY <1>3 DEF StartWithoutSession
  <2> QED BY <1>0, <2>4, <2>5, <2>6, OneRunStep
       DEF AllTypes, CacheOK, ResourcesOK, sessionVars, resources
<1> QED BY <1>1, <1>2, <1>3, <1>4 DEF Starts

LEMMA EvictsTypes ==
  ASSUME AllTypes, NEW m \in Messages, Evicts(m)
  PROVE  AllTypes' /\ Kept /\ Undisturbed
<1>0. run[m] \in RunRecords /\ RunsOK /\ CacheOK /\ run[m].victims \in Seq(Entries)
  BY DEF AllTypes, RunsOK, RunRecords
<1>1. CASE Dispose(m)
  <2>1. Becomes(m, Disposing(run[m])) /\ run[m].phase \in Evicting /\ run[m].victims # <<>>
    BY <1>0, <1>1 DEF Dispose, Doomed, Becomes, Disposing
  <2>2. RunsOK' /\ Others(m) /\ run'[m] = Disposing(run[m])
    BY <1>0, <2>1, RunDisposes
  <2>3. Settled(m) /\ run[m].phase # "resources" /\ run'[m].phase # "resources"
    BY <1>0, <2>1, <2>2 DEF Settled, Disposing, RunRecords, Over, Reported, Evicting
  <2>4. CacheOK' /\ UNCHANGED <<monitorVars, resources>>
    BY <1>0, <1>1 DEF Dispose, CacheOK
  <2> QED BY <2>2, <2>3, <2>4, OneRunStep DEF AllTypes, ResourcesOK, resources
<1>2. CASE DisposeEnds(m)
  <2>1. run[m].phase \in Evicting /\ run[m].victims # <<>>
    BY <1>0, <1>2 DEF DisposeEnds, RunsOK
  <2>2. Becomes(m, Advanced(run[m]))
    BY <1>0, <1>2 DEF DisposeEnds, Becomes, Advanced, RunsOK, RunRecords
  <2>3. RunsOK' /\ Others(m) /\ run'[m] = Advanced(run[m])
    BY <1>0, <2>1, <2>2, RunMovesOn
  <2>4. Settled(m) /\ run[m].phase # "resources" /\ run'[m].phase # "resources"
    BY <1>0, <2>1, <2>3 DEF Settled, Advanced, RunRecords, Over, Reported, Evicting
  <2>5. UNCHANGED <<monitorVars, live, resources>>
    BY <1>2 DEF DisposeEnds
  <2>6. CacheOK'
    <3>1. \A g \in Gens : Without(cache[g], Victim(m).conv) \in Caches
      BY <1>0, WithoutElements DEF CacheOK
    <3> QED BY <1>0, <1>2, <2>5, <3>1 DEF DisposeEnds, CacheOK
  <2> QED BY <2>3, <2>4, <2>5, <2>6, OneRunStep DEF AllTypes, ResourcesOK, resources
<1>3. CASE Spare(m)
  <2>1. run[m].phase \in Evicting /\ run[m].victims # <<>> /\ ~run[m].busy
    BY <1>0, <1>3 DEF Spare
  <2>2. Becomes(m, Advanced(run[m]))
    BY <1>0, <1>3, <2>1 DEF Spare, Becomes, Advanced, RunsOK, RunRecords
  <2>3. RunsOK' /\ Others(m) /\ run'[m] = Advanced(run[m])
    BY <1>0, <2>1, <2>2, RunMovesOn
  <2>4. Settled(m) /\ run[m].phase # "resources" /\ run'[m].phase # "resources"
    BY <1>0, <2>1, <2>3 DEF Settled, Advanced, RunRecords, Over, Reported, Evicting
  <2>5. UNCHANGED <<monitorVars, sessionVars, resources>>
    BY <1>3 DEF Spare
  <2> QED BY <2>3, <2>4, <2>5, OneRunStep
       DEF AllTypes, CacheOK, ResourcesOK, sessionVars, resources
<1>4. CASE MakeRoom(m)
  <2> DEFINE g == run[m].gen
             C == {c \in Conversations : Preserved(m, c)}
  <2>1. run[m].phase = "ttl" /\ run[m].victims = <<>> /\ ~run[m].busy
    BY <1>0, <1>4 DEF MakeRoom, RunsOK
  <2>2. cache[g] \in Seq(Entries)
    BY <1>0, <2>1 DEF RunsOK, CacheOK, Caches
  <2>3. CASE Full(g)
    <3>1. Becomes(m, Crowded(run[m], cache[g], C))
      BY <1>0, <1>4, <2>3 DEF MakeRoom, Becomes, Crowded, RunsOK, RunRecords
    <3> HIDE DEF C
    <3>2. C \in SUBSET Conversations
      BY DEF C
    <3>3. RunsOK' /\ Others(m) /\ run'[m] = Crowded(run[m], cache[g], C)
      BY <1>0, <2>1, <2>2, <3>1, <3>2, RunMakesRoom
    <3>4. Settled(m) /\ run'[m].phase # "resources"
      BY <1>0, <2>1, <3>3 DEF Settled, Crowded, RunRecords, Over, Reported
    <3>5. UNCHANGED <<monitorVars, sessionVars, resources>>
      BY <1>4 DEF MakeRoom
    <3> QED BY <2>1, <3>3, <3>4, <3>5, OneRunStep
         DEF AllTypes, CacheOK, ResourcesOK, sessionVars, resources
  <2>4. CASE ~Full(g)
    <3>1. Becomes(m, Gone(run[m], "directory")) /\ "directory" \in Phases
      BY <1>0, <1>4, <2>4 DEF MakeRoom, Goes, Becomes, Gone, Phases
    <3>2. RunsOK' /\ Others(m) /\ run'[m] = Gone(run[m], "directory")
      BY <1>0, <2>1, <3>1, RunGoes
    <3>3. Settled(m) /\ run'[m].phase # "resources"
      BY <1>0, <2>1, <3>2 DEF Settled, Gone, RunRecords, Over, Reported
    <3>4. UNCHANGED <<monitorVars, sessionVars, resources>>
      BY <1>4 DEF MakeRoom
    <3> QED BY <2>1, <3>2, <3>3, <3>4, OneRunStep
         DEF AllTypes, CacheOK, ResourcesOK, sessionVars, resources
  <2> QED BY <2>3, <2>4
<1>5. CASE EndEviction(m)
  <2>1. run[m].phase = "lru" /\ ~run[m].busy /\ Becomes(m, Roomy(run[m]))
    BY <1>0, <1>5 DEF EndEviction, Becomes, Roomy, RunsOK, RunRecords
  <2>2. RunsOK' /\ Others(m) /\ run'[m] = Roomy(run[m])
    BY <1>0, <2>1, RunHasRoom
  <2>3. Settled(m) /\ run'[m].phase # "resources"
    BY <1>0, <2>1, <2>2 DEF Settled, Roomy, RunRecords, Over, Reported
  <2>4. UNCHANGED <<monitorVars, sessionVars, resources>>
    BY <1>5 DEF EndEviction
  <2> QED BY <2>1, <2>2, <2>3, <2>4, OneRunStep
       DEF AllTypes, CacheOK, ResourcesOK, sessionVars, resources
<1> QED BY <1>1, <1>2, <1>3, <1>4, <1>5 DEF Evicts

LEMMA CreatesTypes ==
  ASSUME AllTypes, NEW m \in Messages, Creates(m)
  PROVE  AllTypes' /\ Kept /\ Undisturbed
<1>0. run[m] \in RunRecords /\ RunsOK /\ CacheOK /\ m \in Messages
  BY DEF AllTypes, RunsOK
<1>1. CASE CreateSession(m)
  <2> DEFINE e == [conv |-> ConvOf[m], session |-> m]
  <2>1. run[m].phase = "creating" /\ Becomes(m, Prompted(run[m], m))
    BY <1>0, <1>1 DEF CreateSession, Becomes, Prompted, RunsOK, RunRecords
  <2>2. RunsOK' /\ Others(m) /\ run'[m] = Prompted(run[m], m)
    BY <1>0, <2>1, RunHasSession
  <2>3. Settled(m) /\ run'[m].phase # "resources"
    BY <1>0, <2>1, <2>2 DEF Settled, Prompted, RunRecords, Over, Reported
  <2>4. e \in Entries /\ run[m].gen \in Gens /\ Touch(run[m].gen, e)
    BY <1>0, <1>1, <2>1, RunAssumption DEF Entries, RunsOK, CreateSession
  <2>5. CacheOK'
    BY <1>0, <1>1, <2>4, TouchCache DEF CreateSession, CacheOK
  <2> QED BY <1>1, <2>1, <2>2, <2>3, <2>5, OneRunStep
       DEF CreateSession, AllTypes, ResourcesOK, resources
<1>2. CASE CreateFails(m)
  <2>1. /\ run[m].phase \in {"directory", "creating"} /\ "failing" \in Phases
        /\ Becomes(m, Gone(run[m], "failing")) /\ ~run[m].busy
    BY <1>0, <1>2 DEF CreateFails, Goes, Becomes, Gone, RunsOK, Evicting, Phases
  <2>2. RunsOK' /\ Others(m) /\ run'[m] = Gone(run[m], "failing")
    BY <1>0, <2>1, RunGoes
  <2>3. Settled(m) /\ run[m].phase # "resources" /\ run'[m].phase # "resources"
    BY <1>0, <2>1, <2>2 DEF Settled, Gone, RunRecords, Over, Reported
  <2>4. UNCHANGED <<monitorVars, sessionVars, resources>>
    BY <1>2 DEF CreateFails
  <2> QED BY <2>2, <2>3, <2>4, OneRunStep
       DEF AllTypes, CacheOK, ResourcesOK, sessionVars, resources
<1> QED BY <1>1, <1>2 DEF Creates

(* A run ends once, and tells the user when it has failed. *)
LEMMA HowRunsEnd ==
  ASSUME NEW m \in Messages, PromptEnds(m) \/ PromptEndThrows(m) \/ ReportFailure(m)
  PROVE  /\ run[m].phase \in {"prompting", "failing"}
         /\ \E p \in Reported, e, t \in BOOLEAN, k \in Nat :
              /\ EndsRun(m, p, e, t, k)
              /\ k = IF p = "ended" THEN 1 ELSE 0
              /\ (p = "ended" /\ e /\ ~t) => Stopping(m)
         /\ UNCHANGED <<monitorVars, sessionVars, resources>>
<1> DEFINE Fine(p, e, t, k) == /\ EndsRun(m, p, e, t, k)
                               /\ k = IF p = "ended" THEN 1 ELSE 0
                               /\ (p = "ended" /\ e /\ ~t) => Stopping(m)
           Ends == \E p \in Reported, e, t \in BOOLEAN, k \in Nat : Fine(p, e, t, k)
<1>1. ASSUME EndsRun(m, "ended", TRUE, TRUE, 1) PROVE Ends
  <2>1. Fine("ended", TRUE, TRUE, 1)
    BY <1>1
  <2> HIDE DEF Fine
  <2> QED BY <2>1 DEF Reported
<1>2. ASSUME Throws(m) PROVE Ends
  <2>1. CASE Reports(m)
    BY <1>1, <2>1 DEF Reports
  <2>2. CASE EndsRun(m, "aborted", TRUE, FALSE, 0)
    <3>1. Fine("aborted", TRUE, FALSE, 0)
      BY <2>2
    <3> HIDE DEF Fine
    <3> QED BY <3>1 DEF Reported
  <2> QED BY <1>2, <2>1, <2>2 DEF Throws
<1>3. ASSUME PromptEnds(m) PROVE Ends
  <2>1. PICK text \in BOOLEAN, error \in BOOLEAN, tool \in BOOLEAN :
          EndsRun(m, "ended", error, tool \/ Answers(m, text, error, tool), 1)
    BY <1>3 DEF PromptEnds
  <2> DEFINE t == tool \/ Answers(m, text, error, tool)
  <2>2. t \in BOOLEAN
    BY DEF Answers
  <2>3. Fine("ended", error, t, 1)
    BY <2>1 DEF Answers
  <2> HIDE DEF Fine, t
  <2> QED BY <2>2, <2>3 DEF Reported
<1>4. Ends
  BY <1>1, <1>2, <1>3 DEF PromptEndThrows, ReportFailure
<1>5. /\ run[m].phase \in {"prompting", "failing"}
      /\ UNCHANGED <<monitorVars, sessionVars, resources>>
  BY DEF PromptEnds, PromptEndThrows, ReportFailure
<1> QED BY <1>4, <1>5

LEMMA EndsTypes ==
  ASSUME AllTypes, NEW m \in Messages,
         PromptEnds(m) \/ PromptEndThrows(m) \/ ReportFailure(m)
  PROVE  AllTypes' /\ Kept /\ Undisturbed
<1>0. run[m] \in RunRecords /\ RunsOK
  BY DEF AllTypes, RunsOK
<1>1. /\ run[m].phase \in {"prompting", "failing"}
      /\ UNCHANGED <<monitorVars, sessionVars, resources>>
  BY HowRunsEnd
<1>2. PICK p \in Reported, e \in BOOLEAN, t \in BOOLEAN, k \in Nat :
        /\ EndsRun(m, p, e, t, k)
        /\ k = IF p = "ended" THEN 1 ELSE 0
        /\ (p = "ended" /\ e /\ ~t) => Stopping(m)
  BY HowRunsEnd
<1>3. Becomes(m, Finished(run[m], p, e, t, k))
  BY <1>0, <1>2 DEF EndsRun, Becomes, Finished, RunsOK, RunRecords
<1>4. RunsOK' /\ Others(m) /\ run'[m] = Finished(run[m], p, e, t, k)
  BY <1>0, <1>1, <1>3, RunEnds DEF Reported, Over
<1>5. /\ run'[m].phase = p /\ run'[m].error = e /\ run'[m].told = t
      /\ run'[m].completed = k /\ run'[m].gen = run[m].gen
  BY <1>0, <1>4 DEF Finished, RunRecords
<1>6. Settled(m) /\ run[m].phase # "resources" /\ run'[m].phase # "resources"
  BY <1>1, <1>2, <1>5 DEF Settled, Over, Reported
<1> QED BY <1>1, <1>4, <1>6, OneRunStep
     DEF AllTypes, CacheOK, ResourcesOK, sessionVars, resources

(* Steps that leave the runs alone. *)
LEMMA MonitorTypes ==
  ASSUME AllTypes, UNCHANGED run, MonitorOK', CacheOK', ResourcesOK',
         stopping \subseteq stopping'
  PROVE  AllTypes' /\ Kept /\ Undisturbed
<1>1. RunsOK' /\ Undisturbed
  BY DEF AllTypes, RunsOK, Undisturbed
<1>2. Kept
  BY DEF Kept, Settled, Over, Reported
<1> QED BY <1>1, <1>2 DEF AllTypes

MonitorSteps ==
  \/ StartMonitoring \/ StopMonitoring \/ StoreRemoved \/ Reconnected
  \/ \E g \in Gens : \E how \in {"stop", "reconnect"} : CleanUp(g, how)

LEMMA MonitoringTypes ==
  ASSUME AllTypes, MonitorSteps
  PROVE  AllTypes' /\ Kept /\ Undisturbed
<1>0. MonitorOK /\ CacheOK /\ ResourcesOK /\ RunsOK /\ MaxGen \in Nat
  BY BoundsAreNat DEF AllTypes
<1>1. CASE StartMonitoring
  <2>1. MonitorOK' /\ UNCHANGED <<run, stopping>>
    BY <1>0, <1>1 DEF StartMonitoring, NewGeneration, MonitorOK, StoreStates
  <2> QED BY <1>0, <1>1, <2>1, MonitorTypes
       DEF StartMonitoring, CacheOK, ResourcesOK, sessionVars, resources
<1>2. CASE StopMonitoring \/ Reconnected
  <2>1. PICK how \in {"stop", "reconnect"} :
          /\ current # 0
          /\ stopping' = stopping \cup {current}
          /\ closing' = closing \cup {<<current, how>>}
          /\ UNCHANGED <<gens, current, sessionVars, resources, run>>
    BY <1>2 DEF StopMonitoring, Reconnected
  <2>2. current \in 1..gens
    BY <1>0, <2>1 DEF MonitorOK
  <2>4. store' \in StoreStates
    BY <1>0, <1>2 DEF StopMonitoring, Reconnected, MonitorOK, StoreStates
  <2>3. MonitorOK'
    BY <1>0, <2>1, <2>2, <2>4 DEF MonitorOK
  <2> QED BY <1>0, <2>1, <2>3, MonitorTypes DEF CacheOK, ResourcesOK, sessionVars, resources
<1>4. CASE StoreRemoved
  <2>1. MonitorOK' /\ UNCHANGED stopping
    BY <1>0, <1>4 DEF StoreRemoved, MonitorOK, StoreStates
  <2> QED BY <1>0, <1>4, <2>1, MonitorTypes
       DEF StoreRemoved, CacheOK, ResourcesOK, sessionVars, resources
<1>3. ASSUME NEW g \in Gens, NEW how \in {"stop", "reconnect"}, CleanUp(g, how)
      PROVE  AllTypes' /\ Kept /\ Undisturbed
  <2>1. MonitorOK'
    <3>1. stopping' = stopping /\ closing' \subseteq closing
      BY <1>3 DEF CleanUp
    <3>2. CASE how = "reconnect" /\ gens < MaxGen
      BY <1>0, <1>3, <3>1, <3>2 DEF CleanUp, NewGeneration, MonitorOK
    <3>3. CASE ~(how = "reconnect" /\ gens < MaxGen)
      BY <1>0, <1>3, <3>1, <3>3 DEF CleanUp, MonitorOK
    <3> QED BY <3>2, <3>3
  <2>2. CacheOK'
    BY <1>0, <1>3, EmptyCache DEF CleanUp, CacheOK
  <2> QED BY <1>3, <2>1, <2>2, MonitorTypes DEF CleanUp, ResourcesOK
<1> QED BY <1>1, <1>2, <1>3, <1>4 DEF MonitorSteps

LEMMA ResourcedTypes ==
  ASSUME AllTypes, NEW m \in Messages, Resourced(m)
  PROVE  AllTypes' /\ Kept
<1>0. run[m] \in RunRecords /\ RunsOK
  BY DEF AllTypes, RunsOK
<1>1. CASE GetResources(m)
  <2>0. run[m].phase = "directory" /\ ~run[m].busy /\ UNCHANGED <<monitorVars, sessionVars, ready>>
    BY <1>0, <1>1 DEF GetResources, RunsOK, Evicting
  <2>1. CASE ready
    <3>1. Becomes(m, Gone(run[m], "creating")) /\ "creating" \in Phases /\ UNCHANGED promise
      BY <1>0, <1>1, <2>1 DEF GetResources, Goes, Becomes, Gone, Phases
    <3>2. RunsOK' /\ Others(m) /\ run'[m] = Gone(run[m], "creating")
      BY <1>0, <2>0, <3>1, RunGoes
    <3>3. Settled(m) /\ run'[m].phase # "resources"
      BY <1>0, <2>0, <3>2 DEF Settled, Gone, RunRecords, Over, Reported
    <3> QED BY <2>0, <3>1, <3>2, <3>3, OneRunStep DEF AllTypes, CacheOK, ResourcesOK, sessionVars
  <2>2. CASE ~ready
    <3>1. promise' = IF promise = {} THEN {m} ELSE promise
      BY <1>1, <2>2 DEF GetResources
    <3>2. ResourcesOK' /\ promise' \in SUBSET Messages
      BY <2>0, <3>1 DEF AllTypes, ResourcesOK
    <3>3. Becomes(m, Patient(run[m], promise'))
      BY <1>0, <1>1, <2>2 DEF GetResources, Becomes, Patient, RunsOK, RunRecords
    <3>4. RunsOK' /\ Others(m) /\ run'[m] = Patient(run[m], promise')
      BY <1>0, <2>0, <3>2, <3>3, RunAwaits
    <3>5. Settled(m)
      BY <1>0, <2>0, <3>4 DEF Settled, Patient, RunRecords, Over, Reported
    <3> QED BY <2>0, <3>2, <3>4, <3>5, KeptByOthers
         DEF AllTypes, MonitorOK, CacheOK, monitorVars, sessionVars
  <2> QED BY <2>1, <2>2
<1>2. CASE ResourcesReady(m) \/ ResourcesFail(m)
  <2>1. PICK to \in {"creating", "failing"} :
          Resume(m, to) /\ promise' = {} /\ UNCHANGED <<monitorVars, sessionVars>>
    BY <1>2 DEF ResourcesReady, ResourcesFail
  <2>2. /\ RunsOK'
        /\ \A n \in Messages :
             run'[n] = IF n \in Waiting(m) THEN Resumed(run[n], to) ELSE run[n]
    BY <1>0, <2>1, RunsResume
  <2>3. ASSUME NEW n \in Messages PROVE Settled(n)
    <3>1. CASE n \in Waiting(m)
      <4>1. run[n] \in RunRecords /\ run[n].phase = "resources"
        BY <1>0, <3>1 DEF RunsOK, Waiting
      <4>2. run'[n] = Resumed(run[n], to)
        BY <2>2, <3>1
      <4> QED BY <4>1, <4>2 DEF Settled, Resumed, RunRecords, Over, Reported
    <3>2. CASE n \notin Waiting(m)
      BY <2>2, <3>2 DEF Settled, Over, Reported
    <3> QED BY <3>1, <3>2
  <2>4. ready' \in BOOLEAN
    BY <1>2 DEF ResourcesReady, ResourcesFail, AllTypes, ResourcesOK
  <2> QED BY <2>1, <2>2, <2>3, <2>4
       DEF Kept, AllTypes, MonitorOK, CacheOK, ResourcesOK, monitorVars, sessionVars
<1> QED BY <1>1, <1>2 DEF Resourced

(***************************************************************************)
(* Every step.                                                             *)
(***************************************************************************)
RunSteps(m) ==
  \/ \E g \in Gens : Starts(g, m)
  \/ Evicts(m) \/ Creates(m)
  \/ PromptEnds(m) \/ PromptEndThrows(m) \/ ReportFailure(m)

LEMMA StepCases ==
  ASSUME [Next]_vars
  PROVE  \/ \E m \in Messages : RunSteps(m) \/ Resourced(m)
         \/ MonitorSteps \/ UNCHANGED vars
BY DEF Next, RunSteps, MonitorSteps

LEMMA StepTypes ==
  ASSUME AllTypes, [Next]_vars
  PROVE  /\ AllTypes' /\ Kept
         /\ Undisturbed \/ \E m \in Messages : Resourced(m)
<1>1. ASSUME NEW m \in Messages, RunSteps(m)
      PROVE  AllTypes' /\ Kept /\ Undisturbed
  BY <1>1, StartsTypes, EvictsTypes, CreatesTypes, EndsTypes DEF RunSteps
<1>2. ASSUME UNCHANGED vars
      PROVE  AllTypes' /\ Kept /\ Undisturbed
  BY <1>2, MonitorTypes
     DEF vars, monitorVars, sessionVars, resources, AllTypes, MonitorOK, CacheOK, ResourcesOK
<1> QED BY <1>1, <1>2, StepCases, ResourcedTypes, MonitoringTypes

LEMMA AlwaysTyped == Spec => []AllTypes
<1>1. AllTypes /\ [Next]_vars => AllTypes'
  BY StepTypes
<1> QED BY <1>1, InitTypes, PTL DEF Spec

\* TypeOK: the sequences of entries hold one entry of a conversation, and a closing
\* generation is one that is stopping.
THEOREM TypeCorrect == Spec => []TypeOK
BY AlwaysTyped, TypeParts, PTL

-----------------------------------------------------------------------------
(* What a run reports follows from what no step does.                        *)

LEMMA Reporting ==
  ASSUME AllTypes, [Next]_vars, CompletedOnce, FailureIsTold
  PROVE  CompletedOnce' /\ FailureIsTold'
<1>1. (\A m \in Messages : Settled(m)) /\ stopping \subseteq stopping'
  BY StepTypes DEF Kept
<1>2. ASSUME NEW m \in Messages
      PROVE  run'[m].completed = IF run'[m].phase = "ended" THEN 1 ELSE 0
  BY <1>1 DEF Settled, CompletedOnce, Over, Reported
<1>3. ASSUME NEW m \in Messages,
             run'[m].phase = "ended", run'[m].error, ~run'[m].told
      PROVE  run'[m].gen \in stopping'
  <2>1. run[m].phase # "waiting" => run'[m].gen = run[m].gen
    BY <1>1 DEF Settled
  <2>2. CASE run[m].phase \in Over
    BY <1>1, <1>3, <2>2 DEF Settled, FailureIsTold, Stopping, InPhases
  <2>3. CASE run[m].phase = "waiting"
    BY <1>1, <1>3, <2>3 DEF Settled, Over, Reported
  <2>4. CASE run[m].phase \notin Over \cup {"waiting"}
    BY <1>1, <1>3, <2>1, <2>4 DEF Settled, Stopping, Over, Reported
  <2> QED BY <2>2, <2>3, <2>4
<1> QED BY <1>2, <1>3 DEF CompletedOnce, FailureIsTold, InPhases, Stopping

LEMMA InitReports == Init => CompletedOnce /\ FailureIsTold
BY DEF Init, NewRun, CompletedOnce, FailureIsTold, InPhases

\* llmResponseCompleted is committed exactly once for a run that had a store and ends,
\* whatever it ends by, and not by one that found no store or was aborted.
THEOREM RunsCompleteOnce == Spec => []CompletedOnce
<1>1. /\ Init => CompletedOnce /\ FailureIsTold
      /\ AllTypes /\ [Next]_vars /\ CompletedOnce /\ FailureIsTold
           => CompletedOnce' /\ FailureIsTold'
  BY InitReports, Reporting
<1> QED BY <1>1, AlwaysTyped, PTL DEF Spec

\* A run that had a store and failed has told the user something, unless its store was
\* stopping.
THEOREM FailuresAreTold == Spec => []FailureIsTold
<1>1. /\ Init => CompletedOnce /\ FailureIsTold
      /\ AllTypes /\ [Next]_vars /\ CompletedOnce /\ FailureIsTold
           => CompletedOnce' /\ FailureIsTold'
  BY InitReports, Reporting
<1> QED BY <1>1, AlwaysTyped, PTL DEF Spec

-----------------------------------------------------------------------------
(* The promise in the map is one of an initialisation under way.             *)
PromiseIsComing == \A p \in promise : Initialising(p)

Coming == ResourcesComing /\ PromiseIsComing

LEMMA PromiseKept ==
  ASSUME [Next]_vars, \A m \in Messages : ~Resourced(m)
  PROVE  promise' \subseteq promise
<1>1. ASSUME NEW m \in Messages, RunSteps(m) PROVE UNCHANGED resources
  <2>1. CASE \E g \in Gens : Starts(g, m)
    BY <2>1 DEF Starts, StartStoreless, StartRefused, StartCached, StartWithoutSession
  <2>2. CASE Evicts(m)
    BY <2>2 DEF Evicts, Dispose, DisposeEnds, Spare, MakeRoom, EndEviction
  <2>3. CASE Creates(m)
    BY <2>3 DEF Creates, CreateSession, CreateFails
  <2>4. CASE PromptEnds(m) \/ PromptEndThrows(m) \/ ReportFailure(m)
    BY <2>4, HowRunsEnd
  <2> QED BY <1>1, <2>1, <2>2, <2>3, <2>4 DEF RunSteps
<1>2. ASSUME MonitorSteps PROVE promise' \subseteq promise
  BY <1>2 DEF MonitorSteps, StartMonitoring, StopMonitoring, StoreRemoved, Reconnected, CleanUp, resources
<1> QED BY <1>1, <1>2, StepCases DEF vars, resources

LEMMA Initialisations ==
  ASSUME AllTypes, [Next]_vars, Coming
  PROVE  Coming'
<1>0. RunsOK /\ ResourcesOK
  BY DEF AllTypes
<1>1. CASE \A m \in Messages : ~Resourced(m)
  <2>1. Undisturbed /\ promise' \subseteq promise
    BY <1>1, StepTypes, PromiseKept
  <2>2. \A p \in Messages : Initialising(p) => Initialising(p)'
    BY <2>1 DEF Undisturbed, Initialising
  <2>3. PromiseIsComing'
    BY <1>0, <2>1, <2>2 DEF Coming, PromiseIsComing, ResourcesOK
  <2>4. ASSUME NEW m \in Messages, run'[m].phase = "resources"
        PROVE  \E p \in Messages : run'[m].awaits = {p} /\ Initialising(p)'
    <3>1. run[m].phase = "resources" /\ run'[m].awaits = run[m].awaits
      BY <2>1, <2>4 DEF Undisturbed
    <3> QED BY <2>2, <3>1 DEF Coming, ResourcesComing, InPhases
  <2> QED BY <2>3, <2>4 DEF Coming, ResourcesComing, InPhases
<1>2. ASSUME NEW m \in Messages, GetResources(m) PROVE Coming'
  <2>0. run[m].phase = "directory" /\ run[m] \in RunRecords /\ ~run[m].busy
    BY <1>0, <1>2 DEF GetResources, RunsOK, Evicting
  <2>1. CASE ready
    <3>1. Becomes(m, Gone(run[m], "creating")) /\ "creating" \in Phases /\ UNCHANGED promise
      BY <1>2, <2>1 DEF GetResources, Goes, Becomes, Gone, Phases
    <3>2. Others(m) /\ run'[m] = Gone(run[m], "creating")
      BY <1>0, <2>0, <3>1, RunGoes
    <3>3. run'[m].phase = "creating"
      BY <2>0, <3>2 DEF Gone, RunRecords
    <3>4. \A p \in Messages : Initialising(p) => Initialising(p)'
      BY <2>0, <3>2 DEF Others, Initialising
    <3>5. PromiseIsComing'
      BY <1>0, <3>1, <3>4 DEF Coming, PromiseIsComing, ResourcesOK
    <3>6. ASSUME NEW n \in Messages, run'[n].phase = "resources"
          PROVE  \E p \in Messages : run'[n].awaits = {p} /\ Initialising(p)'
      <4>1. run'[n] = run[n]
        BY <3>2, <3>3, <3>6 DEF Others
      <4> QED BY <3>4, <3>6, <4>1 DEF Coming, ResourcesComing, InPhases
    <3> QED BY <3>5, <3>6 DEF Coming, ResourcesComing, InPhases
  <2>2. CASE ~ready
    <3>1. promise' = IF promise = {} THEN {m} ELSE promise
      BY <1>2, <2>2 DEF GetResources
    <3>2. promise' \in SUBSET Messages /\ \E p \in Messages : promise' = {p}
      BY <1>0, <3>1 DEF ResourcesOK
    <3>3. Becomes(m, Patient(run[m], promise'))
      BY <1>0, <1>2, <2>2 DEF GetResources, Becomes, Patient, RunsOK, RunRecords
    <3>4. Others(m) /\ run'[m] = Patient(run[m], promise')
      BY <1>0, <2>0, <3>2, <3>3, RunAwaits
    <3>5. run'[m].phase = "resources" /\ run'[m].awaits = promise'
      BY <2>0, <3>4 DEF Patient, RunRecords
    <3>6. \A p \in Messages : Initialising(p) => Initialising(p)'
      BY <2>0, <3>4 DEF Others, Initialising
    <3>7. \A p \in promise' : p \in Messages /\ Initialising(p)'
      BY <3>1, <3>2, <3>5, <3>6 DEF Coming, PromiseIsComing, Initialising
    <3>8. ASSUME NEW n \in Messages, run'[n].phase = "resources"
          PROVE  \E p \in Messages : run'[n].awaits = {p} /\ Initialising(p)'
      <4>1. CASE n = m
        BY <3>2, <3>5, <3>7, <4>1
      <4>2. CASE n # m
        BY <3>4, <3>6, <3>8, <4>2 DEF Others, Coming, ResourcesComing, InPhases
      <4> QED BY <4>1, <4>2
    <3> QED BY <3>7, <3>8 DEF Coming, PromiseIsComing, ResourcesComing, InPhases
  <2> QED BY <2>1, <2>2
<1>3. ASSUME NEW m \in Messages, ResourcesReady(m) \/ ResourcesFail(m) PROVE Coming'
  <2>1. PICK to \in {"creating", "failing"} : Resume(m, to) /\ promise' = {}
    BY <1>3 DEF ResourcesReady, ResourcesFail
  <2>2. \A n \in Messages :
          run'[n] = IF n \in Waiting(m) THEN Resumed(run[n], to) ELSE run[n]
    BY <1>0, <2>1, RunsResume
  <2>3. \A n \in Waiting(m) : run'[n].phase # "resources"
    <3>1. SUFFICES ASSUME NEW n \in Waiting(m) PROVE run'[n].phase # "resources"
      OBVIOUS
    <3>2. n \in Messages /\ run[n] \in RunRecords /\ run'[n] = Resumed(run[n], to)
      BY <1>0, <2>2 DEF RunsOK, Waiting
    <3> QED BY <3>2 DEF Resumed, RunRecords
  <2>4. ASSUME NEW n \in Messages, run'[n].phase = "resources"
        PROVE  \E p \in Messages : run'[n].awaits = {p} /\ Initialising(p)'
    <3>1. n \notin Waiting(m) /\ run'[n] = run[n]
      BY <2>2, <2>3, <2>4
    <3>2. PICK p \in Messages : run[n].awaits = {p} /\ Initialising(p)
      BY <2>4, <3>1 DEF Coming, ResourcesComing, InPhases
    <3>3. p \notin Waiting(m)
      BY <2>4, <3>1, <3>2 DEF Waiting, Initialising
    <3> QED BY <2>2, <3>1, <3>2, <3>3 DEF Initialising
  <2> QED BY <2>1, <2>4 DEF Coming, PromiseIsComing, ResourcesComing, InPhases
<1> QED BY <1>1, <1>2, <1>3 DEF Resourced

\* A run that waits for the resources of the store waits for an initialisation that
\* is under way.
THEOREM ResourcesAlwaysComing == Spec => []ResourcesComing
<1>1. Init => Coming
  BY DEF Init, NewRun, Coming, ResourcesComing, PromiseIsComing, InPhases
<1>2. AllTypes /\ [Next]_vars /\ Coming => Coming'
  BY Initialisations
<1>3. Coming => ResourcesComing
  BY DEF Coming
<1> QED BY <1>1, <1>2, <1>3, AlwaysTyped, PTL DEF Spec

-----------------------------------------------------------------------------
(***************************************************************************)
(* Sessions, when dispose() takes no time.  An entry of a cache belongs to *)
(* a run of its generation and its conversation, a conversation has one    *)
(* run under way, and the run that looks for a session finds no entry come *)
(* up meanwhile; so a session that lives is in its cache, one in a cache   *)
(* lives, and the session of a prompt is one of them.                      *)
(***************************************************************************)
Searching   == {"ttl", "lru", "directory", "resources", "creating"}
UnderWay(n) == run[n].phase \notin Over \cup {"waiting"}

Belongs(c, s, g) == ConvOf[s] = c /\ run[s].gen = g /\ run[s].phase # "waiting"

EntriesBelong ==
  \A g \in Gens : \A e \in ToSet(cache[g]) : Belongs(e.conv, e.session, g)

PromptBelongs ==
  \A m \in Messages : run[m].phase = "prompting" =>
    \E s \in Messages : run[m].session = {s} /\ Belongs(ConvOf[m], s, run[m].gen)

OneRunEach ==
  \A m, n \in Messages :
    (UnderWay(m) /\ UnderWay(n) /\ run[m].gen = run[n].gen /\ ConvOf[m] = ConvOf[n]) => m = n

NoneYet ==
  \A m \in Messages : run[m].phase \in Searching =>
    \A e \in ToSet(cache[run[m].gen]) : e.conv # ConvOf[m]

Housed ==
  \A m \in live :
    /\ run[m].phase # "waiting"
    /\ run[m].gen \notin stopping =>
         [conv |-> ConvOf[m], session |-> m] \in ToSet(cache[run[m].gen])

EntriesLive ==
  \A g \in Gens : g \notin stopping =>
    \A e \in ToSet(cache[g]) :
      \/ e.session \in live
      \/ \E m \in Messages : run[m].busy /\ run[m].gen = g /\ Victim(m) = e

PromptsLive ==
  \A m \in Messages : run[m].phase = "prompting" =>
    run[m].session \subseteq live \/ Stopping(m)

SessionsOk ==
  /\ EntriesBelong /\ PromptBelongs /\ OneRunEach /\ NoneYet
  /\ Housed /\ EntriesLive /\ PromptsLive

(***************************************************************************)
(* An eviction is alone with the cache: the entries it has still to look   *)
(* at are those of the cache, those it spares are the active conversations,*)
(* and the session it is disposing is not alive.                           *)
(***************************************************************************)
Undivided(m) ==
  /\ \A n \in Messages : run[n].phase \in Evicting \cup {"failing"} => n = m
  /\ \A c \in closing : c[2] = "stop"

VictimsBelong(m) ==
  \A v \in ToSet(run[m].victims) :
    /\ Belongs(v.conv, v.session, run[m].gen)
    /\ \A e \in ToSet(cache[run[m].gen]) : e.conv = v.conv => e = v

SparesActive(m) == run[m].phase = "lru" => run[m].spared = Active(run[m].gen)

Rest(m) ==
  run[m].phase = "lru" =>
    \/ RoomMade(run[m].gen)
    \/ \A e \in ToSet(cache[run[m].gen]) :
         e.conv \in run[m].spared \/ e \in ToSet(run[m].victims)

DisposingGone(m) == run[m].busy => Victim(m).session \notin live

EvictionOk ==
  \A m \in Messages : run[m].phase \in Evicting =>
    /\ Undivided(m) /\ VictimsBelong(m)
    /\ SparesActive(m) /\ Rest(m) /\ DisposingGone(m)

Nobody == \A n \in Messages : run[n].phase \notin Evicting

(* When nobody evicts, nobody disposes. *)
LEMMA NobodyEvicts ==
  ASSUME RunsOK, Nobody
  PROVE  EvictionOk /\ \A n \in Messages : ~run[n].busy
BY DEF Nobody, EvictionOk, RunsOK

LEMMA AwaitsDoneNobody ==
  ASSUME "dispose" \notin Faults, AwaitsDone
  PROVE  /\ Nobody
         /\ \A n \in Messages : run[n].phase # "failing"
         /\ \A c \in closing : c[2] = "stop"
BY DEF AwaitsDone, InPhases, Nobody, Evicting

(* Conversations that are active. *)
LEMMA ActiveRuns ==
  ASSUME NEW g \in Gens, NEW c
  PROVE  c \in Active(g) <=>
           \E n \in Messages : run[n].gen = g /\ run[n].phase \notin Over /\ ConvOf[n] = c
BY DEF Active

(***************************************************************************)
(* Steps that leave the sessions alone: a run that moves has begun, and    *)
(* prompts nothing.                                                        *)
(***************************************************************************)
Drifts(n) ==
  /\ run[n].phase # "waiting" /\ run'[n].phase \notin {"waiting", "prompting"}
  /\ run'[n].gen = run[n].gen
  /\ ~run[n].busy
  /\ run'[n].phase \in Searching => run[n].phase \in Searching
  /\ run[n].phase \in Over => run'[n].phase \in Over

LEMMA DriftingRuns ==
  ASSUME AllTypes, SessionsOk, UNCHANGED <<cache, live>>, stopping \subseteq stopping',
         \A n \in Messages : run'[n] = run[n] \/ Drifts(n)
  PROVE  SessionsOk'
<1>1. \A c, s, g : s \in Messages /\ Belongs(c, s, g) => Belongs(c, s, g)'
  BY DEF Belongs, Drifts
<1>2. \A g \in Gens : \A e \in ToSet(cache[g]) : e.session \in Messages
  BY Elements DEF AllTypes, CacheOK, Caches, Entries
<1>3. EntriesBelong'
  BY <1>1, <1>2 DEF SessionsOk, EntriesBelong
<1>4. PromptBelongs'
  BY <1>1 DEF SessionsOk, PromptBelongs, Drifts
<1>5. OneRunEach'
  BY DEF SessionsOk, OneRunEach, UnderWay, Drifts
<1>6. NoneYet'
  BY DEF SessionsOk, NoneYet, Drifts
<1>7. Housed'
  BY DEF SessionsOk, Housed, Drifts, AllTypes, CacheOK
<1>8. EntriesLive'
  BY DEF SessionsOk, EntriesLive, Drifts, Victim
<1>9. PromptsLive'
  BY DEF SessionsOk, PromptsLive, Drifts, Stopping
<1> QED BY <1>3, <1>4, <1>5, <1>6, <1>7, <1>8, <1>9 DEF SessionsOk

(***************************************************************************)
(* While a run evicts, only its own eviction goes on.                      *)
(***************************************************************************)
LEMMA EvictingAlone ==
  ASSUME "dispose" \notin Faults, AllTypes, EvictionOk, [Next]_vars,
         NEW m \in Messages, run[m].phase \in Evicting
  PROVE  Evicts(m) \/ StartMonitoring \/ UNCHANGED vars
<1>1. ~AwaitsDone
  BY AwaitsDoneNobody DEF Nobody
<1>2. Undivided(m)
  BY DEF EvictionOk
<1>3. ASSUME NEW n \in Messages, RunSteps(n) \/ Resourced(n)
      PROVE  Evicts(m)
  <2>1. ~(\E g \in Gens : Starts(g, n)) /\ ~PromptEnds(n) /\ ~PromptEndThrows(n)
    BY <1>1 DEF Starts, StartStoreless, StartRefused, StartCached, StartWithoutSession,
       StartingServed, Starting,
                PromptEnds, PromptEndThrows
  <2>2. ~Resourced(n) /\ ~Creates(n)
    BY <1>1 DEF Resourced, GetResources, ResourcesReady, ResourcesFail,
                Creates, CreateSession, CreateFails
  <2>3. ~ReportFailure(n)
    BY <1>2 DEF ReportFailure, Undivided, Evicting
  <2>4. Evicts(n) => run[n].phase \in Evicting
    BY DEF Evicts, Dispose, DisposeEnds, Spare, MakeRoom, EndEviction, Doomed,
           AllTypes, RunsOK, Evicting
  <2> QED BY <1>2, <1>3, <2>1, <2>2, <2>3, <2>4 DEF RunSteps, Undivided
<1>4. ASSUME MonitorSteps PROVE StartMonitoring
  <2>1. ~StopMonitoring /\ ~StoreRemoved /\ ~Reconnected
    BY <1>1 DEF StopMonitoring, StoreRemoved, Reconnected
  <2>2. ASSUME NEW g \in Gens, NEW how \in {"stop", "reconnect"}, CleanUp(g, how)
        PROVE  FALSE
    <3>1. <<g, how>> \in closing /\ how = "reconnect"
      BY <1>1, <2>2 DEF CleanUp
    <3> QED BY <1>2, <3>1 DEF Undivided
  <2> QED BY <1>4, <2>1, <2>2 DEF MonitorSteps
<1> QED BY <1>3, <1>4, StepCases

LEMMA DisposeSessions ==
  ASSUME AllTypes, SessionsOk, EvictionOk, NEW m \in Messages, Dispose(m)
  PROVE  SessionsOk' /\ EvictionOk'
<1> DEFINE g == run[m].gen
           v == Victim(m)
<1>0. /\ run[m] \in RunRecords /\ run \in [Messages -> RunRecords] /\ g \in Gens
      /\ run[m].phase \in Evicting /\ ~run[m].busy /\ run[m].victims # <<>>
      /\ run[m].victims \in Seq(Entries)
  BY DEF AllTypes, RunsOK, RunRecords, Dispose, Doomed, Evicting
<1>1. /\ Others(m) /\ run'[m].gen = g /\ run'[m].phase = run[m].phase /\ run'[m].busy
      /\ run'[m].victims = run[m].victims /\ run'[m].spared = run[m].spared
      /\ run'[m].session = run[m].session
  BY <1>0 DEF Dispose, Others, RunRecords
<1>2. /\ live' = live \ {v.session}
      /\ UNCHANGED <<cache, stopping, closing>>
  BY DEF Dispose, monitorVars
<1>3. /\ Undivided(m) /\ VictimsBelong(m) /\ SparesActive(m) /\ Rest(m)
  BY <1>0 DEF EvictionOk
<1>4. v \in ToSet(run[m].victims) /\ v \in Entries
  BY <1>0, HeadElements, Elements DEF Victim
<1>5. /\ Belongs(v.conv, v.session, g)
      /\ \A e \in ToSet(cache[g]) : e.conv = v.conv => e = v
  BY <1>3, <1>4 DEF VictimsBelong
<1>6. \A n \in Messages : run'[n].gen = run[n].gen /\ run'[n].phase = run[n].phase
                          /\ run'[n].session = run[n].session
  BY <1>1 DEF Others
<1>7. \A c, s, h : s \in Messages => (Belongs(c, s, h)' <=> Belongs(c, s, h))
  BY <1>6 DEF Belongs
<1>8. \A h \in Gens : \A e \in ToSet(cache[h]) : e.session \in Messages
  BY Elements DEF AllTypes, CacheOK, Caches, Entries
<1>9. Victim(m)' = v
  BY <1>1 DEF Victim
<1>10. EntriesBelong'
  BY <1>2, <1>7, <1>8 DEF SessionsOk, EntriesBelong
<1>11. PromptBelongs'
  BY <1>6, <1>7 DEF SessionsOk, PromptBelongs
<1>12. OneRunEach'
  BY <1>6 DEF SessionsOk, OneRunEach, UnderWay
<1>13. NoneYet'
  BY <1>2, <1>6 DEF SessionsOk, NoneYet
<1>14. Housed'
  BY <1>2, <1>6 DEF SessionsOk, Housed, AllTypes, CacheOK
<1>15. EntriesLive'
  <2>1. SUFFICES ASSUME NEW h \in Gens, h \notin stopping, NEW e \in ToSet(cache[h])
                 PROVE  \/ e.session \in live'
                        \/ \E n \in Messages : run'[n].busy /\ run'[n].gen = h /\ Victim(n)' = e
    BY <1>2 DEF EntriesLive
  <2>2. CASE e.session \in live
    <3>1. CASE e.session = v.session
      <4>1. Belongs(e.conv, e.session, h)
        BY DEF SessionsOk, EntriesBelong
      <4>2. h = g /\ e.conv = v.conv
        BY <1>5, <3>1, <4>1 DEF Belongs
      <4> QED BY <1>1, <1>5, <1>9, <4>2
    <3>2. CASE e.session # v.session
      BY <1>2, <2>2, <3>2
    <3> QED BY <3>1, <3>2
  <2>3. CASE \E n \in Messages : run[n].busy /\ run[n].gen = h /\ Victim(n) = e
    <3>1. PICK n \in Messages : run[n].busy /\ run[n].gen = h /\ Victim(n) = e
      BY <2>3
    <3>2. run'[n] = run[n]
      BY <1>0, <1>1, <3>1 DEF Others
    <3> QED BY <3>1, <3>2 DEF Victim
  <2> QED BY <2>1, <2>2, <2>3 DEF SessionsOk, EntriesLive
<1>16. PromptsLive'
  <2>1. SUFFICES ASSUME NEW n \in Messages, run[n].phase = "prompting",
                        run[n].gen \notin stopping
                 PROVE  run[n].session \subseteq live'
    BY <1>2, <1>6 DEF PromptsLive, Stopping
  <2>2. PICK s \in Messages :
          run[n].session = {s} /\ Belongs(ConvOf[n], s, run[n].gen)
    BY <2>1 DEF SessionsOk, PromptBelongs
  <2>3. s \in live
    BY <2>1, <2>2 DEF SessionsOk, PromptsLive, Stopping
  <2>4. s # v.session
    <3>1. SUFFICES ASSUME s = v.session PROVE FALSE
      OBVIOUS
    <3>2. run[n].gen = g /\ v.conv = ConvOf[n] /\ v.conv \in Active(g)
      BY <1>0, <1>5, <2>1, <2>2, <3>1, ActiveRuns DEF Belongs, Over
    <3>3. CASE run[m].phase = "lru"
      BY <1>3, <3>2, <3>3 DEF Dispose, Doomed, SparesActive
    <3>4. CASE run[m].phase = "ttl"
      BY <3>2, <3>4 DEF Dispose, Doomed, Preserved
    <3> QED BY <1>0, <3>3, <3>4 DEF Evicting
  <2> QED BY <1>2, <2>2, <2>3, <2>4
<1>17. EvictionOk'
  <2>1. SUFFICES ASSUME NEW n \in Messages, run'[n].phase \in Evicting
                 PROVE  (/\ Undivided(n) /\ VictimsBelong(n)
                         /\ SparesActive(n) /\ Rest(n) /\ DisposingGone(n))'
    BY DEF EvictionOk
  <2>2. n = m
    BY <1>3, <1>6, <2>1 DEF Undivided
  <2>3. Undivided(m)'
    BY <1>2, <1>3, <1>6 DEF Undivided
  <2>4. VictimsBelong(m)'
    <3>1. \A w \in ToSet(run[m].victims) : w.session \in Messages
      BY <1>0, Elements DEF Entries
    <3> QED BY <1>1, <1>2, <1>3, <1>7, <3>1 DEF VictimsBelong
  <2>5. Active(g)' = Active(g)
    BY <1>6 DEF Active
  <2>6. SparesActive(m)'
    BY <1>1, <1>3, <2>5 DEF SparesActive
  <2>7. Rest(m)'
    BY <1>1, <1>2, <1>3 DEF Rest, RoomMade
  <2>8. DisposingGone(m)'
    BY <1>2, <1>9 DEF DisposingGone
  <2> QED BY <2>2, <2>3, <2>4, <2>6, <2>7, <2>8
<1> QED BY <1>10, <1>11, <1>12, <1>13, <1>14, <1>15, <1>16, <1>17 DEF SessionsOk

LEMMA DisposeEndsSessions ==
  ASSUME AllTypes, SessionsOk, EvictionOk, NEW m \in Messages, DisposeEnds(m)
  PROVE  SessionsOk' /\ EvictionOk'
<1> DEFINE g == run[m].gen
           v == Victim(m)
<1>0. /\ run[m] \in RunRecords /\ run \in [Messages -> RunRecords] /\ g \in Gens
      /\ run[m].phase \in Evicting /\ run[m].busy /\ run[m].victims # <<>>
      /\ run[m].victims \in Seq(Entries) /\ cache[g] \in Caches
  BY DEF AllTypes, RunsOK, CacheOK, RunRecords, DisposeEnds, Evicting
<1>1. /\ Others(m) /\ run'[m].gen = g /\ run'[m].phase = run[m].phase /\ ~run'[m].busy
      /\ run'[m].victims = Tail(run[m].victims) /\ run'[m].spared = run[m].spared
      /\ run'[m].session = run[m].session
  BY <1>0 DEF DisposeEnds, Others, RunRecords
<1>2. /\ cache' = [cache EXCEPT ![g] = Without(@, v.conv)]
      /\ UNCHANGED <<live, stopping, closing>>
  BY DEF DisposeEnds, monitorVars
<1>3. /\ Undivided(m) /\ VictimsBelong(m) /\ SparesActive(m) /\ Rest(m) /\ DisposingGone(m)
  BY <1>0 DEF EvictionOk
<1>4. /\ v \in ToSet(run[m].victims) /\ v \in Entries
      /\ ToSet(Tail(run[m].victims)) \subseteq ToSet(run[m].victims)
      /\ \A x \in ToSet(run[m].victims) : x = v \/ x \in ToSet(Tail(run[m].victims))
  BY <1>0, HeadElements, Elements DEF Victim
<1>5. /\ v.session \notin live
      /\ \A e \in ToSet(cache[g]) : e.conv = v.conv => e = v
  BY <1>0, <1>3, <1>4 DEF VictimsBelong, DisposingGone
<1>6. \A n \in Messages : run'[n].gen = run[n].gen /\ run'[n].phase = run[n].phase
                          /\ run'[n].session = run[n].session
  BY <1>1 DEF Others
<1>7. \A c, s, h : s \in Messages => (Belongs(c, s, h)' <=> Belongs(c, s, h))
  BY <1>6 DEF Belongs
<1>8. /\ ToSet(cache'[g]) = {e \in ToSet(cache[g]) : e.conv # v.conv}
      /\ Len(cache'[g]) <= Len(cache[g]) /\ Len(cache[g]) \in Nat /\ Len(cache'[g]) \in Nat
      /\ \A h \in Gens : h # g => cache'[h] = cache[h]
  <2>1. cache'[g] = Without(cache[g], v.conv)
    BY <1>0, <1>2 DEF AllTypes, CacheOK
  <2>2. \A s \in Caches : Len(s) \in Nat
    BY DEF Caches
  <2> QED BY <1>0, <1>2, <2>1, <2>2, WithoutElements DEF AllTypes, CacheOK
<1>9. \A h \in Gens : ToSet(cache'[h]) \subseteq ToSet(cache[h])
  BY <1>8
<1>10. \A h \in Gens : \A e \in ToSet(cache[h]) : e.session \in Messages
  BY Elements DEF AllTypes, CacheOK, Caches, Entries
<1>11. EntriesBelong'
  BY <1>7, <1>9, <1>10 DEF SessionsOk, EntriesBelong
<1>12. PromptBelongs'
  BY <1>6, <1>7 DEF SessionsOk, PromptBelongs
<1>13. OneRunEach'
  BY <1>6 DEF SessionsOk, OneRunEach, UnderWay
<1>14. NoneYet'
  <2>1. \A n \in Messages : run[n].phase \in Searching => run[n].gen \in Gens
    BY DEF AllTypes, RunsOK, Searching
  <2> QED BY <1>6, <1>9, <2>1 DEF SessionsOk, NoneYet
<1>15. Housed'
  <2>1. SUFFICES ASSUME NEW n \in live, run[n].gen \notin stopping
                 PROVE  [conv |-> ConvOf[n], session |-> n] \in ToSet(cache'[run[n].gen])
    BY <1>2, <1>6 DEF SessionsOk, Housed, AllTypes, CacheOK
  <2> DEFINE e == [conv |-> ConvOf[n], session |-> n]
  <2>2. e \in ToSet(cache[run[n].gen]) /\ run[n].gen \in Gens
    BY <2>1 DEF SessionsOk, Housed, AllTypes, CacheOK, RunsOK
  <2>3. CASE run[n].gen = g
    <3>1. e # v
      BY <1>5
    <3> QED BY <1>5, <1>8, <2>2, <2>3, <3>1
  <2>4. CASE run[n].gen # g
    BY <1>8, <2>2, <2>4
  <2> QED BY <2>3, <2>4
<1>16. EntriesLive'
  <2>1. SUFFICES ASSUME NEW h \in Gens, h \notin stopping, NEW e \in ToSet(cache'[h])
                 PROVE  \/ e.session \in live
                        \/ \E n \in Messages : run'[n].busy /\ run'[n].gen = h /\ Victim(n)' = e
    BY <1>2 DEF EntriesLive
  <2>2. CASE e.session \in live
    BY <2>2
  <2>3. CASE e.session \notin live
    <3>1. PICK n \in Messages : run[n].busy /\ run[n].gen = h /\ Victim(n) = e
      BY <1>9, <2>1, <2>3 DEF SessionsOk, EntriesLive
    <3>2. n # m
      BY <1>8, <2>1, <3>1
    <3>3. run'[n] = run[n]
      BY <1>1, <3>2 DEF Others
    <3> QED BY <3>1, <3>3 DEF Victim
  <2> QED BY <2>2, <2>3
<1>17. PromptsLive'
  BY <1>2, <1>6 DEF SessionsOk, PromptsLive, Stopping
<1>18. EvictionOk'
  <2>1. SUFFICES ASSUME NEW n \in Messages, run'[n].phase \in Evicting
                 PROVE  (/\ Undivided(n) /\ VictimsBelong(n)
                         /\ SparesActive(n) /\ Rest(n) /\ DisposingGone(n))'
    BY DEF EvictionOk
  <2>2. n = m
    BY <1>3, <1>6, <2>1 DEF Undivided
  <2>3. Undivided(m)'
    BY <1>2, <1>3, <1>6 DEF Undivided
  <2>4. VictimsBelong(m)'
    <3>1. \A w \in ToSet(run[m].victims) : w.session \in Messages
      BY <1>0, Elements DEF Entries
    <3> QED BY <1>0, <1>1, <1>3, <1>4, <1>7, <1>9, <3>1 DEF VictimsBelong
  <2>5. Active(g)' = Active(g)
    BY <1>6 DEF Active
  <2>6. SparesActive(m)'
    BY <1>1, <1>3, <2>5 DEF SparesActive
  <2>7. Rest(m)'
    <3>1. SUFFICES ASSUME run[m].phase = "lru"
                   PROVE  \/ Len(cache'[g]) <= MaxSessions - 1
                          \/ \A e \in ToSet(cache'[g]) :
                               e.conv \in run[m].spared \/ e \in ToSet(Tail(run[m].victims))
      BY <1>1 DEF Rest, RoomMade
    <3>2. CASE RoomMade(g)
      BY <1>8, <3>2, BoundsAreNat DEF RoomMade
    <3>3. CASE ~RoomMade(g)
      BY <1>3, <1>4, <1>8, <3>1, <3>3 DEF Rest
    <3> QED BY <3>2, <3>3
  <2> QED BY <1>1, <2>2, <2>3, <2>4, <2>6, <2>7 DEF DisposingGone
<1> QED BY <1>11, <1>12, <1>13, <1>14, <1>15, <1>16, <1>17, <1>18 DEF SessionsOk

(* The end of an eviction. *)
LEMMA LastEviction ==
  ASSUME EvictionOk, NEW m \in Messages, run[m].phase \in Evicting, Others(m),
         run'[m].phase \notin Evicting
  PROVE  EvictionOk'
<1>1. \A n \in Messages : run'[n].phase \notin Evicting
  BY DEF EvictionOk, Undivided, Others
<1> QED BY <1>1 DEF EvictionOk

LEMMA SpareSessions ==
  ASSUME AllTypes, SessionsOk, EvictionOk, NEW m \in Messages, Spare(m)
  PROVE  SessionsOk' /\ EvictionOk'
<1> DEFINE g == run[m].gen
           v == Victim(m)
<1>0. /\ run[m] \in RunRecords /\ run \in [Messages -> RunRecords] /\ g \in Gens
      /\ run[m].phase \in Evicting /\ ~run[m].busy /\ run[m].victims # <<>>
      /\ run[m].victims \in Seq(Entries)
  BY DEF AllTypes, RunsOK, RunRecords, Spare, Evicting
<1>1. /\ Others(m) /\ run'[m].gen = g /\ run'[m].phase = run[m].phase /\ ~run'[m].busy
      /\ run'[m].victims = Tail(run[m].victims) /\ run'[m].spared = run[m].spared
  BY <1>0 DEF Spare, Others, RunRecords
<1>2. UNCHANGED <<cache, live, stopping, closing>>
  BY DEF Spare, monitorVars, sessionVars
<1>3. SessionsOk'
  <2>1. \A n \in Messages : run'[n] = run[n] \/ Drifts(n)
    BY <1>0, <1>1 DEF Others, Drifts, Evicting, Over
  <2> QED BY <1>2, <2>1, DriftingRuns
<1>4. /\ Undivided(m) /\ VictimsBelong(m) /\ SparesActive(m) /\ Rest(m)
  BY <1>0 DEF EvictionOk
<1>5. /\ ToSet(Tail(run[m].victims)) \subseteq ToSet(run[m].victims)
      /\ \A x \in ToSet(run[m].victims) : x = v \/ x \in ToSet(Tail(run[m].victims))
  BY <1>0, HeadElements DEF Victim
<1>6. \A n \in Messages : run'[n].gen = run[n].gen /\ run'[n].phase = run[n].phase
  BY <1>1 DEF Others
<1>7. VictimsBelong(m)'
  <2>1. \A w \in ToSet(run[m].victims) : w.session \in Messages
    BY <1>0, Elements DEF Entries
  <2> QED BY <1>1, <1>2, <1>4, <1>5, <1>6, <2>1 DEF VictimsBelong, Belongs
<1>8. SparesActive(m)'
  <2>1. Active(g)' = Active(g)
    BY <1>6 DEF Active
  <2> QED BY <1>1, <1>4, <2>1 DEF SparesActive
<1>9. Rest(m)'
  <2>1. SUFFICES ASSUME run[m].phase = "lru", ~RoomMade(g), NEW e \in ToSet(cache[g])
                 PROVE  e.conv \in run[m].spared \/ e \in ToSet(Tail(run[m].victims))
    BY <1>1, <1>2 DEF Rest, RoomMade
  <2>2. v.conv \in run[m].spared
    BY <1>0, <2>1 DEF Spare, Doomed
  <2> QED BY <1>4, <1>5, <2>1, <2>2 DEF Rest
<1>10. EvictionOk'
  <2>1. Undivided(m)' /\ DisposingGone(m)'
    BY <1>1, <1>2, <1>4, <1>6 DEF Undivided, DisposingGone
  <2>2. \A n \in Messages : run'[n].phase \in Evicting => n = m
    BY <1>4, <1>6 DEF Undivided
  <2> QED BY <1>7, <1>8, <1>9, <2>1, <2>2 DEF EvictionOk
<1> QED BY <1>3, <1>10

LEMMA MakeRoomSessions ==
  ASSUME AllTypes, SessionsOk, EvictionOk, NEW m \in Messages, MakeRoom(m)
  PROVE  SessionsOk' /\ EvictionOk'
<1> DEFINE g == run[m].gen
           C == {c \in Conversations : Preserved(m, c)}
<1>0. /\ run[m] \in RunRecords /\ run \in [Messages -> RunRecords] /\ g \in Gens
      /\ run[m].phase = "ttl" /\ run[m].phase \in Evicting /\ ~run[m].busy
      /\ cache[g] \in Caches
  BY DEF AllTypes, RunsOK, CacheOK, MakeRoom, Evicting
<1>1. UNCHANGED <<cache, live, stopping, closing>>
  BY DEF MakeRoom, monitorVars, sessionVars
<1>2. CASE ~Full(g)
  <2>1. Others(m) /\ run'[m].gen = g /\ run'[m].phase = "directory"
    BY <1>0, <1>2 DEF MakeRoom, Goes, Others, RunRecords
  <2>2. \A n \in Messages : run'[n] = run[n] \/ Drifts(n)
    BY <1>0, <2>1 DEF Others, Drifts, Searching, Over
  <2> QED BY <1>0, <1>1, <2>1, <2>2, DriftingRuns, LastEviction DEF Evicting
<1>3. CASE Full(g)
  <2>1. /\ Others(m) /\ run'[m].gen = g /\ run'[m].phase = "lru" /\ ~run'[m].busy
        /\ run'[m].victims = cache[g] /\ run'[m].spared = C
    BY <1>0, <1>3 DEF MakeRoom, Others, RunRecords
  <2>2. \A n \in Messages : run'[n] = run[n] \/ Drifts(n)
    BY <1>0, <2>1 DEF Others, Drifts, Searching, Over
  <2>3. Undivided(m)
    BY <1>0 DEF EvictionOk
  <2>4. Undivided(m)' /\ \A n \in Messages : run'[n].phase \in Evicting => n = m
    BY <1>0, <1>1, <2>1, <2>3 DEF Undivided, Others, Evicting
  <2>5. VictimsBelong(m)'
    <3>1. ASSUME NEW v \in ToSet(cache[g])
          PROVE  /\ Belongs(v.conv, v.session, g)'
                 /\ \A e \in ToSet(cache[g]) : e.conv = v.conv => e = v
      <4>1. v.session \in Messages /\ Belongs(v.conv, v.session, g)
        BY <1>0, Elements DEF SessionsOk, EntriesBelong, Caches, Entries
      <4>2. Belongs(v.conv, v.session, g)'
        BY <2>2, <4>1 DEF Belongs, Drifts
      <4> QED BY <1>0, <4>2, SameConversation
    <3> QED BY <1>1, <2>1, <3>1 DEF VictimsBelong
  <2>6. SparesActive(m)'
    <3>1. Active(g)' = Active(g)
      <4>1. \A n \in Messages :
              run'[n].gen = run[n].gen /\ (run'[n].phase \in Over <=> run[n].phase \in Over)
        BY <1>0, <2>1 DEF Others, Over
      <4> QED BY <4>1 DEF Active
    <3>2. ConvOf[m] \in Active(g) /\ Active(g) \subseteq Conversations
      BY <1>0, ActiveRuns, RunAssumption DEF Over
    <3>3. C = Active(g)
      BY <3>2 DEF Preserved
    <3> QED BY <2>1, <3>1, <3>3 DEF SparesActive
  <2>7. Rest(m)' /\ DisposingGone(m)'
    BY <1>1, <2>1 DEF Rest, DisposingGone
  <2>8. SessionsOk'
    BY <1>1, <2>2, DriftingRuns
  <2> QED BY <2>4, <2>5, <2>6, <2>7, <2>8 DEF EvictionOk
<1> QED BY <1>2, <1>3

LEMMA EndEvictionSessions ==
  ASSUME AllTypes, SessionsOk, EvictionOk, NEW m \in Messages, EndEviction(m)
  PROVE  SessionsOk' /\ EvictionOk'
<1>1. /\ run[m] \in RunRecords /\ run \in [Messages -> RunRecords]
      /\ run[m].phase = "lru" /\ ~run[m].busy
  BY DEF AllTypes, RunsOK, EndEviction
<1>2. Others(m) /\ run'[m].gen = run[m].gen /\ run'[m].phase = "directory"
  BY <1>1 DEF EndEviction, Others, RunRecords
<1>3. \A n \in Messages : run'[n] = run[n] \/ Drifts(n)
  BY <1>1, <1>2 DEF Others, Drifts, Searching, Over
<1>4. UNCHANGED <<cache, live, stopping>>
  BY DEF EndEviction, monitorVars, sessionVars
<1> QED BY <1>1, <1>2, <1>3, <1>4, DriftingRuns, LastEviction DEF Evicting

LEMMA EvictsSessions ==
  ASSUME AllTypes, SessionsOk, EvictionOk, NEW m \in Messages, Evicts(m)
  PROVE  SessionsOk' /\ EvictionOk'
BY DisposeSessions, DisposeEndsSessions, SpareSessions, MakeRoomSessions,
   EndEvictionSessions DEF Evicts

(***************************************************************************)
(* A run begins while nobody evicts, and its conversation has no other.    *)
(***************************************************************************)
LEMMA NoOtherRun ==
  ASSUME NEW g \in Gens, NEW m \in Messages, Starting(g, m)
  PROVE  /\ run[m].phase = "waiting" /\ AwaitsDone
         /\ \A n \in Messages : run[n].gen = g /\ ConvOf[n] = ConvOf[m] => run[n].phase \in Over
BY ActiveRuns DEF Starting

\* What is the same for the four ways a run begins.
LEMMA BeginningRun ==
  ASSUME AllTypes, SessionsOk, NEW g \in Gens, NEW m \in Messages, Starting(g, m),
         Others(m), run'[m].gen = g, run'[m].phase # "waiting", ~run[m].busy,
         UNCHANGED <<live, stopping>>,
         \A h \in Gens : ToSet(cache'[h]) = ToSet(cache[h])
  PROVE  /\ EntriesBelong' /\ OneRunEach' /\ Housed' /\ EntriesLive'
         /\ \A c, s, h : s \in Messages /\ Belongs(c, s, h) => Belongs(c, s, h)'
         /\ \A n \in Messages : n # m => run'[n] = run[n]
<1>0. /\ run[m].phase = "waiting"
      /\ \A n \in Messages : run[n].gen = g /\ ConvOf[n] = ConvOf[m] => run[n].phase \in Over
  BY NoOtherRun
<1>1. \A n \in Messages : n # m => run'[n] = run[n]
  BY DEF Others
<1>2. \A c, s, h : s \in Messages /\ Belongs(c, s, h) => Belongs(c, s, h)'
  BY <1>0, <1>1 DEF Belongs
<1>3. \A h \in Gens : \A e \in ToSet(cache[h]) : e.session \in Messages
  BY Elements DEF AllTypes, CacheOK, Caches, Entries
<1>4. EntriesBelong'
  BY <1>2, <1>3 DEF SessionsOk, EntriesBelong
<1>5. OneRunEach'
  BY <1>0, <1>1 DEF SessionsOk, OneRunEach, UnderWay
<1>6. Housed'
  <2>1. \A n \in live : n \in Messages /\ n # m /\ run[n].gen \in Gens
    BY <1>0 DEF SessionsOk, Housed, AllTypes, CacheOK, RunsOK
  <2> QED BY <1>1, <2>1 DEF SessionsOk, Housed
<1>7. EntriesLive'
  <2>1. SUFFICES ASSUME NEW h \in Gens, h \notin stopping, NEW e \in ToSet(cache[h]),
                        e.session \notin live
                 PROVE  \E n \in Messages : run'[n].busy /\ run'[n].gen = h /\ Victim(n)' = e
    BY DEF EntriesLive
  <2>2. PICK n \in Messages : run[n].busy /\ run[n].gen = h /\ Victim(n) = e
    BY <2>1 DEF SessionsOk, EntriesLive
  <2>3. run'[n] = run[n]
    BY <1>1, <2>2
  <2> QED BY <2>2, <2>3 DEF Victim
<1> QED BY <1>1, <1>2, <1>4, <1>5, <1>6, <1>7

LEMMA StartsSessions ==
  ASSUME "dispose" \notin Faults, AllTypes, SessionsOk,
         NEW g \in Gens, NEW m \in Messages, Starts(g, m)
  PROVE  SessionsOk' /\ EvictionOk'
<1>0. Starting(g, m)
  BY DEF Starts, StartStoreless, StartRefused, StartCached, StartWithoutSession, StartingServed
<1>1. /\ run[m].phase = "waiting" /\ AwaitsDone /\ ~run[m].busy
      /\ run[m] \in RunRecords /\ run \in [Messages -> RunRecords] /\ cache[g] \in Caches
      /\ \A n \in Messages : run[n].gen = g /\ ConvOf[n] = ConvOf[m] => run[n].phase \in Over
  BY <1>0, NoOtherRun DEF AllTypes, RunsOK, CacheOK, Evicting
<1>2. /\ \A n \in Messages : run[n].phase \notin Evicting \cup {"failing"}
      /\ \A c \in closing : c[2] = "stop"
  BY <1>1, AwaitsDoneNobody DEF Nobody
<1>3. CASE StartRefused(g, m)
  <2>1. UNCHANGED <<cache, live, stopping>>
    BY <1>3 DEF StartRefused, monitorVars, sessionVars
  <2>2. Others(m) /\ run'[m].gen = g /\ run'[m].phase = "failing"
    BY <1>1, <1>3 DEF StartRefused, Begins, Others, RunRecords
  <2>3. /\ EntriesBelong' /\ OneRunEach' /\ Housed' /\ EntriesLive'
        /\ \A c, s, h : s \in Messages /\ Belongs(c, s, h) => Belongs(c, s, h)'
        /\ \A n \in Messages : n # m => run'[n] = run[n]
    BY <1>0, <1>1, <2>1, <2>2, BeginningRun
  <2>4. PromptBelongs'
    BY <2>2, <2>3 DEF SessionsOk, PromptBelongs
  <2>5. NoneYet'
    BY <2>1, <2>2, <2>3 DEF SessionsOk, NoneYet, Searching
  <2>6. PromptsLive'
    BY <2>1, <2>2, <2>3 DEF SessionsOk, PromptsLive, Stopping
  <2>7. EvictionOk'
    BY <1>2, <2>2, <2>3 DEF EvictionOk, Evicting
  <2> QED BY <2>3, <2>4, <2>5, <2>6, <2>7 DEF SessionsOk
<1>6. CASE StartStoreless(g, m)
  <2>1. UNCHANGED <<cache, live, stopping>>
    BY <1>6 DEF StartStoreless, monitorVars, sessionVars
  <2>2. Others(m) /\ run'[m].gen = g /\ run'[m].phase = "unserved"
    BY <1>1, <1>6 DEF StartStoreless, Others, RunRecords
  <2>3. /\ EntriesBelong' /\ OneRunEach' /\ Housed' /\ EntriesLive'
        /\ \A c, s, h : s \in Messages /\ Belongs(c, s, h) => Belongs(c, s, h)'
        /\ \A n \in Messages : n # m => run'[n] = run[n]
    BY <1>0, <1>1, <2>1, <2>2, BeginningRun
  <2>4. PromptBelongs'
    BY <2>2, <2>3 DEF SessionsOk, PromptBelongs
  <2>5. NoneYet'
    BY <2>1, <2>2, <2>3 DEF SessionsOk, NoneYet, Searching
  <2>6. PromptsLive'
    BY <2>1, <2>2, <2>3 DEF SessionsOk, PromptsLive, Stopping
  <2>7. EvictionOk'
    BY <1>2, <2>2, <2>3 DEF EvictionOk, Evicting
  <2> QED BY <2>3, <2>4, <2>5, <2>6, <2>7 DEF SessionsOk
<1>4. CASE StartCached(g, m)
  <2>1. PICK e \in EntryOf(g, ConvOf[m]) :
          /\ Touch(g, e)
          /\ run' = [run EXCEPT ![m].gen = g, ![m].phase = "prompting",
                                ![m].session = {e.session}]
    BY <1>4 DEF StartCached
  <2>2. e \in ToSet(cache[g]) /\ e.conv = ConvOf[m] /\ e \in Entries /\ e.session \in Messages
    BY <1>1, Elements DEF EntryOf, Caches, Entries
  <2>3. UNCHANGED <<live, stopping>>
    BY <1>4 DEF StartCached, monitorVars
  <2>4. \A h \in Gens : ToSet(cache'[h]) = ToSet(cache[h])
    <3>1. /\ ToSet(cache'[g]) = {x \in ToSet(cache[g]) : x.conv # e.conv} \cup {e}
          /\ \A h \in Gens : h # g => cache'[h] = cache[h]
      BY <2>1, <2>2, TouchCache DEF AllTypes
    <3>2. \A x \in ToSet(cache[g]) : x.conv = e.conv => x = e
      BY <1>1, <2>2, SameConversation
    <3> QED BY <2>2, <3>1, <3>2
  <2>5. /\ Others(m) /\ run'[m].gen = g /\ run'[m].phase = "prompting"
        /\ run'[m].session = {e.session}
    BY <1>1, <2>1 DEF Others, RunRecords
  <2>6. /\ EntriesBelong' /\ OneRunEach' /\ Housed' /\ EntriesLive'
        /\ \A c, s, h : s \in Messages /\ Belongs(c, s, h) => Belongs(c, s, h)'
        /\ \A n \in Messages : n # m => run'[n] = run[n]
    BY <1>0, <1>1, <2>3, <2>4, <2>5, BeginningRun
  <2>7. PromptBelongs'
    <3>1. Belongs(ConvOf[m], e.session, g)'
      BY <2>2, <2>6 DEF SessionsOk, EntriesBelong
    <3> QED BY <2>2, <2>5, <2>6, <3>1 DEF SessionsOk, PromptBelongs
  <2>8. NoneYet'
    <3>1. \A n \in Messages : run[n].phase \in Searching => run[n].gen \in Gens
      BY DEF AllTypes, RunsOK, Searching
    <3> QED BY <2>4, <2>5, <2>6, <3>1 DEF SessionsOk, NoneYet, Searching
  <2>9. PromptsLive'
    <3>1. g \in stopping \/ e.session \in live
      <4>1. \A n \in Messages : ~run[n].busy
        BY <1>2 DEF AllTypes, RunsOK
      <4> QED BY <2>2, <4>1 DEF SessionsOk, EntriesLive
    <3> QED BY <2>3, <2>5, <2>6, <3>1 DEF SessionsOk, PromptsLive, Stopping
  <2>10. EvictionOk'
    BY <1>2, <2>5, <2>6 DEF EvictionOk, Evicting
  <2> QED BY <2>6, <2>7, <2>8, <2>9, <2>10 DEF SessionsOk
<1>5. CASE StartWithoutSession(g, m)
  <2>1. PICK k \in 0..Len(cache[g]) : Begins(g, m, "ttl", SubSeq(cache[g], 1, k))
    BY <1>5 DEF StartWithoutSession
  <2>2. UNCHANGED <<cache, live, stopping, closing>> /\ EntryOf(g, ConvOf[m]) = {}
    BY <1>5 DEF StartWithoutSession, monitorVars, sessionVars
  <2>3. /\ Others(m) /\ run'[m].gen = g /\ run'[m].phase = "ttl" /\ ~run'[m].busy
        /\ run'[m].victims = SubSeq(cache[g], 1, k)
    BY <1>1, <2>1 DEF Begins, Others, RunRecords
  <2>4. ToSet(run'[m].victims) \subseteq ToSet(cache[g])
    BY <1>1, <2>3, PrefixElements DEF Caches
  <2>5. /\ EntriesBelong' /\ OneRunEach' /\ Housed' /\ EntriesLive'
        /\ \A c, s, h : s \in Messages /\ Belongs(c, s, h) => Belongs(c, s, h)'
        /\ \A n \in Messages : n # m => run'[n] = run[n]
    BY <1>0, <1>1, <2>2, <2>3, BeginningRun
  <2>6. PromptBelongs'
    BY <2>3, <2>5 DEF SessionsOk, PromptBelongs
  <2>7. NoneYet'
    BY <2>2, <2>3, <2>5 DEF SessionsOk, NoneYet, EntryOf
  <2>8. PromptsLive'
    BY <2>2, <2>3, <2>5 DEF SessionsOk, PromptsLive, Stopping
  <2>9. EvictionOk'
    <3>1. Undivided(m)' /\ \A n \in Messages : run'[n].phase \in Evicting => n = m
      BY <1>2, <2>2, <2>5 DEF Undivided, Evicting
    <3>2. VictimsBelong(m)'
      <4>1. ASSUME NEW v \in ToSet(cache[g])
            PROVE  /\ Belongs(v.conv, v.session, g)'
                   /\ \A e \in ToSet(cache[g]) : e.conv = v.conv => e = v
        <5>1. v.session \in Messages
          BY <1>1, Elements DEF Caches, Entries
        <5>2. Belongs(v.conv, v.session, g)'
          BY <2>5, <5>1 DEF SessionsOk, EntriesBelong
        <5> QED BY <1>1, <5>2, SameConversation
      <4> QED BY <2>2, <2>3, <2>4, <4>1 DEF VictimsBelong
    <3>3. SparesActive(m)' /\ Rest(m)' /\ DisposingGone(m)'
      BY <2>3 DEF SparesActive, Rest, DisposingGone
    <3> QED BY <3>1, <3>2, <3>3 DEF EvictionOk
  <2> QED BY <2>5, <2>6, <2>7, <2>8, <2>9 DEF SessionsOk
<1> QED BY <1>3, <1>4, <1>5, <1>6 DEF Starts

(***************************************************************************)
(* The other steps of a run.                                               *)
(***************************************************************************)
\* Nobody evicts, before or after.
LEMMA NobodyStarts ==
  ASSUME Nobody, \A n \in Messages : run'[n] = run[n] \/ run'[n].phase \notin Evicting
  PROVE  EvictionOk'
BY DEF Nobody, EvictionOk

LEMMA ResourcedSessions ==
  ASSUME "dispose" \notin Faults, AllTypes, SessionsOk, NEW m \in Messages,
         Resourced(m) \/ CreateFails(m)
  PROVE  SessionsOk' /\ EvictionOk'
<1>1. Nobody
  BY AwaitsDoneNobody DEF Resourced, GetResources, ResourcesReady, ResourcesFail, CreateFails
<1>2. \A n \in Messages : run[n] \in RunRecords /\ ~run[n].busy
  BY <1>1, NobodyEvicts DEF AllTypes, RunsOK
<1>3. run \in [Messages -> RunRecords] /\ RunsOK
  BY DEF AllTypes, RunsOK
<1>4. UNCHANGED <<cache, live, stopping>>
  BY DEF Resourced, GetResources, ResourcesReady, ResourcesFail, CreateFails,
         monitorVars, sessionVars
<1>5. CASE GetResources(m) \/ CreateFails(m)
  <2>1. /\ run[m].phase \in {"directory", "creating"}
        /\ Others(m) /\ run'[m].gen = run[m].gen
        /\ run'[m].phase \in {"creating", "resources", "failing"}
    BY <1>2, <1>3, <1>5 DEF GetResources, CreateFails, Goes, Others, RunRecords
  <2>2. \A n \in Messages : run'[n] = run[n] \/ Drifts(n)
    BY <1>2, <2>1 DEF Others, Drifts, Searching, Over
  <2>3. \A n \in Messages : run'[n] = run[n] \/ run'[n].phase \notin Evicting
    BY <2>1 DEF Others, Evicting
  <2> QED BY <1>1, <1>4, <2>2, <2>3, DriftingRuns, NobodyStarts
<1>6. CASE ResourcesReady(m) \/ ResourcesFail(m)
  <2>1. PICK to \in {"creating", "failing"} : Resume(m, to)
    BY <1>6 DEF ResourcesReady, ResourcesFail
  <2>2. \A n \in Messages :
          run'[n] = IF n \in Waiting(m) THEN Resumed(run[n], to) ELSE run[n]
    BY <1>3, <2>1, RunsResume
  <2>3. ASSUME NEW n \in Messages, run'[n] # run[n]
        PROVE  Drifts(n) /\ run'[n].phase \notin Evicting
    <3>1. run[n].phase = "resources" /\ run'[n] = Resumed(run[n], to)
      BY <2>2, <2>3 DEF Waiting
    <3>2. run'[n].phase = to /\ run'[n].gen = run[n].gen
      BY <1>2, <3>1 DEF Resumed, RunRecords
    <3> QED BY <1>2, <3>1, <3>2 DEF Drifts, Searching, Over, Evicting
  <2> QED BY <1>1, <1>4, <2>3, DriftingRuns, NobodyStarts
<1> QED BY <1>5, <1>6 DEF Resourced

LEMMA EndsSessions ==
  ASSUME "dispose" \notin Faults, AllTypes, SessionsOk, EvictionOk, NEW m \in Messages,
         PromptEnds(m) \/ PromptEndThrows(m) \/ ReportFailure(m)
  PROVE  SessionsOk' /\ EvictionOk'
<1>1. Nobody
  <2>1. CASE PromptEnds(m) \/ PromptEndThrows(m)
    BY <2>1, AwaitsDoneNobody DEF PromptEnds, PromptEndThrows
  <2>2. CASE ReportFailure(m)
    BY <2>2 DEF ReportFailure, Nobody, EvictionOk, Undivided, Evicting
  <2> QED BY <2>1, <2>2
<1>2. \A n \in Messages : run[n] \in RunRecords /\ ~run[n].busy
  BY <1>1, NobodyEvicts DEF AllTypes, RunsOK
<1>3. /\ run[m].phase \in {"prompting", "failing"}
      /\ UNCHANGED <<cache, live, stopping>>
  BY HowRunsEnd DEF monitorVars, sessionVars
<1>4. PICK p \in Reported, e \in BOOLEAN, t \in BOOLEAN, k \in Nat : EndsRun(m, p, e, t, k)
  BY HowRunsEnd
<1>5. Others(m) /\ run'[m].gen = run[m].gen /\ run'[m].phase \in Over
  BY <1>2, <1>4 DEF EndsRun, Others, RunRecords, AllTypes, RunsOK, Reported, Over
<1>6. \A n \in Messages : run'[n] = run[n] \/ Drifts(n)
  BY <1>2, <1>3, <1>5 DEF Others, Drifts, Searching, Over
<1>7. \A n \in Messages : run'[n] = run[n] \/ run'[n].phase \notin Evicting
  BY <1>5 DEF Others, Evicting, Over
<1> QED BY <1>1, <1>3, <1>6, <1>7, DriftingRuns, NobodyStarts

LEMMA CreateSessions ==
  ASSUME "dispose" \notin Faults, AllTypes, SessionsOk, NEW m \in Messages, CreateSession(m)
  PROVE  SessionsOk' /\ EvictionOk'
<1> DEFINE g == run[m].gen
           e == [conv |-> ConvOf[m], session |-> m]
<1>1. Nobody
  BY AwaitsDoneNobody DEF CreateSession
<1>2. \A n \in Messages : ~run[n].busy
  BY <1>1, NobodyEvicts DEF AllTypes
<1>3. /\ run[m] \in RunRecords /\ run \in [Messages -> RunRecords]
      /\ run[m].phase = "creating" /\ g \in Gens /\ e \in Entries
  BY RunAssumption DEF AllTypes, RunsOK, CreateSession, Entries
<1>4. /\ Others(m) /\ run'[m].gen = g /\ run'[m].phase = "prompting" /\ ~run'[m].busy
      /\ run'[m].session = {m}
  BY <1>2, <1>3 DEF CreateSession, Others, RunRecords
<1>5. live' = live \cup {m} /\ UNCHANGED stopping
  BY DEF CreateSession, monitorVars
<1>6. \A x \in ToSet(cache[g]) : x.conv # e.conv
  BY <1>3 DEF SessionsOk, NoneYet, Searching
<1>7. /\ ToSet(cache'[g]) = ToSet(cache[g]) \cup {e}
      /\ \A h \in Gens : h # g => cache'[h] = cache[h]
  <2>1. /\ ToSet(cache'[g]) = {x \in ToSet(cache[g]) : x.conv # e.conv} \cup {e}
        /\ \A h \in Gens : h # g => cache'[h] = cache[h]
    BY <1>3, TouchCache DEF CreateSession, AllTypes
  <2> QED BY <1>6, <2>1
<1>8. \A c, s, h : s \in Messages /\ Belongs(c, s, h) => Belongs(c, s, h)'
  BY <1>3, <1>4 DEF Belongs, Others
<1>9. ConvOf[m] = e.conv /\ run'[m].gen = g /\ run'[m].phase # "waiting" /\ e.session = m
  BY <1>4
<1>10. EntriesBelong'
  <2>1. SUFFICES ASSUME NEW h \in Gens, NEW x \in ToSet(cache'[h])
                 PROVE  Belongs(x.conv, x.session, h)'
    BY DEF EntriesBelong
  <2>2. CASE h = g /\ x = e
    BY <1>9, <2>2 DEF Belongs
  <2>3. CASE ~(h = g /\ x = e)
    <3>1. x \in ToSet(cache[h])
      BY <1>7, <2>1, <2>3
    <3>2. x.session \in Messages
      BY <3>1, Elements DEF AllTypes, CacheOK, Caches, Entries
    <3> QED BY <1>8, <3>1, <3>2 DEF SessionsOk, EntriesBelong
  <2> QED BY <2>2, <2>3
<1>11. PromptBelongs'
  <2>1. Belongs(ConvOf[m], m, run[m].gen)'
    BY <1>9 DEF Belongs
  <2> QED BY <1>4, <1>8, <2>1 DEF SessionsOk, PromptBelongs, Others
<1>12. OneRunEach'
  BY <1>3, <1>4 DEF SessionsOk, OneRunEach, UnderWay, Others, Over
<1>13. NoneYet'
  <2>1. SUFFICES ASSUME NEW n \in Messages, run'[n].phase \in Searching,
                        NEW x \in ToSet(cache'[run'[n].gen])
                 PROVE  x.conv # ConvOf[n]
    BY DEF NoneYet
  <2>2. n # m /\ run'[n] = run[n] /\ run[n].gen \in Gens
    BY <1>4, <2>1 DEF Others, Searching, AllTypes, RunsOK
  <2>3. CASE x \in ToSet(cache[run[n].gen])
    BY <2>1, <2>2, <2>3 DEF SessionsOk, NoneYet
  <2>4. CASE x \notin ToSet(cache[run[n].gen])
    <3>1. run[n].gen = g /\ x = e
      BY <1>7, <2>1, <2>2, <2>4
    <3>2. UnderWay(n) /\ UnderWay(m)
      BY <1>3, <2>1, <2>2 DEF UnderWay, Over, Searching
    <3> QED BY <2>2, <3>1, <3>2 DEF SessionsOk, OneRunEach
  <2> QED BY <2>3, <2>4
<1>14. Housed'
  <2>1. SUFFICES ASSUME NEW n \in live'
                 PROVE  /\ run'[n].phase # "waiting"
                        /\ run'[n].gen \notin stopping =>
                             [conv |-> ConvOf[n], session |-> n] \in ToSet(cache'[run'[n].gen])
    BY <1>5 DEF Housed
  <2>2. CASE n = m
    BY <1>4, <1>7, <2>2
  <2>3. CASE n # m
    <3>1. n \in live /\ run'[n] = run[n]
      BY <1>4, <1>5, <2>1, <2>3 DEF Others, AllTypes, CacheOK
    <3>2. run[n].phase # "waiting" /\ run[n].gen \in Gens
      BY <3>1 DEF SessionsOk, Housed, AllTypes, RunsOK, CacheOK
    <3> QED BY <1>7, <3>1, <3>2 DEF SessionsOk, Housed
  <2> QED BY <2>2, <2>3
<1>15. EntriesLive'
  <2>1. SUFFICES ASSUME NEW h \in Gens, h \notin stopping, NEW x \in ToSet(cache'[h])
                 PROVE  x.session \in live'
    BY <1>5 DEF EntriesLive
  <2>2. CASE x \in ToSet(cache[h])
    BY <1>2, <1>5, <2>1, <2>2 DEF SessionsOk, EntriesLive
  <2>3. CASE x \notin ToSet(cache[h])
    BY <1>5, <1>7, <2>1, <2>3
  <2> QED BY <2>2, <2>3
<1>16. PromptsLive'
  BY <1>4, <1>5 DEF SessionsOk, PromptsLive, Stopping, Others
<1>17. EvictionOk'
  BY <1>1, <1>4, NobodyStarts DEF Others, Evicting
<1> QED BY <1>10, <1>11, <1>12, <1>13, <1>14, <1>15, <1>16, <1>17 DEF SessionsOk

(***************************************************************************)
(* Monitoring.                                                             *)
(***************************************************************************)
LEMMA CleanUpSessions ==
  ASSUME AllTypes, SessionsOk, NEW g \in Gens, NEW how, CleanUp(g, how)
  PROVE  SessionsOk'
<1>1. /\ g \in stopping
      /\ live' = live \ {e.session : e \in ToSet(cache[g])}
      /\ cache' = [cache EXCEPT ![g] = <<>>]
      /\ UNCHANGED <<stopping, run>>
  BY DEF CleanUp, AllTypes, MonitorOK
<1>2. /\ ToSet(cache'[g]) = {}
      /\ \A h \in Gens : h # g => cache'[h] = cache[h]
  BY <1>1, EmptyCache DEF AllTypes, CacheOK
<1>3. ASSUME NEW s \in Messages, NEW c, NEW h \in Gens, h # g,
             Belongs(c, s, h), s \in live
      PROVE  s \in live'
  BY <1>1, <1>3 DEF SessionsOk, EntriesBelong, Belongs
<1>4. \A h \in Gens : \A e \in ToSet(cache[h]) : e.session \in Messages
  BY Elements DEF AllTypes, CacheOK, Caches, Entries
<1>5. EntriesBelong'
  BY <1>1, <1>2 DEF SessionsOk, EntriesBelong, Belongs
<1>6. PromptBelongs' /\ OneRunEach'
  BY <1>1 DEF SessionsOk, PromptBelongs, OneRunEach, Belongs, UnderWay
<1>7. NoneYet'
  <2>1. \A n \in Messages : run[n].phase \in Searching => run[n].gen \in Gens
    BY DEF AllTypes, RunsOK, Searching
  <2> QED BY <1>1, <1>2, <2>1 DEF SessionsOk, NoneYet
<1>8. Housed'
  <2>1. \A n \in live : n \in Messages /\ run[n].phase # "waiting" /\ run[n].gen \in Gens
    BY DEF SessionsOk, Housed, AllTypes, CacheOK, RunsOK
  <2> QED BY <1>1, <1>2, <2>1 DEF SessionsOk, Housed
<1>9. EntriesLive'
  <2>1. SUFFICES ASSUME NEW h \in Gens, h \notin stopping, NEW e \in ToSet(cache[h])
                 PROVE  \/ e.session \in live'
                        \/ \E m \in Messages : run[m].busy /\ run[m].gen = h /\ Victim(m) = e
    BY <1>1, <1>2 DEF EntriesLive, Victim
  <2>2. h # g /\ Belongs(e.conv, e.session, h)
    BY <1>1, <2>1 DEF SessionsOk, EntriesBelong
  <2> QED BY <1>3, <1>4, <2>1, <2>2 DEF SessionsOk, EntriesLive
<1>10. PromptsLive'
  <2>1. SUFFICES ASSUME NEW n \in Messages, run[n].phase = "prompting",
                        run[n].gen \notin stopping
                 PROVE  run[n].session \subseteq live'
    BY <1>1 DEF PromptsLive, Stopping
  <2>2. PICK s \in Messages :
          run[n].session = {s} /\ Belongs(ConvOf[n], s, run[n].gen)
    BY <2>1 DEF SessionsOk, PromptBelongs
  <2>3. s \in live /\ run[n].gen # g /\ run[n].gen \in Gens
    BY <1>1, <2>1, <2>2 DEF SessionsOk, PromptsLive, Stopping, AllTypes, RunsOK
  <2> QED BY <1>3, <2>2, <2>3
<1> QED BY <1>5, <1>6, <1>7, <1>8, <1>9, <1>10 DEF SessionsOk

LEMMA MonitoringSessions ==
  ASSUME "dispose" \notin Faults, AllTypes, SessionsOk, EvictionOk, [Next]_vars,
         MonitorSteps
  PROVE  SessionsOk' /\ EvictionOk'
<1>1. UNCHANGED run
  BY DEF MonitorSteps, StartMonitoring, StopMonitoring, StoreRemoved, Reconnected, CleanUp
<1>2. SessionsOk'
  <2>1. CASE StartMonitoring \/ StopMonitoring \/ StoreRemoved \/ Reconnected
    <3>1. UNCHANGED <<cache, live>> /\ stopping \subseteq stopping'
      BY <2>1 DEF StartMonitoring, StopMonitoring, StoreRemoved, Reconnected, sessionVars
    <3> QED BY <1>1, <3>1, DriftingRuns
  <2> QED BY <2>1, CleanUpSessions DEF MonitorSteps
<1>3. EvictionOk'
  <2>1. CASE Nobody
    BY <1>1, <2>1, NobodyStarts
  <2>2. CASE ~Nobody
    <3>1. PICK m \in Messages : run[m].phase \in Evicting
      BY <2>2 DEF Nobody
    <3>2. StartMonitoring \/ UNCHANGED vars \/ Evicts(m)
      BY <3>1, EvictingAlone
    <3>3. UNCHANGED <<cache, live, closing, stopping>>
      <4>1. ASSUME NEW g \in Gens, NEW how \in {"stop", "reconnect"}
            PROVE  ~CleanUp(g, how)
        BY <3>1, AwaitsDoneNobody DEF CleanUp, EvictionOk, Undivided, Nobody
      <4>2. ~StopMonitoring /\ ~StoreRemoved /\ ~Reconnected
        BY <3>1, AwaitsDoneNobody DEF StopMonitoring, StoreRemoved, Reconnected, Nobody
      <4> QED BY <4>1, <4>2 DEF MonitorSteps, StartMonitoring, sessionVars
    <3> QED BY <1>1, <3>3
         DEF EvictionOk, Undivided, VictimsBelong, SparesActive, Rest, DisposingGone,
             Belongs, Active, RoomMade, Victim
  <2> QED BY <2>1, <2>2
<1> QED BY <1>2, <1>3

LEMMA SessionsInit == Init => SessionsOk /\ EvictionOk
<1> SUFFICES ASSUME Init PROVE SessionsOk /\ EvictionOk
  OBVIOUS
<1>1. /\ \A m \in Messages : run[m].phase = "waiting"
      /\ \A g \in Gens : ToSet(cache[g]) = {}
      /\ live = {}
  BY EmptyCache DEF Init, NewRun
<1>2. EntriesBelong /\ PromptBelongs /\ OneRunEach /\ NoneYet
  BY <1>1 DEF EntriesBelong, PromptBelongs, OneRunEach, NoneYet, UnderWay, Searching
<1>3. Housed /\ EntriesLive /\ PromptsLive
  BY <1>1 DEF Housed, EntriesLive, PromptsLive
<1>4. EvictionOk
  BY <1>1 DEF EvictionOk, Evicting
<1> QED BY <1>2, <1>3, <1>4 DEF SessionsOk

LEMMA SessionsStep ==
  ASSUME "dispose" \notin Faults, AllTypes, SessionsOk, EvictionOk, [Next]_vars
  PROVE  SessionsOk' /\ EvictionOk'
<1>1. ASSUME NEW m \in Messages, RunSteps(m) \/ Resourced(m)
      PROVE  SessionsOk' /\ EvictionOk'
  BY <1>1, StartsSessions, EvictsSessions, CreateSessions, ResourcedSessions, EndsSessions
     DEF RunSteps, Creates
<1>2. ASSUME UNCHANGED vars PROVE SessionsOk' /\ EvictionOk'
  <2>1. UNCHANGED <<run, cache, live, stopping, closing>>
    BY <1>2 DEF vars, monitorVars, sessionVars
  <2>2. SessionsOk'
    BY <2>1, DriftingRuns
  <2> QED BY <2>1, <2>2
       DEF EvictionOk, Undivided, VictimsBelong, SparesActive, Rest, DisposingGone,
           Belongs, Active, RoomMade, Victim
<1> QED BY <1>1, <1>2, MonitoringSessions, StepCases

LEMMA SessionsAlways ==
  ASSUME "dispose" \notin Faults
  PROVE  Spec => [](SessionsOk /\ EvictionOk)
<1>1. AllTypes /\ (SessionsOk /\ EvictionOk) /\ [Next]_vars => (SessionsOk /\ EvictionOk)'
  BY SessionsStep
<1> QED BY <1>1, SessionsInit, AlwaysTyped, PTL DEF Spec

\* The session a run is prompting is alive, or the run's state is stopping, when
\* dispose() takes no time.
THEOREM PromptsAreLive ==
  ASSUME "dispose" \notin Faults
  PROVE  Spec => []PromptIsLive
<1>1. SessionsOk => PromptIsLive
  BY DEF SessionsOk, PromptsLive, PromptIsLive, InPhases
<1> QED BY <1>1, SessionsAlways, PTL

\* No session is lost from the cache of a generation that is not stopping, when
\* dispose() takes no time.
THEOREM SessionsAreKept ==
  ASSUME "dispose" \notin Faults
  PROVE  Spec => []NoSessionLeak
<1>1. SessionsOk => NoSessionLeak
  BY DEF SessionsOk, Housed, NoSessionLeak
<1> QED BY <1>1, SessionsAlways, PTL

LEMMA RoomStep ==
  ASSUME "dispose" \notin Faults, AllTypes, EvictionOk, [Next]_vars,
         NEW m \in InPhases(Evicting), MaxSessions > 0, run'[m].phase = "directory"
  PROVE  \/ Len(cache[run[m].gen]) < MaxSessions
         \/ ConvsIn(cache[run[m].gen]) \subseteq Active(run[m].gen)
<1> DEFINE g == run[m].gen
<1>0. /\ m \in Messages /\ run[m].phase \in Evicting /\ run[m] \in RunRecords
      /\ run \in [Messages -> RunRecords] /\ g \in Gens
  BY DEF InPhases, AllTypes, RunsOK, Evicting
<1>1. cache[g] \in Seq(Entries) /\ Len(cache[g]) \in Nat
  BY <1>0 DEF AllTypes, CacheOK, Caches
<1>2. run'[m] # run[m]
  BY <1>0 DEF Evicting
<1>3. Evicts(m)
  BY <1>0, <1>2, EvictingAlone DEF StartMonitoring, vars
<1>4. CASE EndEviction(m)
  <2>1. CASE RoomMade(g)
    BY <1>1, <2>1, BoundsAreNat DEF RoomMade
  <2>2. CASE ~RoomMade(g)
    <3>1. run[m].phase = "lru" /\ run[m].victims = <<>>
      BY <1>4, <2>2 DEF EndEviction
    <3>2. ToSet(run[m].victims) = {}
      BY <3>1, EmptyCache
    <3>3. Rest(m) /\ SparesActive(m)
      BY <1>0 DEF EvictionOk
    <3>4. \A e \in ToSet(cache[g]) : e.conv \in Active(g)
      BY <2>2, <3>1, <3>2, <3>3 DEF Rest, SparesActive
    <3> QED BY <3>4 DEF ConvsIn
  <2> QED BY <2>1, <2>2
<1>5. CASE MakeRoom(m)
  <2>1. ~Full(g)
    BY <1>0, <1>5 DEF MakeRoom, RunRecords
  <2> QED BY <1>1, <2>1, BoundsAreNat DEF Full
<1>6. ASSUME Dispose(m) \/ DisposeEnds(m) \/ Spare(m) PROVE FALSE
  <2>1. run'[m].phase = run[m].phase
    BY <1>0, <1>6 DEF Dispose, DisposeEnds, Spare, RunRecords
  <2> QED BY <1>0, <2>1 DEF Evicting
<1> QED BY <1>3, <1>4, <1>5, <1>6 DEF Evicts

\* When a run has made room, the cache is below its maximum or holds sessions of
\* active conversations only, when dispose() takes no time.
THEOREM RoomIsMade ==
  ASSUME "dispose" \notin Faults
  PROVE  Spec => EvictionMakesRoom
<1>1. AllTypes /\ EvictionOk /\ [Next]_vars =>
        [\A m \in InPhases(Evicting) :
           LET g == run[m].gen IN
           (MaxSessions > 0 /\ run'[m].phase = "directory")
             => Len(cache[g]) < MaxSessions \/ ConvsIn(cache[g]) \subseteq Active(g)]_vars
  BY RoomStep
<1> QED BY <1>1, SessionsAlways, AlwaysTyped, PTL DEF Spec, EvictionMakesRoom
===============================================================================

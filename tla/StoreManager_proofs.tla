------------------------- MODULE StoreManager_proofs -------------------------
(***************************************************************************)
(* Theorems about StoreManager for every number of callers, objects,       *)
(* timers and attempts.                                                    *)
(***************************************************************************)
EXTENDS StoreManager, FiniteSetTheorems, TLAPS

(***************************************************************************)
(* Type correctness needs the budget of attempts: an armed timer can still *)
(* add one, and one is only armed while an attempt is left.                *)
(***************************************************************************)
Ceiling == MaxAttempts + MaxTimers - 1

Within(i, timers) == i.attempts + Cardinality(timers) <= Ceiling

StoreInv == TypeOK /\ (entry # 0 => Within(info[entry], armed))

(* Sets of timers are finite, and no larger than the number of timers. *)
LEMMA TimersCount ==
  ASSUME NEW T \in SUBSET Timers
  PROVE  IsFiniteSet(T) /\ Cardinality(T) \in 0..MaxTimers
<1>1. MaxTimers \in Nat \ {0}
  BY StoreBounds
<1>2. IsFiniteSet(Timers) /\ Cardinality(Timers) = MaxTimers
  BY <1>1, FS_Interval DEF Timers
<1> QED BY <1>1, <1>2, FS_Subset, FS_CardinalityType

(* The entry of the map is live, so its record has the declared type. *)
LEMMA EntryType ==
  ASSUME TypeOK, entry # 0
  PROVE  entry \in LiveEntries /\ entry \in Entries /\ info[entry] \in Info
BY DEF TypeOK, LiveEntries, Referenced

LEMMA UnusedType ==
  ASSUME NEW S, S # {}
  PROVE  Unused(S) \in S
BY DEF Unused

(* A record that a handler has changed still has the type. *)
LEMMA RecordTypes ==
  ASSUME NEW i \in Info
  PROVE  /\ Online(i) \in Info /\ Online(i).attempts = 0
         /\ Offline(i) \in Info /\ Offline(i).attempts = i.attempts
         /\ Unfollow(i) \in Info /\ Unfollow(i).attempts = i.attempts
         /\ \A n \in {"unknown", "up", "down"} :
              [i EXCEPT !.net = n] \in Info /\ [i EXCEPT !.net = n].attempts = i.attempts
         /\ \A n \in {"unknown", "synced", "pending", "stuck"} :
              [i EXCEPT !.sync = n] \in Info /\ [i EXCEPT !.sync = n].attempts = i.attempts
         /\ \A n \in {"connected", "connecting", "disconnected", "error"} :
              [i EXCEPT !.status = n] \in Info /\ [i EXCEPT !.status = n].attempts = i.attempts
         /\ [i EXCEPT !.watch = 0] \in Info /\ [i EXCEPT !.watch = 0].attempts = i.attempts
<1>1. MaxAttempts \in Nat \ {0} /\ MaxTimers \in Nat \ {0} /\ MaxStores \in Nat \ {0}
  BY StoreBounds
<1>2. \A n \in {"connected", "connecting", "disconnected", "error"} :
        [i EXCEPT !.status = n] \in Info /\ [i EXCEPT !.status = n].attempts = i.attempts
  BY <1>1 DEF Info
<1>3. \A j \in Info : [j EXCEPT !.attempts = 0] \in Info /\ [j EXCEPT !.attempts = 0].attempts = 0
  BY <1>1 DEF Info
<1>4. \A j \in Info : [j EXCEPT !.watch = 0] \in Info /\ [j EXCEPT !.watch = 0].attempts = j.attempts
  BY <1>1 DEF Info
<1>5. \A j \in Info :
        [j EXCEPT !.syncWatch = 0] \in Info /\ [j EXCEPT !.syncWatch = 0].attempts = j.attempts
  BY <1>1 DEF Info
<1>6. \A n \in {"unknown", "up", "down"} :
        [i EXCEPT !.net = n] \in Info /\ [i EXCEPT !.net = n].attempts = i.attempts
  BY <1>1 DEF Info
<1>7. \A n \in {"unknown", "synced", "pending", "stuck"} :
        [i EXCEPT !.sync = n] \in Info /\ [i EXCEPT !.sync = n].attempts = i.attempts
  BY <1>1 DEF Info
<1>8. Online(i) \in Info /\ Online(i).attempts = 0
  <2> DEFINE j == [i EXCEPT !.status = "connected"]
  <2>1. j \in Info /\ Online(i) = [j EXCEPT !.attempts = 0]
    BY <1>2 DEF Online
  <2> HIDE DEF j
  <2> QED BY <2>1, <1>3
<1>9. Unfollow(i) \in Info /\ Unfollow(i).attempts = i.attempts
  <2> DEFINE j == [i EXCEPT !.watch = 0]
  <2>1. j \in Info /\ j.attempts = i.attempts /\ Unfollow(i) = [j EXCEPT !.syncWatch = 0]
    BY <1>4 DEF Unfollow
  <2> HIDE DEF j
  <2> QED BY <2>1, <1>5
<1>10. Offline(i) \in Info /\ Offline(i).attempts = i.attempts
  BY <1>2 DEF Offline
<1>11. [i EXCEPT !.watch = 0] \in Info /\ [i EXCEPT !.watch = 0].attempts = i.attempts
  BY <1>4
<1> QED BY <1>2, <1>6, <1>7, <1>8, <1>9, <1>10, <1>11

(* Within for fewer attempts or fewer timers. *)
LEMMA WithinLess ==
  ASSUME NEW i \in Info, NEW j \in Info, NEW T \in SUBSET Timers, NEW U \in SUBSET T,
         Within(i, T), j.attempts <= i.attempts
  PROVE  Within(j, U)
<1>1. U \in SUBSET Timers
  OBVIOUS
<1>2. IsFiniteSet(T) /\ Cardinality(T) \in 0..MaxTimers /\ Cardinality(U) \in 0..MaxTimers
  BY <1>1, TimersCount
<1>3. Cardinality(U) <= Cardinality(T)
  BY <1>2, FS_Subset
<1>4. i.attempts \in Nat /\ j.attempts \in Nat /\ Ceiling \in Nat
  BY StoreBounds DEF Info, Ceiling
<1> QED BY <1>2, <1>3, <1>4 DEF Within

(* Within for a new timer: the ceiling leaves room for all of them. *)
LEMMA WithinNew ==
  ASSUME NEW i \in Info, NEW T \in SUBSET Timers, MayRetry(i)
  PROVE  Within(i, T)
<1>1. Cardinality(T) \in 0..MaxTimers
  BY TimersCount
<1>2. i.attempts \in Nat /\ i.attempts < MaxAttempts
  BY StoreBounds DEF Info, MayRetry
<1> QED BY <1>1, <1>2, StoreBounds DEF Within, Ceiling

(* A handler that writes the entry and takes away timers at most. *)
LEMMA SetInfoInv ==
  ASSUME StoreInv, entry # 0, NEW i \in Info, i.attempts <= info[entry].attempts,
         SetInfo(entry, i), mapped' \in 0..MaxTimers, armed' \subseteq armed,
         link' \in BOOLEAN, open' \subseteq open,
         call' \in [Callers -> {"idle", "add", "remove"}], shuttingDown' \in BOOLEAN,
         UNCHANGED <<entry, reconnects>>
  PROVE  StoreInv'
<1>1. entry \in LiveEntries /\ LiveEntries' = LiveEntries /\ info[entry] \in Info
  BY EntryType DEF StoreInv, LiveEntries, Referenced
<1>2. info' \in [LiveEntries' -> Info] /\ info'[entry] = i
  BY <1>1 DEF StoreInv, TypeOK, SetInfo
<1>3. TypeOK'
  BY <1>1, <1>2 DEF StoreInv, TypeOK
<1>4. Within(i, armed')
  BY <1>1, WithinLess DEF StoreInv, TypeOK
<1> QED BY <1>2, <1>3, <1>4 DEF StoreInv, Within

(* scheduleReconnect keeps the invariant. *)
LEMMA ScheduleInv ==
  ASSUME StoreInv, entry # 0, NEW i \in Info, i.attempts <= info[entry].attempts,
         Schedule(entry, i),
         UNCHANGED <<link, open, entry, reconnects, call, shuttingDown>>
  PROVE  StoreInv'
<1>1. [i EXCEPT !.status = "error"] \in Info /\ [i EXCEPT !.status = "connecting"] \in Info
      /\ [i EXCEPT !.status = "error"].attempts = i.attempts
      /\ [i EXCEPT !.status = "connecting"].attempts = i.attempts
  BY RecordTypes
<1>2. CASE UNCHANGED timerVars
  <2>1. \E j \in Info : j.attempts <= info[entry].attempts /\ SetInfo(entry, j)
    BY <1>1, <1>2 DEF Schedule, timerVars
  <2> QED BY <1>2, <2>1, SetInfoInv DEF StoreInv, TypeOK, timerVars
<1>3. CASE /\ mapped = 0 /\ MayRetry(i)
           /\ FreeTimers # {}
           /\ SetInfo(entry, [i EXCEPT !.status = "connecting"])
           /\ mapped' = Unused(FreeTimers)
           /\ armed' = armed \cup {mapped'}
  <2>1. entry \in LiveEntries /\ LiveEntries' = LiveEntries /\ info[entry] \in Info
    BY EntryType DEF StoreInv, LiveEntries, Referenced
  <2>2. mapped' \in Timers
    BY <1>3, UnusedType DEF FreeTimers
  <2>3. mapped' \in 0..MaxTimers /\ armed' \subseteq Timers
    BY <1>3, <2>2 DEF StoreInv, TypeOK, Timers
  <2>4. info' \in [LiveEntries' -> Info]
        /\ info'[entry] = [i EXCEPT !.status = "connecting"]
    BY <1>1, <1>3, <2>1 DEF StoreInv, TypeOK, SetInfo
  <2>5. TypeOK'
    BY <2>1, <2>3, <2>4 DEF StoreInv, TypeOK
  <2>6. Within([i EXCEPT !.status = "connecting"], armed')
    BY <1>1, <1>3, <2>3, WithinNew DEF MayRetry
  <2> QED BY <2>4, <2>5, <2>6 DEF StoreInv, Within
<1> QED BY <1>2, <1>3 DEF Schedule

LEMMA RecoverStuckInv ==
  ASSUME StoreInv, entry # 0, NEW i \in Info, i.attempts <= info[entry].attempts,
         RecoverStuck(entry, i),
         UNCHANGED <<link, open, entry, reconnects, call, shuttingDown>>
  PROVE  StoreInv'
<1>1. CASE i.sync = "stuck" /\ i.status = "connected"
  BY <1>1, RecordTypes, ScheduleInv DEF RecoverStuck
<1>2. CASE ~(i.sync = "stuck" /\ i.status = "connected")
  BY <1>2, SetInfoInv DEF RecoverStuck, StoreInv, TypeOK, timerVars
<1> QED BY <1>1, <1>2

(***************************************************************************)
(* One step of each kind keeps the invariant.                              *)
(***************************************************************************)
LEMMA StreamsInv ==
  ASSUME StoreInv, Streams
  PROVE  StoreInv'
<1>1. entry # 0 /\ info[entry] \in Info
  BY EntryType DEF Streams, StoreInv, FirstReport, NetworkRestored, NetworkLost, StreamEnds,
                   SyncUpdate, HearsNetwork, HearsSync
<1>2. info[entry].attempts \in Nat
  BY <1>1, StoreBounds DEF Info
<1>3. CASE FirstReport
  <2> DEFINE i == [info[entry] EXCEPT !.net = Reported]
  <2>1. i \in Info /\ i.attempts = info[entry].attempts
    BY <1>1, RecordTypes, ZenonT(60) DEF Reported
  <2> HIDE DEF i
  <2>2. Offline(i) \in Info /\ Offline(i).attempts = i.attempts
    BY <2>1, RecordTypes
  <2>3. SetInfo(entry, i) \/ SetInfo(entry, Offline(i))
    BY <1>3 DEF FirstReport, i
  <2> QED BY <1>1, <1>2, <1>3, <2>1, <2>2, <2>3, SetInfoInv
          DEF FirstReport, StoreInv, TypeOK, timerVars
<1>4. CASE NetworkRestored
  <2> DEFINE i == [info[entry] EXCEPT !.net = "up"]
  <2>1. i \in Info /\ i.attempts = info[entry].attempts
    BY <1>1, RecordTypes
  <2> HIDE DEF i
  <2>2. Online(i) \in Info /\ Online(i).attempts = 0
    BY <2>1, RecordTypes
  <2>3. SetInfo(entry, i) \/ SetInfo(entry, Online(i))
    BY <1>4 DEF NetworkRestored, i
  <2> QED BY <1>1, <1>2, <1>4, <2>1, <2>2, <2>3, SetInfoInv
          DEF NetworkRestored, StoreInv, TypeOK, timerVars
<1>5. CASE NetworkLost
  <2> DEFINE i == [info[entry] EXCEPT !.net = "down"]
  <2>1. i \in Info /\ i.attempts = info[entry].attempts
    BY <1>1, RecordTypes
  <2> HIDE DEF i
  <2>2. Offline(i) \in Info /\ Offline(i).attempts = i.attempts
    BY <2>1, RecordTypes
  <2>3. SetInfo(entry, Offline(i))
    BY <1>5 DEF NetworkLost, i
  <2> QED BY <1>1, <1>2, <1>5, <2>1, <2>2, <2>3, SetInfoInv
          DEF NetworkLost, StoreInv, TypeOK, timerVars
<1>6. CASE StreamEnds
  <2> DEFINE i == [info[entry] EXCEPT !.watch = 0]
             j == [i EXCEPT !.net = "down"]
  <2>1. i \in Info /\ i.attempts = info[entry].attempts
    BY <1>1, RecordTypes
  <2>2. \/ Schedule(entry, Offline(j))
        \/ SetInfo(entry, i) /\ UNCHANGED timerVars
    BY <1>6 DEF StreamEnds
  <2>3. j \in Info /\ j.attempts = i.attempts
    <3> HIDE DEF i
    <3> QED BY <2>1, RecordTypes
  <2> HIDE DEF i, j
  <2>4. Offline(j) \in Info /\ Offline(j).attempts = j.attempts
    BY <2>3, RecordTypes
  <2>5. UNCHANGED <<link, open, entry, reconnects, call, shuttingDown>>
    BY <1>6 DEF StreamEnds
  <2>6. CASE Schedule(entry, Offline(j))
    BY <1>1, <1>2, <2>1, <2>3, <2>4, <2>5, <2>6, ScheduleInv
  <2>7. CASE SetInfo(entry, i) /\ UNCHANGED timerVars
    BY <1>1, <1>2, <2>1, <2>5, <2>7, SetInfoInv DEF StoreInv, TypeOK, timerVars
  <2> QED BY <2>2, <2>6, <2>7
<1>7. CASE SyncUpdate
  <2>1. PICK s \in {"synced", "pending", "stuck"} :
          RecoverStuck(entry, [info[entry] EXCEPT !.sync = s])
    BY <1>7 DEF SyncUpdate, SyncStates
  <2> DEFINE i == [info[entry] EXCEPT !.sync = s]
  <2>2. i \in Info /\ i.attempts = info[entry].attempts
    BY <1>1, RecordTypes, ZenonT(60)
  <2> HIDE DEF i
  <2>3. UNCHANGED <<link, open, entry, reconnects, call, shuttingDown>>
    BY <1>7 DEF SyncUpdate
  <2>4. RecoverStuck(entry, i)
    BY <2>1 DEF i
  <2> QED BY <1>1, <1>2, <2>2, <2>3, <2>4, RecoverStuckInv
<1> QED BY <1>3, <1>4, <1>5, <1>6, <1>7 DEF Streams

LEMMA HealthCheckInv ==
  ASSUME StoreInv, NEW overdue \in BOOLEAN, HealthCheck(overdue)
  PROVE  StoreInv'
<1>1. entry # 0 /\ info[entry] \in Info
  BY EntryType DEF HealthCheck, StoreInv
<1>2. info[entry].attempts \in Nat
  BY <1>1, StoreBounds DEF Info
<1>3. PICK j \in Info :
        /\ j.attempts <= info[entry].attempts
        /\ Schedule(entry, j) \/ RecoverStuck(entry, j)
  <2>1. /\ Online(info[entry]) \in Info /\ Online(info[entry]).attempts = 0
        /\ Offline(info[entry]) \in Info
        /\ Offline(info[entry]).attempts = info[entry].attempts
    BY <1>1, RecordTypes
  <2>2. \E j \in {info[entry], Online(info[entry]), Offline(info[entry])} :
          Schedule(entry, j) \/ RecoverStuck(entry, j)
    BY DEF HealthCheck
  <2> QED BY <1>1, <1>2, <2>1, <2>2
<1>4. UNCHANGED <<link, open, entry, reconnects, call, shuttingDown>>
  BY DEF HealthCheck
<1> QED BY <1>1, <1>3, <1>4, ScheduleInv, RecoverStuckInv

LEMMA TimerInv ==
  ASSUME StoreInv, NEW t \in Timers, FireLate(t) \/ FireRecovered(t) \/ FireReconnect(t)
  PROVE  StoreInv'
<1>1. CASE FireLate(t)
  <2>1. LiveEntries' = LiveEntries /\ entry' = 0
    BY <1>1 DEF FireLate, LiveEntries, Referenced
  <2>2. mapped' \in 0..MaxTimers
    BY <1>1, StoreBounds DEF FireLate
  <2> QED BY <1>1, <2>1, <2>2 DEF FireLate, StoreInv, TypeOK
<1>2. CASE FireRecovered(t)
  <2>1. entry # 0 /\ info[entry] \in Info
    BY <1>2, EntryType DEF FireRecovered, StoreInv
  <2>2. Online(info[entry]) \in Info /\ Online(info[entry]).attempts <= info[entry].attempts
    <3>1. info[entry].attempts \in Nat
      BY <2>1, StoreBounds DEF Info
    <3>2. Online(info[entry]) \in Info /\ Online(info[entry]).attempts = 0
      BY <2>1, RecordTypes
    <3> QED BY <3>1, <3>2
  <2>3. mapped' \in 0..MaxTimers /\ armed' \subseteq armed
    BY <1>2, StoreBounds DEF FireRecovered
  <2> QED BY <1>2, <2>1, <2>2, <2>3, SetInfoInv DEF FireRecovered, StoreInv, TypeOK
<1>3. CASE FireReconnect(t)
  <2>1. entry # 0 /\ entry \in LiveEntries /\ entry \in Entries /\ info[entry] \in Info
    BY <1>3, EntryType DEF FireReconnect, StoreInv
  <2>2. /\ IsFiniteSet(armed) /\ Cardinality(armed) \in 0..MaxTimers
        /\ Cardinality(armed') = Cardinality(armed) - 1
        /\ Cardinality(armed) >= 1
    <3>1. t \in armed /\ armed' = armed \ {t}
      BY <1>3 DEF FireReconnect
    <3>2. IsFiniteSet(armed) /\ Cardinality(armed) \in 0..MaxTimers
          /\ Cardinality(armed') \in 0..MaxTimers
      BY <3>1, TimersCount DEF StoreInv, TypeOK
    <3>3. Cardinality(armed \ {t}) = Cardinality(armed) - 1
      BY <3>1, <3>2, FS_RemoveElement
    <3>4. MaxTimers \in Nat
      BY StoreBounds
    <3> QED BY <3>1, <3>2, <3>3, <3>4
  <2>3. info[entry].attempts \in Nat /\ info[entry].attempts + 1 <= Ceiling
    BY <2>1, <2>2, StoreBounds DEF StoreInv, Within, Ceiling, Info
  <2> DEFINE i == [info[entry] EXCEPT !.attempts = @ + 1]
  <2>4. i \in Info /\ i.attempts = info[entry].attempts + 1
    BY <2>1, <2>3, StoreBounds DEF Info, Ceiling
  <2>5. SetInfo(entry, Unfollow(i))
    BY <1>3 DEF FireReconnect
  <2> HIDE DEF i
  <2>6. Unfollow(i) \in Info /\ Unfollow(i).attempts = info[entry].attempts + 1
    BY <2>4, RecordTypes
  <2>7. LiveEntries' = LiveEntries
    BY <1>3, <2>1 DEF FireReconnect, LiveEntries, Referenced
  <2>8. info' \in [LiveEntries' -> Info] /\ info'[entry] = Unfollow(i)
    BY <2>1, <2>5, <2>6, <2>7 DEF StoreInv, TypeOK, SetInfo
  <2>9. reconnects' \subseteq [timer: Timers, of: Entries]
    BY <1>3, <2>1 DEF FireReconnect, StoreInv, TypeOK
  <2>10. TypeOK'
    BY <1>3, <2>7, <2>8, <2>9 DEF FireReconnect, Closed, StoreInv, TypeOK
  <2>11. Within(info'[entry], armed')
    <3>1. info[entry].attempts + Cardinality(armed) <= Ceiling /\ Ceiling \in Nat
      BY <2>1, StoreBounds DEF StoreInv, Within, Ceiling
    <3>2. Cardinality(armed) \in Nat
      BY <2>2, StoreBounds
    <3> QED BY <2>2, <2>3, <2>6, <2>8, <3>1, <3>2 DEF Within
  <2> QED BY <1>3, <2>10, <2>11 DEF FireReconnect, StoreInv, Within
<1> QED BY <1>1, <1>2, <1>3

(* A record that follows the instance s, or that gets it as its own. *)
LEMMA FollowType ==
  ASSUME NEW i \in Info, NEW s \in 0..MaxStores
  PROVE  Rejoined(i, s) \in Info /\ Rejoined(i, s).attempts = i.attempts
<1> DEFINE a == [i EXCEPT !.status = "connected"]
           b == [a EXCEPT !.watch = s]
<1>1. \A k \in Info :
        /\ [k EXCEPT !.watch = s] \in Info
        /\ [k EXCEPT !.watch = s].attempts = k.attempts
  BY DEF Info
<1>2. \A k \in Info :
        /\ [k EXCEPT !.syncWatch = s] \in Info
        /\ [k EXCEPT !.syncWatch = s].attempts = k.attempts
  BY DEF Info
<1>3. Rejoined(i, s) = [b EXCEPT !.syncWatch = s]
  BY DEF Rejoined, Follow
<1>4. a \in Info /\ a.attempts = i.attempts
  BY RecordTypes
<1> HIDE DEF a
<1>5. b \in Info /\ b.attempts = a.attempts
  BY <1>1, <1>4
<1> HIDE DEF b
<1> QED BY <1>2, <1>3, <1>4, <1>5

LEMMA FreshType ==
  ASSUME NEW i \in Info, NEW s \in 0..MaxStores
  PROVE  LET f == [i EXCEPT !.store = s, !.attempts = 0, !.sync = "unknown",
                            !.net = "unknown"] IN
         f \in Info /\ f.attempts = 0
<1> DEFINE a == [i EXCEPT !.store = s]
           b == [a EXCEPT !.attempts = 0]
           c == [b EXCEPT !.sync = "unknown"]
           d == [c EXCEPT !.net = "unknown"]
<1>1. [i EXCEPT !.store = s, !.attempts = 0, !.sync = "unknown", !.net = "unknown"] = d
  OBVIOUS
<1>2. a \in Info
  BY DEF Info
<1> HIDE DEF a
<1>3. b \in Info /\ b.attempts = 0
  BY <1>2, StoreBounds DEF Info
<1> HIDE DEF b
<1>4. c \in Info /\ c.attempts = 0
  BY <1>3, RecordTypes
<1> HIDE DEF c
<1>5. d \in Info /\ d.attempts = 0
  BY <1>4, RecordTypes
<1> HIDE DEF d
<1> QED BY <1>1, <1>5

(* The callback of a timer ends: the records that are still referred to remain. *)
LEMMA ReconnectInv ==
  ASSUME StoreInv, NEW r \in reconnects, Reconnect(r)
  PROVE  StoreInv'
<1> DEFINE s == Unused(FreeStores)
           fresh == [info[r.of] EXCEPT !.store = s, !.attempts = 0, !.sync = "unknown",
                                       !.net = "unknown"]
           kept(e) == IF e = r.of THEN fresh ELSE info[e]
<1>1. s \in Stores /\ s \in 0..MaxStores
  <2>1. s \in Stores
    BY UnusedType DEF Reconnect, FreeStores
  <2> QED BY <2>1 DEF Stores
<1>2. r.of \in LiveEntries /\ info[r.of] \in Info
  BY DEF StoreInv, TypeOK, LiveEntries, Referenced
<1>3. fresh \in Info /\ fresh.attempts = 0
  BY <1>1, <1>2, FreshType
<1>4. LiveEntries' \subseteq LiveEntries /\ entry' = entry /\ armed' = armed
  BY DEF Reconnect, LiveEntries, Referenced
<1>5. info' = [e \in LiveEntries' |-> IF e = entry THEN Rejoined(kept(e), s) ELSE kept(e)]
  BY DEF Reconnect, LiveEntries
<1>6. \A e \in LiveEntries : kept(e) \in Info /\ kept(e).attempts <= info[e].attempts
  <2> SUFFICES ASSUME NEW e \in LiveEntries
               PROVE  kept(e) \in Info /\ kept(e).attempts <= info[e].attempts
    OBVIOUS
  <2>1. info[e] \in Info /\ info[e].attempts \in Nat
    BY StoreBounds DEF StoreInv, TypeOK, Info
  <2> HIDE DEF fresh
  <2> QED BY <1>3, <2>1
<1>7. ASSUME NEW i \in Info
      PROVE  Rejoined(i, s) \in Info /\ Rejoined(i, s).attempts = i.attempts
  BY <1>1, FollowType
<1> HIDE DEF s, fresh, kept
<1>8. info' \in [LiveEntries' -> Info]
  BY <1>4, <1>5, <1>6, <1>7
<1>9. open' \subseteq Stores /\ mapped' \in 0..MaxTimers
      /\ reconnects' \subseteq [timer: Timers, of: Entries]
  BY <1>1, StoreBounds DEF Reconnect, StoreInv, TypeOK, s
<1>10. TypeOK'
  BY <1>4, <1>8, <1>9 DEF Reconnect, StoreInv, TypeOK
<1>11. ASSUME entry # 0 PROVE Within(info'[entry], armed')
  <2>1. entry \in LiveEntries /\ entry \in LiveEntries' /\ info[entry] \in Info
    BY <1>11, EntryType, <1>4 DEF StoreInv, LiveEntries, Referenced
  <2>2. info'[entry] \in Info /\ info'[entry].attempts <= info[entry].attempts
    BY <2>1, <1>5, <1>6, <1>7
  <2> QED BY <1>4, <1>11, <2>1, <2>2, WithinLess DEF StoreInv, TypeOK
<1> QED BY <1>4, <1>10, <1>11 DEF StoreInv, Within

LEMMA ReconnectFailsInv ==
  ASSUME StoreInv, NEW r \in reconnects, ReconnectFails(r)
  PROVE  StoreInv'
<1>1. LiveEntries' \subseteq LiveEntries /\ entry' = entry
  BY DEF ReconnectFails, LiveEntries, Referenced
<1>2. PICK again \in BOOLEAN, status \in {"connecting", "error"} :
        /\ again => entry # 0 /\ MayRetry(info[entry])
        /\ mapped' = IF again THEN r.timer ELSE 0
        /\ armed' = armed \cup ({mapped'} \ {0})
        /\ info' = [e \in LiveEntries' |->
                      IF e = entry THEN [info[e] EXCEPT !.status = status] ELSE info[e]]
  BY DEF ReconnectFails, LiveEntries
<1>3. r.timer \in Timers
  BY DEF StoreInv, TypeOK
<1>4. mapped' \in 0..MaxTimers /\ armed' \subseteq Timers
  <2>1. CASE again
    BY <1>2, <1>3, <2>1 DEF Timers, StoreInv, TypeOK
  <2>2. CASE ~again
    BY <1>2, <2>2, StoreBounds DEF StoreInv, TypeOK
  <2> QED BY <2>1, <2>2
<1>5. \A e \in LiveEntries : /\ [info[e] EXCEPT !.status = status] \in Info
                             /\ [info[e] EXCEPT !.status = status].attempts = info[e].attempts
  <2> SUFFICES ASSUME NEW e \in LiveEntries
               PROVE  /\ [info[e] EXCEPT !.status = status] \in Info
                      /\ [info[e] EXCEPT !.status = status].attempts = info[e].attempts
    OBVIOUS
  <2>1. info[e] \in Info
    BY DEF StoreInv, TypeOK
  <2> QED BY <2>1, RecordTypes
<1>6. info' \in [LiveEntries' -> Info]
  BY <1>1, <1>2, <1>5 DEF StoreInv, TypeOK
<1>7. TypeOK'
  BY <1>1, <1>4, <1>6 DEF ReconnectFails, StoreInv, TypeOK
<1>8. ASSUME entry # 0 PROVE Within(info'[entry], armed')
  <2>1. entry \in LiveEntries /\ entry \in LiveEntries' /\ info[entry] \in Info
    BY <1>8, EntryType, <1>1 DEF StoreInv, LiveEntries, Referenced
  <2>2. info'[entry] \in Info /\ info'[entry].attempts = info[entry].attempts
    BY <2>1, <1>2, <1>5
  <2>3. CASE again
    <3>1. MayRetry(info'[entry])
      BY <1>2, <2>2, <2>3 DEF MayRetry
    <3> QED BY <1>4, <2>2, <3>1, WithinNew
  <2>4. CASE ~again
    <3>1. armed' = armed
      BY <1>2, <2>4
    <3> QED BY <1>8, <2>2, <3>1 DEF StoreInv, Within
  <2> QED BY <2>3, <2>4
<1> QED BY <1>1, <1>7, <1>8 DEF StoreInv, Within

LEMMA StoreAddedInv ==
  ASSUME StoreInv, NEW p \in Callers, StoreAdded(p)
  PROVE  StoreInv'
<1> DEFINE s == Unused(FreeStores)
           e == Unused(FreeEntries)
<1>1. s \in Stores /\ e \in Entries
  BY UnusedType DEF StoreAdded, FreeStores, FreeEntries
<1>2. s \in 0..MaxStores /\ e \in 0..MaxEntries /\ e # 0
  BY <1>1 DEF Stores, Entries
<1>3. NewInfo(s) \in Info /\ NewInfo(s).attempts = 0
  <2> HIDE DEF s
  <2> QED BY <1>2, StoreBounds DEF NewInfo, Info
<1>4a. /\ entry' = e /\ armed' = armed /\ open' = open \cup {s}
       /\ call' = [call EXCEPT ![p] = "idle"]
       /\ info' = [k \in Referenced(e, reconnects) |-> IF k = e THEN NewInfo(s) ELSE info[k]]
       /\ UNCHANGED <<link, mapped, armed, reconnects, shuttingDown>>
  BY DEF StoreAdded, timerVars
<1> HIDE DEF s, e
<1>4b. LiveEntries' = Referenced(e, reconnects)
  BY <1>4a DEF LiveEntries
<1>4c. Referenced(e, reconnects) \subseteq LiveEntries \cup {e} /\ e \in Referenced(e, reconnects)
  BY <1>2 DEF LiveEntries, Referenced
<1>4. /\ entry' = e /\ armed' = armed /\ open' = open \cup {s}
      /\ LiveEntries' \subseteq LiveEntries \cup {e} /\ e \in LiveEntries'
      /\ info' = [k \in LiveEntries' |-> IF k = e THEN NewInfo(s) ELSE info[k]]
  BY <1>4a, <1>4b, <1>4c
<1>5. info' \in [LiveEntries' -> Info] /\ info'[entry'] = NewInfo(s)
  BY <1>3, <1>4 DEF StoreInv, TypeOK
<1>6. LiveEntries' \subseteq Entries /\ open' \subseteq Stores
  BY <1>1, <1>4 DEF StoreInv, TypeOK
<1>7. TypeOK'
  BY <1>2, <1>4, <1>4a, <1>5, <1>6 DEF StoreInv, TypeOK
<1>8. MayRetry(NewInfo(s))
  BY <1>3, StoreBounds DEF MayRetry
<1>9. Within(NewInfo(s), armed')
  BY <1>3, <1>4, <1>8, WithinNew DEF StoreInv, TypeOK
<1> QED BY <1>5, <1>7, <1>9 DEF StoreInv, Within

LEMMA BeginRemovalInv ==
  ASSUME StoreInv, NEW p \in Callers, BeginRemoval(p), shuttingDown' \in BOOLEAN
  PROVE  StoreInv'
<1>1. entry # 0 /\ info[entry] \in Info
  BY EntryType DEF BeginRemoval, StoreInv
<1>2. info[entry].attempts \in Nat
  BY <1>1, StoreBounds DEF Info
<1>3. Unfollow(info[entry]) \in Info /\ Unfollow(info[entry]).attempts = info[entry].attempts
  BY <1>1, RecordTypes
<1>4. mapped' \in 0..MaxTimers /\ armed' \subseteq armed /\ open' \subseteq open
  BY StoreBounds DEF BeginRemoval, Closed
<1>5. call' \in [Callers -> {"idle", "add", "remove"}] /\ link' \in BOOLEAN
  BY DEF BeginRemoval, StoreInv, TypeOK
<1>6. UNCHANGED <<entry, reconnects>> /\ SetInfo(entry, Unfollow(info[entry]))
  BY DEF BeginRemoval
<1> QED BY <1>1, <1>2, <1>3, <1>4, <1>5, <1>6, SetInfoInv

LEMMA StoreRemovedInv ==
  ASSUME StoreInv, NEW p \in Callers, StoreRemoved(p)
  PROVE  StoreInv'
<1>1. LiveEntries' \subseteq LiveEntries /\ entry' = 0
  BY DEF StoreRemoved, LiveEntries, Referenced
<1>2. info' = [k \in LiveEntries' |-> info[k]]
  BY DEF StoreRemoved, LiveEntries
<1>3. info' \in [LiveEntries' -> Info]
  BY <1>1, <1>2 DEF StoreInv, TypeOK
<1>4. entry' \in 0..MaxEntries
  BY <1>1, StoreBounds
<1>5. call' \in [Callers -> {"idle", "add", "remove"}]
  BY DEF StoreRemoved, StoreInv, TypeOK
<1>6. UNCHANGED <<link, open, mapped, armed, reconnects, shuttingDown>>
  BY DEF StoreRemoved, timerVars
<1>7. TypeOK'
  BY <1>1, <1>3, <1>4, <1>5, <1>6 DEF StoreInv, TypeOK
<1> QED BY <1>1, <1>7 DEF StoreInv

LEMMA MembershipInv ==
  ASSUME StoreInv, Membership
  PROVE  StoreInv'
<1> SUFFICES ASSUME NEW p \in Callers,
                    \/ AddStore(p) \/ StoreAdded(p) \/ AddFails(p)
                    \/ RemoveStore(p) \/ StoreRemoved(p) \/ Shutdown(p)
             PROVE  StoreInv'
  BY DEF Membership
<1>1. CASE AddStore(p)
  BY <1>1 DEF AddStore, StoreInv, TypeOK, Within, LiveEntries, Referenced, timerVars
<1>2. CASE StoreAdded(p)
  BY <1>2, StoreAddedInv
<1>3. CASE AddFails(p)
  BY <1>3 DEF AddFails, StoreInv, TypeOK, Within, LiveEntries, Referenced, timerVars
<1>4. CASE RemoveStore(p)
  BY <1>4, BeginRemovalInv DEF RemoveStore, StoreInv, TypeOK
<1>5. CASE StoreRemoved(p)
  BY <1>5, StoreRemovedInv
<1>6. CASE Shutdown(p)
  BY <1>6, BeginRemovalInv DEF Shutdown
<1> QED BY <1>1, <1>2, <1>3, <1>4, <1>5, <1>6

LEMMA EnvironmentInv ==
  ASSUME StoreInv, LinkChanges \/ SyncStalls
  PROVE  StoreInv'
<1>1. CASE LinkChanges
  BY <1>1, SMTT(30) DEF LinkChanges, StoreInv, TypeOK, Within, LiveEntries, Referenced, timerVars
<1>2. CASE SyncStalls
  <2>1. entry # 0 /\ info[entry] \in Info
    BY <1>2, EntryType DEF SyncStalls, StoreInv
  <2> DEFINE i == [info[entry] EXCEPT !.sync = "stuck"]
  <2>2. i \in Info /\ i.attempts = info[entry].attempts /\ i.attempts \in Nat
    BY <2>1, RecordTypes, StoreBounds, SMTT(30) DEF Info
  <2>3. SetInfo(entry, i)
    BY <1>2 DEF SyncStalls
  <2> HIDE DEF i
  <2> QED BY <1>2, <2>1, <2>2, <2>3, SetInfoInv DEF SyncStalls, StoreInv, TypeOK, timerVars
<1> QED BY <1>1, <1>2

LEMMA StoreStep == StoreInv /\ [Next]_vars => StoreInv'
<1> SUFFICES ASSUME StoreInv, [Next]_vars
             PROVE  StoreInv'
  OBVIOUS
<1>1. CASE LinkChanges \/ SyncStalls
  BY <1>1, EnvironmentInv
<1>2. CASE Streams
  BY <1>2, StreamsInv
<1>3. CASE Reconnection
  BY <1>3, TimerInv, ReconnectInv, ReconnectFailsInv, HealthCheckInv DEF Reconnection
<1>4. CASE Membership
  BY <1>4, MembershipInv
<1>5. CASE UNCHANGED vars
  BY <1>5 DEF StoreInv, TypeOK, Within, LiveEntries, Referenced, vars, timerVars
<1> QED BY <1>1, <1>2, <1>3, <1>4, <1>5 DEF Next

LEMMA StoreInit == Init => StoreInv
<1> SUFFICES ASSUME Init
             PROVE  StoreInv
  OBVIOUS
<1>1. LiveEntries = {} /\ entry = 0
  BY DEF Init, LiveEntries, Referenced
<1>2. info \in [LiveEntries -> Info]
  BY <1>1 DEF Init
<1>3. 0 \in 0..MaxEntries /\ 0 \in 0..MaxTimers
  BY StoreBounds
<1>4. call \in [Callers -> {"idle", "add", "remove"}]
  BY DEF Init
<1>5. TypeOK
  BY <1>1, <1>2, <1>3, <1>4 DEF Init, TypeOK
<1> QED BY <1>1, <1>5 DEF StoreInv

(***************************************************************************)
(* TypeOK: every reachable state has the declared types; in particular     *)
(* reconnectAttempts never passes its maximum by more than the timers that *)
(* overlapping removals and reconnections have armed beside each other.    *)
(***************************************************************************)
THEOREM TypeCorrect == Spec => []TypeOK
<1>1. StoreInv => TypeOK
  BY DEF StoreInv
<1> QED BY <1>1, StoreInit, StoreStep, PTL DEF Spec

-----------------------------------------------------------------------------
(* One reconnection at a time *)

\* reconnectTimeouts is the lock of the reconnection: the timer it holds is the one
\* that waits, or the one whose callback runs.
Slot ==
  \/ mapped = 0 /\ armed = {} /\ reconnects = {}
  \/ mapped # 0 /\ armed = {mapped} /\ reconnects = {}
  \/ mapped # 0 /\ armed = {} /\ \E r \in reconnects : reconnects = {r} /\ r.timer = mapped

SlotInv == StoreInv /\ Slot

NoRemoval == Faults \cap {"remove", "shutdown"} = {}

(* scheduleReconnect takes the slot only when it is free. *)
LEMMA ScheduleSlot ==
  ASSUME Slot, NEW e, NEW i, Schedule(e, i), UNCHANGED reconnects
  PROVE  Slot'
<1>1. CASE UNCHANGED timerVars
  BY <1>1 DEF timerVars, Slot
<1>2. CASE /\ mapped = 0 /\ FreeTimers # {}
           /\ mapped' = Unused(FreeTimers)
           /\ armed' = armed \cup {mapped'}
  <2>1. Unused(FreeTimers) \in Timers
    BY <1>2, UnusedType DEF FreeTimers
  <2>2. mapped' # 0
    BY <1>2, <2>1 DEF Timers
  <2>3. armed = {} /\ reconnects = {}
    BY <1>2 DEF Slot
  <2> QED BY <1>2, <2>2, <2>3 DEF Slot
<1> QED BY <1>1, <1>2 DEF Schedule

LEMMA RecoverSlot ==
  ASSUME Slot, NEW e, NEW i, RecoverStuck(e, i), UNCHANGED reconnects
  PROVE  Slot'
<1>1. CASE UNCHANGED timerVars
  BY <1>1 DEF timerVars, Slot
<1>2. CASE Schedule(e, Offline(i))
  BY <1>2, ScheduleSlot
<1> QED BY <1>1, <1>2 DEF RecoverStuck

LEMMA StreamsSlot ==
  ASSUME Slot, Streams
  PROVE  Slot'
<1>1. CASE FirstReport \/ NetworkRestored \/ NetworkLost
  BY <1>1 DEF FirstReport, NetworkRestored, NetworkLost, timerVars, Slot
<1>2. CASE StreamEnds
  <2>1. UNCHANGED reconnects
    BY <1>2 DEF StreamEnds
  <2>2. UNCHANGED timerVars \/ \E i : Schedule(entry, i)
    BY <1>2 DEF StreamEnds
  <2>3. CASE UNCHANGED timerVars
    BY <2>1, <2>3 DEF timerVars, Slot
  <2> QED BY <2>1, <2>2, <2>3, ScheduleSlot
<1>3. CASE SyncUpdate
  <2>1. UNCHANGED reconnects /\ \E i : RecoverStuck(entry, i)
    BY <1>3 DEF SyncUpdate
  <2> QED BY <2>1, RecoverSlot
<1> QED BY <1>1, <1>2, <1>3 DEF Streams

LEMMA HealthCheckSlot ==
  ASSUME Slot, NEW overdue \in BOOLEAN, HealthCheck(overdue)
  PROVE  Slot'
<1>1. UNCHANGED reconnects
  BY DEF HealthCheck
<1>2. (\E i : Schedule(entry, i)) \/ (\E i : RecoverStuck(entry, i))
  BY DEF HealthCheck
<1> QED BY <1>1, <1>2, ScheduleSlot, RecoverSlot

(* The callback of the timer: the timer that fires is the one in the map. *)
LEMMA TimerSlot ==
  ASSUME SlotInv, NEW t \in Timers, FireLate(t) \/ FireRecovered(t) \/ FireReconnect(t)
  PROVE  Slot'
<1>1. t \in armed
  BY DEF FireLate, FireRecovered, FireReconnect
<1>2. mapped = t /\ armed = {t} /\ reconnects = {} /\ t # 0
  BY <1>1 DEF SlotInv, Slot
<1>3. CASE FireLate(t) \/ FireRecovered(t)
  BY <1>2, <1>3 DEF FireLate, FireRecovered, Slot
<1>4. CASE FireReconnect(t)
  <2> DEFINE r == [timer |-> t, of |-> entry]
  <2>1. mapped' = t /\ armed' = {} /\ reconnects' = {r} /\ r.timer = t
    BY <1>2, <1>4 DEF FireReconnect
  <2> HIDE DEF r
  <2> QED BY <1>2, <2>1 DEF Slot
<1> QED BY <1>3, <1>4

(* It ends: the map loses the timer, or the timer is armed once more. *)
LEMMA CallbackSlot ==
  ASSUME SlotInv, NEW r \in reconnects, Reconnect(r) \/ ReconnectFails(r)
  PROVE  Slot'
<1>1. mapped # 0 /\ armed = {} /\ reconnects = {r} /\ r.timer = mapped
  BY DEF SlotInv, Slot
<1>2. CASE Reconnect(r)
  BY <1>1, <1>2 DEF Reconnect, Slot
<1>3. CASE ReconnectFails(r)
  <2>1. reconnects' = {}
    BY <1>1, <1>3 DEF ReconnectFails
  <2>2. mapped' \in {0, mapped} /\ armed' = armed \cup ({mapped'} \ {0})
    BY <1>1, <1>3 DEF ReconnectFails
  <2> QED BY <1>1, <2>1, <2>2 DEF Slot
<1> QED BY <1>2, <1>3

LEMMA SlotStep ==
  ASSUME NoRemoval
  PROVE  SlotInv /\ [Next]_vars => SlotInv'
<1> SUFFICES ASSUME SlotInv, [Next]_vars
             PROVE  Slot'
  BY StoreStep DEF SlotInv
<1>1. CASE LinkChanges \/ SyncStalls
  BY <1>1 DEF LinkChanges, SyncStalls, timerVars, SlotInv, Slot
<1>2. CASE Streams
  BY <1>2, StreamsSlot DEF SlotInv
<1>3. CASE Reconnection
  BY <1>3, TimerSlot, CallbackSlot, HealthCheckSlot DEF Reconnection, SlotInv
<1>4. CASE Membership
  <2>1. PICK p \in Callers : \/ AddStore(p)    \/ StoreAdded(p)   \/ AddFails(p)
                            \/ RemoveStore(p) \/ StoreRemoved(p) \/ Shutdown(p)
    BY <1>4 DEF Membership
  <2>2. ~RemoveStore(p) /\ ~Shutdown(p)
    BY DEF NoRemoval, RemoveStore, Shutdown
  <2>3. CASE AddStore(p)
    BY <2>3 DEF AddStore, timerVars, SlotInv, Slot
  <2>4. CASE StoreAdded(p)
    <3>1. UNCHANGED timerVars /\ UNCHANGED reconnects
      BY <2>4 DEF StoreAdded
    <3> QED BY <3>1 DEF timerVars, SlotInv, Slot
  <2>5. CASE AddFails(p)
    BY <2>5 DEF AddFails, timerVars, SlotInv, Slot
  <2>6. CASE StoreRemoved(p)
    BY <2>6 DEF StoreRemoved, timerVars, SlotInv, Slot
  <2> QED BY <2>1, <2>2, <2>3, <2>4, <2>5, <2>6
<1>5. CASE UNCHANGED vars
  BY <1>5 DEF vars, timerVars, SlotInv, Slot
<1> QED BY <1>1, <1>2, <1>3, <1>4, <1>5 DEF Next

(***************************************************************************)
(* SingleReconnect: as long as no store is removed, a store has at most    *)
(* one reconnection, waiting for its timer or under way, for any number of *)
(* overlapping addStore calls, stream events, health checks and failures.  *)
(***************************************************************************)
THEOREM OneReconnection ==
  ASSUME NoRemoval
  PROVE  Spec => []SingleReconnect
<1>1. Init => SlotInv
  BY StoreInit DEF Init, SlotInv, Slot
<1>2. SlotInv => SingleReconnect
  <2> SUFFICES ASSUME Slot PROVE SingleReconnect
    BY DEF SlotInv
  <2>1. Cardinality({}) = 0
    BY FS_EmptySet
  <2>2. \A x : Cardinality({x}) = 1
    BY FS_Singleton
  <2>3. CASE armed = {} /\ reconnects = {}
    BY <2>1, <2>3 DEF SingleReconnect
  <2>4. CASE armed = {mapped} /\ reconnects = {}
    <3>1. Cardinality(armed) = 1 /\ Cardinality(reconnects) = 0
      BY <2>1, <2>2, <2>4, Zenon
    <3> QED BY <3>1 DEF SingleReconnect
  <2>5. CASE armed = {} /\ \E r \in reconnects : reconnects = {r}
    <3>1. Cardinality(armed) = 0 /\ Cardinality(reconnects) = 1
      BY <2>1, <2>2, <2>5, Zenon
    <3> QED BY <3>1 DEF SingleReconnect
  <2> QED BY <2>3, <2>4, <2>5 DEF Slot
<1>3. SlotInv /\ [Next]_vars => SlotInv'
  BY SlotStep
<1> QED BY <1>1, <1>2, <1>3, PTL DEF Spec

-----------------------------------------------------------------------------
(* Connecting is backed *)

\* Writing the entry writes the entry.
LEMMA SetEntry ==
  ASSUME TypeOK, entry # 0, NEW i, SetInfo(entry, i)
  PROVE  info'[entry] = i
BY EntryType DEF TypeOK, SetInfo

LEMMA ScheduleBacked ==
  ASSUME TypeOK, ConnectingIsBacked, entry # 0, NEW i \in Info,
         i.status = "connecting" => info[entry].status = "connecting",
         Schedule(entry, i), UNCHANGED <<entry, reconnects, call>>
  PROVE  ConnectingIsBacked'
<1>1. CASE SetInfo(entry, i) /\ UNCHANGED timerVars
  <2>1. info'[entry] = i
    BY <1>1, SetEntry
  <2> QED BY <1>1, <2>1 DEF ConnectingIsBacked, timerVars
<1>2. CASE SetInfo(entry, [i EXCEPT !.status = "error"])
  <2>1. info'[entry].status = "error"
    BY <1>2, SetEntry DEF Info
  <2> QED BY <2>1 DEF ConnectingIsBacked
<1>3. CASE armed' = armed \cup {mapped'}
  <2>1. armed' # {}
    BY <1>3
  <2> QED BY <2>1 DEF ConnectingIsBacked
<1> QED BY <1>1, <1>2, <1>3 DEF Schedule

LEMMA RecoverBacked ==
  ASSUME TypeOK, ConnectingIsBacked, entry # 0, NEW i \in Info,
         i.status = "connecting" => info[entry].status = "connecting",
         RecoverStuck(entry, i), UNCHANGED <<entry, reconnects, call>>
  PROVE  ConnectingIsBacked'
<1>1. CASE i.sync = "stuck" /\ i.status = "connected"
  <2>1. Offline(i) \in Info /\ Offline(i).status = "disconnected"
    BY RecordTypes DEF Info, Offline
  <2> QED BY <1>1, <2>1, ScheduleBacked DEF RecoverStuck
<1>2. CASE ~(i.sync = "stuck" /\ i.status = "connected")
  <2>1. info'[entry] = i
    BY <1>2, SetEntry DEF RecoverStuck
  <2> QED BY <1>2, <2>1 DEF RecoverStuck, ConnectingIsBacked, timerVars
<1> QED BY <1>1, <1>2

LEMMA SetBacked ==
  ASSUME TypeOK, ConnectingIsBacked, entry # 0, NEW i \in Info, SetInfo(entry, i),
         i.status = "connecting" => info[entry].status = "connecting",
         UNCHANGED <<entry, timerVars, reconnects, call>>
  PROVE  ConnectingIsBacked'
<1>1. info'[entry] = i
  BY SetEntry
<1> QED BY <1>1 DEF ConnectingIsBacked, timerVars

\* A handler changes the status to "connecting" only where it arms a timer.
LEMMA HandlersBacked ==
  ASSUME TypeOK, ConnectingIsBacked,
         SyncStalls \/ Streams \/ \E overdue \in BOOLEAN : HealthCheck(overdue)
  PROVE  ConnectingIsBacked'
<1>1. entry # 0 /\ info[entry] \in Info
  BY EntryType DEF SyncStalls, Streams, FirstReport, NetworkRestored, NetworkLost, StreamEnds,
     SyncUpdate, HearsNetwork, HearsSync, HealthCheck
<1> DEFINE e == info[entry]
<1>2. /\ \A i \in Info : /\ Online(i) \in Info /\ Online(i).status = "connected"
                         /\ Offline(i) \in Info /\ Offline(i).status = "disconnected"
      /\ \A n \in {"unknown", "up", "down"} :
           [e EXCEPT !.net = n] \in Info /\ [e EXCEPT !.net = n].status = e.status
      /\ \A n \in {"unknown", "synced", "pending", "stuck"} :
           [e EXCEPT !.sync = n] \in Info /\ [e EXCEPT !.sync = n].status = e.status
      /\ [e EXCEPT !.watch = 0] \in Info /\ [e EXCEPT !.watch = 0].status = e.status
  <2>1. \A i \in Info : Online(i).status = "connected" /\ Offline(i).status = "disconnected"
    BY DEF Info, Online, Offline
  <2>2. \A n : /\ [e EXCEPT !.net = n].status = e.status /\ [e EXCEPT !.sync = n].status = e.status
               /\ [e EXCEPT !.watch = n].status = e.status
    BY <1>1 DEF Info
  <2> QED BY <1>1, <2>1, <2>2, RecordTypes
<1> HIDE DEF e
<1>3. CASE SyncStalls
  BY <1>1, <1>2, <1>3, SetBacked DEF SyncStalls, e
<1>4. CASE FirstReport
  <2> DEFINE i == [e EXCEPT !.net = Reported]
  <2>1. i \in Info /\ i.status = e.status
    BY <1>2 DEF Reported
  <2>2. SetInfo(entry, i) \/ SetInfo(entry, Offline(i))
    BY <1>4 DEF FirstReport, e
  <2> HIDE DEF i
  <2> QED BY <1>1, <1>2, <1>4, <2>1, <2>2, SetBacked DEF FirstReport, e
<1>5. CASE NetworkRestored
  <2> DEFINE i == [e EXCEPT !.net = "up"]
  <2>1. i \in Info /\ i.status = e.status
    BY <1>2
  <2>2. SetInfo(entry, i) \/ SetInfo(entry, Online(i))
    BY <1>5 DEF NetworkRestored, e
  <2> HIDE DEF i
  <2> QED BY <1>1, <1>2, <1>5, <2>1, <2>2, SetBacked DEF NetworkRestored, e
<1>6. CASE NetworkLost
  BY <1>1, <1>2, <1>6, SetBacked DEF NetworkLost, e
<1>7. CASE StreamEnds
  <2> DEFINE i == [e EXCEPT !.watch = 0]
             j == [i EXCEPT !.net = "down"]
  <2>1. i \in Info /\ i.status = e.status
    BY <1>2
  <2>2. \/ Schedule(entry, Offline(j))
        \/ SetInfo(entry, i) /\ UNCHANGED timerVars
    BY <1>7 DEF StreamEnds, e
  <2>3. j \in Info
    <3> HIDE DEF i
    <3> QED BY <2>1, RecordTypes
  <2> HIDE DEF i, j
  <2> QED BY <1>1, <1>2, <1>7, <2>1, <2>2, <2>3, SetBacked, ScheduleBacked DEF StreamEnds, e
<1>8. CASE SyncUpdate
  <2>1. PICK s \in {"synced", "pending", "stuck"} : RecoverStuck(entry, [e EXCEPT !.sync = s])
    BY <1>8 DEF SyncUpdate, SyncStates, e
  <2> QED BY <1>1, <1>2, <1>8, <2>1, RecoverBacked DEF SyncUpdate, e
<1>9. ASSUME NEW overdue \in BOOLEAN, HealthCheck(overdue) PROVE ConnectingIsBacked'
  <2>1. \E j \in {e, Online(e), Offline(e)} : Schedule(entry, j) \/ RecoverStuck(entry, j)
    BY <1>9 DEF HealthCheck, e
  <2>2. \A j \in {e, Online(e), Offline(e)} :
          j \in Info /\ (j.status = "connecting" => e.status = "connecting")
    BY <1>1, <1>2 DEF e
  <2> QED BY <1>1, <1>9, <2>1, <2>2, ScheduleBacked, RecoverBacked DEF HealthCheck, e
<1> QED BY <1>3, <1>4, <1>5, <1>6, <1>7, <1>8, <1>9 DEF Streams

LEMMA BackedStep ==
  ASSUME StoreInv, ConnectingIsBacked, [Next]_vars
  PROVE  ConnectingIsBacked'
<1>0. TypeOK
  BY DEF StoreInv
<1>1. CASE LinkChanges \/ UNCHANGED vars
  BY <1>1 DEF LinkChanges, vars, timerVars, ConnectingIsBacked
<1>2. CASE SyncStalls \/ Streams \/ \E overdue \in BOOLEAN : HealthCheck(overdue)
  BY <1>0, <1>2, HandlersBacked
<1>3. ASSUME NEW t \in Timers, FireLate(t) \/ FireRecovered(t) \/ FireReconnect(t)
      PROVE  ConnectingIsBacked'
  <2>1. CASE FireLate(t)
    BY <2>1 DEF FireLate, ConnectingIsBacked
  <2>2. CASE FireRecovered(t)
    <3>1. entry # 0 /\ info[entry] \in Info /\ info'[entry] = Online(info[entry])
      BY <1>0, <2>2, EntryType, SetEntry DEF FireRecovered
    <3>2. Online(info[entry]).status = "connected"
      BY <3>1 DEF Info, Online
    <3> QED BY <2>2, <3>1, <3>2 DEF FireRecovered, ConnectingIsBacked
  <2>3. CASE FireReconnect(t)
    BY <2>3 DEF FireReconnect, ConnectingIsBacked
  <2> QED BY <1>3, <2>1, <2>2, <2>3
<1>4. ASSUME NEW r \in reconnects, Reconnect(r) PROVE ConnectingIsBacked'
  <2> SUFFICES ASSUME entry # 0 PROVE info'[entry].status # "connecting"
    BY <1>4 DEF Reconnect, ConnectingIsBacked
  <2>1. entry \in Referenced(entry, reconnects')
    BY DEF Referenced
  <2>2. StoreInv'
    BY StoreStep
  <2>3. info'[entry] \in Info
    BY <1>4, <2>1, <2>2 DEF Reconnect, StoreInv, TypeOK, LiveEntries
  <2>4. \E i : info'[entry] = Rejoined(i, Unused(FreeStores))
    BY <1>4, <2>1 DEF Reconnect
  <2>5. PICK i, s : info'[entry] = Rejoined(i, s)
    BY <2>4
  <2>6. info'[entry].status # "connecting"
    BY <2>3, <2>5 DEF Rejoined, Follow, Info
  <2> QED BY <2>6
<1>5. ASSUME NEW r \in reconnects, ReconnectFails(r) PROVE ConnectingIsBacked'
  <2> SUFFICES ASSUME entry # 0, info'[entry].status = "connecting" PROVE armed' # {}
    BY <1>5 DEF ReconnectFails, ConnectingIsBacked
  <2>1. r.timer # 0
    BY <1>0 DEF TypeOK, Timers
  <2>2. entry \in Referenced(entry, reconnects') /\ info[entry] \in Info
    BY <1>0, EntryType DEF Referenced
  <2>3. PICK again \in BOOLEAN :
          /\ mapped' = IF again THEN r.timer ELSE 0
          /\ armed' = armed \cup ({mapped'} \ {0})
          /\ info'[entry] = [info[entry] EXCEPT !.status = IF again THEN "connecting" ELSE "error"]
    BY <1>5, <2>2 DEF ReconnectFails
  <2>4. again
    BY <2>2, <2>3 DEF Info
  <2> QED BY <2>1, <2>3, <2>4
<1>6. ASSUME NEW p \in Callers, \/ AddStore(p)    \/ StoreAdded(p)   \/ AddFails(p)
                                \/ RemoveStore(p) \/ StoreRemoved(p) \/ Shutdown(p)
      PROVE  ConnectingIsBacked'
  <2>1. CASE AddStore(p)
    BY <2>1 DEF AddStore, ConnectingIsBacked
  <2>2. CASE StoreAdded(p)
    <3>1. PICK e, s : info'[entry'] = NewInfo(s)
      <4>1. PICK e : e = Unused(FreeEntries)
        OBVIOUS
      <4>2. e \in FreeEntries /\ entry' = e
        BY <2>2, <4>1, UnusedType DEF StoreAdded
      <4>3. e \in Referenced(e, reconnects)
        BY <4>2 DEF FreeEntries, Entries, Referenced
      <4> QED BY <2>2, <4>1, <4>2, <4>3 DEF StoreAdded
    <3>2. info'[entry'].status = "connected"
      BY <3>1 DEF NewInfo
    <3> QED BY <3>2 DEF ConnectingIsBacked
  <2>3. CASE AddFails(p)
    <3>1. \A q \in Callers : call[q] = "remove" => call'[q] = "remove"
      BY <1>0, <2>3 DEF AddFails, TypeOK
    <3> QED BY <2>3, <3>1 DEF AddFails, timerVars, ConnectingIsBacked
  <2>4. CASE BeginRemoval(p)
    <3>1. call'[p] = "remove"
      BY <1>0, <2>4 DEF BeginRemoval, TypeOK
    <3> QED BY <3>1 DEF ConnectingIsBacked
  <2>5. CASE StoreRemoved(p)
    BY <2>5 DEF StoreRemoved, ConnectingIsBacked
  <2> QED BY <1>6, <2>1, <2>2, <2>3, <2>4, <2>5 DEF RemoveStore, Shutdown
<1> QED BY <1>1, <1>2, <1>3, <1>4, <1>5, <1>6 DEF Next, Reconnection, Membership

(***************************************************************************)
(* A store whose status is "connecting" has a timer, a callback under way  *)
(* or its removal to end that status, for any number of callers whose      *)
(* additions, removals and shutdowns overlap.                              *)
(***************************************************************************)
THEOREM ConnectingBacked == Spec => []ConnectingIsBacked
<1>1. Init => StoreInv /\ ConnectingIsBacked
  BY StoreInit DEF Init, ConnectingIsBacked
<1>2. StoreInv /\ ConnectingIsBacked /\ [Next]_vars => (StoreInv /\ ConnectingIsBacked)'
  BY StoreStep, BackedStep
<1> QED BY <1>1, <1>2, PTL DEF Spec

-----------------------------------------------------------------------------
(***************************************************************************)
(* One caller and no removal: the map holds the only instance, and while   *)
(* a store stays connected its instance is open and followed.  With        *)
(* overlapping additions, or a removal beside a reconnection, the code     *)
(* does leak instances, so both are hypotheses.                            *)
(***************************************************************************)
OneCaller == \A p, q \in Callers : p = q

\* A store is added once, and the reconnection is one of its entry.
AddsOnce ==
  /\ \A p \in Callers : call[p] # "remove"
  /\ entry = 0 => open = {} /\ armed = {} /\ reconnects = {}
  /\ entry # 0 => /\ \A p \in Callers : call[p] = "idle"
                  /\ open \subseteq {info[entry].store}
  /\ \A r \in reconnects : r.of = entry
  /\ reconnects # {} => open = {}

Live(i) == i.store \in open /\ i.watch = i.store

\* The instance is shut down: the streams are not followed, nothing brings the network
\* status up or clears the stuck sync.
Dead(i) == i.watch = 0 /\ i.syncWatch = 0 /\ ~Recovered(i)

Watched ==
  entry # 0 => \/ reconnects = {} /\ Live(info[entry])
               \/ /\ Dead(info[entry])
                  /\ reconnects = {} => info[entry].status \in {"connecting", "error"}

\* The handlers leave the instance of the entry and what is followed as they are.
Kept(i, j) ==
  /\ j.store = i.store /\ j.watch = i.watch /\ j.syncWatch = i.syncWatch
  /\ j.net = i.net /\ j.sync = i.sync

LEMMA KeptRecords ==
  ASSUME NEW i \in Info
  PROVE  /\ Kept(i, i)
         /\ Online(i) \in Info /\ Kept(i, Online(i)) /\ Online(i).status = "connected"
         /\ Offline(i) \in Info /\ Kept(i, Offline(i)) /\ Offline(i).status = "disconnected"
         /\ \A n \in {"connected", "connecting", "disconnected", "error"} :
              /\ [i EXCEPT !.status = n] \in Info
              /\ Kept(i, [i EXCEPT !.status = n]) /\ [i EXCEPT !.status = n].status = n
<1>1. Kept(i, Online(i)) /\ Online(i).status = "connected"
  BY DEF Kept, Online, Info
<1>2. Kept(i, Offline(i)) /\ Offline(i).status = "disconnected"
  BY DEF Kept, Offline, Info
<1>3. \A n : Kept(i, [i EXCEPT !.status = n]) /\ [i EXCEPT !.status = n].status = n
  BY DEF Kept, Info
<1>4. Kept(i, i)
  BY DEF Kept
<1> QED BY <1>1, <1>2, <1>3, <1>4, RecordTypes

LEMMA ScheduleKeeps ==
  ASSUME TypeOK, entry # 0, NEW i \in Info, Schedule(entry, i)
  PROVE  Kept(i, info'[entry]) /\ info'[entry].status \in {i.status, "error", "connecting"}
<1>1. \E j : /\ j \in {i, [i EXCEPT !.status = "error"], [i EXCEPT !.status = "connecting"]}
             /\ SetInfo(entry, j)
  BY DEF Schedule
<1>2. PICK j : /\ j \in {i, [i EXCEPT !.status = "error"], [i EXCEPT !.status = "connecting"]}
               /\ info'[entry] = j
  BY <1>1, SetEntry
<1>3. Kept(i, i)
  BY KeptRecords
<1>4. \A n \in {"connecting", "error"} :
        Kept(i, [i EXCEPT !.status = n]) /\ [i EXCEPT !.status = n].status = n
  BY KeptRecords
<1> QED BY <1>2, <1>3, <1>4

LEMMA RecoverKeeps ==
  ASSUME TypeOK, entry # 0, NEW i \in Info, RecoverStuck(entry, i)
  PROVE  /\ Kept(i, info'[entry])
         /\ i.status # "connected" => info'[entry] = i
<1>1. CASE i.sync = "stuck" /\ i.status = "connected"
  <2>1. Kept(Offline(i), info'[entry])
    BY <1>1, KeptRecords, ScheduleKeeps DEF RecoverStuck
  <2>2. Kept(i, Offline(i))
    BY KeptRecords
  <2> QED BY <1>1, <2>1, <2>2 DEF Kept
<1>2. CASE ~(i.sync = "stuck" /\ i.status = "connected")
  BY <1>2, SetEntry, KeptRecords DEF RecoverStuck
<1> QED BY <1>1, <1>2

\* The health check changes the status only, and leaves a shut down store as it is.
LEMMA HealthKeeps ==
  ASSUME TypeOK, NEW overdue \in BOOLEAN, HealthCheck(overdue)
  PROVE  /\ entry # 0 /\ Kept(info[entry], info'[entry])
         /\ info[entry].status \in {"connecting", "error"}
              => info'[entry].status \in {"connecting", "error"}
<1> DEFINE i == info[entry]
<1>1. entry # 0 /\ i \in Info
  BY EntryType DEF HealthCheck
<1>2. PICK j \in {i, Online(i), Offline(i)} :
        /\ Schedule(entry, j) \/ RecoverStuck(entry, j)
        /\ i.status \in {"connecting", "error"} => j = i
  BY DEF HealthCheck
<1> HIDE DEF i
<1>3. j \in Info /\ Kept(i, j)
  BY <1>1, <1>2, KeptRecords
<1>4. Kept(j, info'[entry])
  BY <1>1, <1>2, <1>3, ScheduleKeeps, RecoverKeeps
<1>5. Kept(i, info'[entry])
  BY <1>3, <1>4 DEF Kept
<1>6. ASSUME i.status \in {"connecting", "error"}
      PROVE  info'[entry].status \in {"connecting", "error"}
  BY <1>1, <1>2, <1>3, <1>6, ScheduleKeeps, RecoverKeeps
<1> QED BY <1>1, <1>5, <1>6 DEF i

\* The events of the streams: the store stays, and the streams are followed on.
LEMMA StreamsKeep ==
  ASSUME TypeOK, SyncStalls \/ Streams
  PROVE  /\ entry # 0 /\ info'[entry].store = info[entry].store
         /\ UNCHANGED <<open, entry, reconnects, call>>
         /\ ~StreamEnds => info'[entry].watch = info[entry].watch
<1> DEFINE i == info[entry]
<1>1. entry # 0 /\ i \in Info
  BY EntryType DEF SyncStalls, Streams, FirstReport, NetworkRestored, NetworkLost, StreamEnds,
     SyncUpdate, HearsNetwork, HearsSync
<1>2. UNCHANGED <<open, entry, reconnects, call>>
  BY DEF SyncStalls, Streams, FirstReport, NetworkRestored, NetworkLost, StreamEnds, SyncUpdate,
     timerVars
<1>3. /\ \A n \in {"unknown", "up", "down"} :
           /\ [i EXCEPT !.net = n] \in Info
           /\ [i EXCEPT !.net = n].store = i.store /\ [i EXCEPT !.net = n].watch = i.watch
      /\ \A n \in {"unknown", "synced", "pending", "stuck"} :
           /\ [i EXCEPT !.sync = n] \in Info
           /\ [i EXCEPT !.sync = n].store = i.store /\ [i EXCEPT !.sync = n].watch = i.watch
      /\ [i EXCEPT !.watch = 0] \in Info /\ [i EXCEPT !.watch = 0].store = i.store
  <2>1. \A n : /\ [i EXCEPT !.net = n].store = i.store /\ [i EXCEPT !.net = n].watch = i.watch
               /\ [i EXCEPT !.sync = n].store = i.store /\ [i EXCEPT !.sync = n].watch = i.watch
               /\ [i EXCEPT !.watch = n].store = i.store
    BY <1>1 DEF Info
  <2> QED BY <1>1, <2>1, RecordTypes
<1> HIDE DEF i
<1>4. CASE SyncStalls
  <2>1. info'[entry] = [i EXCEPT !.sync = "stuck"]
    BY <1>1, <1>4, SetEntry DEF SyncStalls, i
  <2> QED BY <1>1, <1>2, <1>3, <2>1 DEF i
<1>5. CASE FirstReport \/ NetworkRestored \/ NetworkLost
  <2>1. PICK n \in {"up", "down"} :
          LET j == [i EXCEPT !.net = n] IN
          SetInfo(entry, j) \/ SetInfo(entry, Online(j)) \/ SetInfo(entry, Offline(j))
    BY <1>5 DEF FirstReport, NetworkRestored, NetworkLost, Reported, i
  <2> DEFINE j == [i EXCEPT !.net = n]
  <2>2. j \in Info /\ j.store = i.store /\ j.watch = i.watch
    BY <1>3
  <2>3. info'[entry] \in {j, Online(j), Offline(j)}
    BY <1>1, <2>1, SetEntry
  <2> HIDE DEF j
  <2>4. Kept(j, j) /\ Kept(j, Online(j)) /\ Kept(j, Offline(j))
    BY <2>2, KeptRecords
  <2>5. Kept(j, info'[entry])
    BY <2>3, <2>4
  <2> QED BY <1>1, <1>2, <2>2, <2>5 DEF Kept, i
<1>6. CASE StreamEnds
  <2> DEFINE j == [i EXCEPT !.watch = 0]
             k == [j EXCEPT !.net = "down"]
  <2>1. j \in Info /\ j.store = i.store
    BY <1>3
  <2>2. \/ Schedule(entry, Offline(k))
        \/ SetInfo(entry, j) /\ UNCHANGED timerVars
    BY <1>6 DEF StreamEnds, i
  <2>3. k \in Info /\ k.store = j.store
    <3> HIDE DEF j
    <3>1. k \in Info
      BY <2>1, RecordTypes
    <3> QED BY <2>1, <3>1 DEF Info
  <2> HIDE DEF j, k
  <2>4. Offline(k) \in Info /\ Offline(k).store = k.store
    BY <2>3, KeptRecords DEF Kept
  <2>5. info'[entry].store = i.store
    BY <1>1, <2>1, <2>2, <2>3, <2>4, SetEntry, ScheduleKeeps DEF Kept
  <2> QED BY <1>1, <1>2, <1>6, <2>5 DEF i
<1>7. CASE SyncUpdate
  <2>1. PICK s \in {"synced", "pending", "stuck"} : RecoverStuck(entry, [i EXCEPT !.sync = s])
    BY <1>7 DEF SyncUpdate, SyncStates, i
  <2>2. Kept([i EXCEPT !.sync = s], info'[entry])
    BY <1>1, <1>3, <2>1, RecoverKeeps
  <2> QED BY <1>1, <1>2, <1>3, <2>2 DEF Kept, i
<1> QED BY <1>4, <1>5, <1>6, <1>7 DEF Streams

LEMMA AddsKept ==
  ASSUME AddsOnce, UNCHANGED <<open, entry, reconnects, call>>,
         entry = 0 => armed' \subseteq armed,
         entry # 0 => info'[entry].store = info[entry].store
  PROVE  AddsOnce'
BY DEF AddsOnce

\* The steps a caller takes, without removals.
LEMMA AddsCalls ==
  ASSUME StoreInv, AddsOnce, OneCaller, NoRemoval, NEW p \in Callers,
         \/ AddStore(p)    \/ StoreAdded(p)   \/ AddFails(p)
         \/ RemoveStore(p) \/ StoreRemoved(p) \/ Shutdown(p)
  PROVE  /\ AddsOnce' /\ UNCHANGED <<reconnects, armed, mapped>>
         /\ \/ UNCHANGED <<open, info, entry>> /\ entry = 0
            \/ entry' # 0 /\ \E s : s \in open' /\ info'[entry'] = NewInfo(s)
<1>0. TypeOK
  BY DEF StoreInv
<1>1. ~RemoveStore(p) /\ ~Shutdown(p) /\ ~StoreRemoved(p)
  BY DEF NoRemoval, RemoveStore, Shutdown, StoreRemoved, AddsOnce
<1>2. CASE AddStore(p)
  <2>1. \A q \in Callers : call'[q] = "add"
    BY <1>0, <1>2 DEF AddStore, TypeOK, OneCaller
  <2> QED BY <1>2, <2>1 DEF AddStore, AddsOnce, timerVars
<1>3. CASE AddFails(p)
  <2>1. \A q \in Callers : call'[q] = "idle"
    BY <1>0, <1>3 DEF AddFails, TypeOK, OneCaller
  <2>2. entry = 0
    BY <1>3 DEF AddFails, AddsOnce
  <2> QED BY <1>3, <2>1, <2>2 DEF AddFails, AddsOnce, timerVars
<1>4. CASE StoreAdded(p)
  <2>1. PICK s, e : s = Unused(FreeStores) /\ e = Unused(FreeEntries)
    OBVIOUS
  <2>2. e \in FreeEntries /\ entry' = e /\ open' = open \cup {s}
        /\ UNCHANGED <<reconnects, armed, mapped>>
    BY <1>4, <2>1, UnusedType DEF StoreAdded, timerVars
  <2>3. e # 0 /\ e \in Referenced(e, reconnects)
    BY <2>2 DEF FreeEntries, Entries, Referenced
  <2>4. info'[entry'] = NewInfo(s)
    BY <1>4, <2>1, <2>2, <2>3 DEF StoreAdded
  <2>5. entry = 0 /\ open = {} /\ reconnects = {}
    BY <1>4 DEF StoreAdded, AddsOnce
  <2>6. \A q \in Callers : call'[q] = "idle"
    BY <1>0, <1>4 DEF StoreAdded, TypeOK, OneCaller
  <2>7. NewInfo(s).store = s
    BY DEF NewInfo
  <2>8. AddsOnce'
    BY <2>2, <2>3, <2>4, <2>5, <2>6, <2>7 DEF AddsOnce
  <2> QED BY <2>2, <2>3, <2>4, <2>8
<1> QED BY <1>1, <1>2, <1>3, <1>4

\* A callback that returns writes the entry of the map.
LEMMA ReconnectEntry ==
  ASSUME SlotInv, AddsOnce, NEW r \in reconnects, Reconnect(r)
  PROVE  /\ entry' = entry /\ entry # 0 /\ reconnects' = {} /\ UNCHANGED <<armed, call>>
         /\ \E s : open' = {s} /\ info'[entry].store = s /\ info'[entry].watch = s
<1>1. entry # 0 /\ r.of = entry /\ open = {} /\ reconnects = {r}
  BY DEF AddsOnce, SlotInv, Slot
<1>2. PICK s : s = Unused(FreeStores)
  OBVIOUS
<1> DEFINE fresh == [info[entry] EXCEPT !.store = s, !.attempts = 0, !.sync = "unknown",
                                        !.net = "unknown"]
<1>3. /\ entry' = entry /\ reconnects' = {} /\ UNCHANGED <<armed, call>>
      /\ open' = {s}
      /\ info' = [e \in Referenced(entry, reconnects') |->
                    LET i == IF e = entry THEN fresh ELSE info[e] IN
                    IF e = entry THEN Rejoined(i, s) ELSE i]
  BY <1>1, <1>2 DEF Reconnect
<1>4. entry \in Referenced(entry, reconnects')
  BY <1>1 DEF Referenced
<1>5. info'[entry] = Rejoined(fresh, s)
  BY <1>3, <1>4
<1>6. info[entry] \in Info
  BY <1>1, EntryType DEF SlotInv, StoreInv
<1>7. fresh.store = s /\ DOMAIN fresh = DOMAIN info[entry]
  BY <1>6 DEF Info
<1>8. Rejoined(fresh, s).store = fresh.store /\ Rejoined(fresh, s).watch = s
  BY <1>6 DEF Info, Rejoined, Follow
<1> QED BY <1>1, <1>3, <1>5, <1>7, <1>8

LEMMA FailsEntry ==
  ASSUME SlotInv, AddsOnce, NEW r \in reconnects, ReconnectFails(r)
  PROVE  /\ UNCHANGED <<entry, open, call>> /\ entry # 0 /\ reconnects' = {} /\ open = {}
         /\ Kept(info[entry], info'[entry])
         /\ info'[entry].status \in {"connecting", "error"}
<1>1. entry # 0 /\ r.of = entry /\ open = {} /\ reconnects = {r}
  BY DEF AddsOnce, SlotInv, Slot
<1>2. entry \in Referenced(entry, reconnects') /\ info[entry] \in Info
  BY <1>1, EntryType DEF Referenced, SlotInv, StoreInv
<1>3. PICK n \in {"connecting", "error"} : info'[entry] = [info[entry] EXCEPT !.status = n]
  BY <1>2 DEF ReconnectFails
<1>4. \A k :
        /\ Kept(info[entry], [info[entry] EXCEPT !.status = k])
        /\ [info[entry] EXCEPT !.status = k].status = k
  BY <1>2 DEF Kept, Info
<1>5. Kept(info[entry], info'[entry]) /\ info'[entry].status = n
  BY <1>3, <1>4
<1> QED BY <1>1, <1>5 DEF ReconnectFails

LEMMA FireReconnectEntry ==
  ASSUME SlotInv, AddsOnce, NEW t \in Timers, FireReconnect(t)
  PROVE  /\ entry' = entry /\ entry # 0 /\ UNCHANGED call /\ armed' \subseteq armed /\ open' = {}
         /\ reconnects' = {[timer |-> t, of |-> entry]}
         /\ info'[entry].store = info[entry].store /\ Dead(info'[entry])
<1>1. entry # 0 /\ t \in armed /\ reconnects = {} /\ open \subseteq {info[entry].store}
  BY DEF FireReconnect, AddsOnce, SlotInv, Slot
<1>2. info[entry] \in Info /\ TypeOK
  BY <1>1, EntryType DEF SlotInv, StoreInv
<1> DEFINE j == [info[entry] EXCEPT !.attempts = @ + 1]
<1>3. info'[entry] = Unfollow(j)
  BY <1>1, <1>2, SetEntry DEF FireReconnect
<1>4. /\ Unfollow(j).watch = 0 /\ Unfollow(j).syncWatch = 0
      /\ Unfollow(j).store = info[entry].store
      /\ Unfollow(j).net = info[entry].net /\ Unfollow(j).sync = info[entry].sync
  BY <1>2 DEF Info, Unfollow
<1>5. ~Recovered(info[entry])
  BY DEF FireReconnect
<1>6. Dead(info'[entry])
  BY <1>3, <1>4, <1>5 DEF Dead, Recovered
<1> QED BY <1>1, <1>3, <1>4, <1>6 DEF FireReconnect, Closed

LEMMA FireRecoveredEntry ==
  ASSUME SlotInv, NEW t \in Timers, FireRecovered(t)
  PROVE  /\ UNCHANGED <<entry, open, call, reconnects>> /\ entry # 0 /\ reconnects = {}
         /\ Kept(info[entry], info'[entry]) /\ Recovered(info[entry])
<1>1. entry # 0 /\ info[entry] \in Info /\ TypeOK
  BY EntryType DEF FireRecovered, SlotInv, StoreInv
<1>2. info'[entry] = Online(info[entry])
  BY <1>1, SetEntry DEF FireRecovered
<1>3. reconnects = {}
  BY DEF FireRecovered, SlotInv, Slot
<1> QED BY <1>1, <1>2, <1>3, KeptRecords DEF FireRecovered

LEMMA AddsStep ==
  ASSUME SlotInv, AddsOnce, OneCaller, NoRemoval, [Next]_vars
  PROVE  AddsOnce'
<1>0. TypeOK /\ StoreInv
  BY DEF SlotInv, StoreInv
<1>1. CASE LinkChanges \/ UNCHANGED vars
  BY <1>1, AddsKept DEF LinkChanges, vars, timerVars
<1>2. CASE SyncStalls \/ Streams
  BY <1>0, <1>2, StreamsKeep, AddsKept
<1>3. ASSUME NEW overdue \in BOOLEAN, HealthCheck(overdue) PROVE AddsOnce'
  BY <1>0, <1>3, HealthKeeps, AddsKept DEF HealthCheck, Kept
<1>4. ASSUME NEW t \in Timers, FireLate(t) \/ FireRecovered(t) \/ FireReconnect(t)
      PROVE  AddsOnce'
  <2>1. CASE FireLate(t)
    BY <2>1 DEF FireLate, AddsOnce
  <2>2. CASE FireRecovered(t)
    BY <2>2, FireRecoveredEntry, AddsKept DEF Kept
  <2>3. CASE FireReconnect(t)
    BY <2>3, FireReconnectEntry DEF AddsOnce
  <2> QED BY <1>4, <2>1, <2>2, <2>3
<1>5. ASSUME NEW r \in reconnects, Reconnect(r) PROVE AddsOnce'
  BY <1>5, ReconnectEntry DEF AddsOnce
<1>6. ASSUME NEW r \in reconnects, ReconnectFails(r) PROVE AddsOnce'
  BY <1>6, FailsEntry DEF AddsOnce
<1>7. CASE Membership
  BY <1>0, <1>7, AddsCalls DEF Membership
<1> QED BY <1>1, <1>2, <1>3, <1>4, <1>5, <1>6, <1>7 DEF Next, Reconnection

\* A store that is shut down hears no streams.
LEMMA DeadIsDeaf ==
  ASSUME TypeOK, entry # 0, Dead(info[entry])
  PROVE  ~HearsNetwork /\ ~HearsSync
BY DEF TypeOK, Stores, Dead, HearsNetwork, HearsSync, Hears

LEMMA WatchedStep ==
  ASSUME SlotInv, AddsOnce, Watched, OneCaller, NoRemoval, "status" \notin Faults, [Next]_vars
  PROVE  Watched'
<1>0. TypeOK /\ StoreInv
  BY DEF SlotInv, StoreInv
<1>1. CASE LinkChanges \/ UNCHANGED vars
  BY <1>1 DEF LinkChanges, vars, timerVars, Watched, Live
<1>2. CASE SyncStalls \/ Streams
  <2>1. /\ entry # 0 /\ info'[entry].store = info[entry].store
        /\ UNCHANGED <<open, entry, reconnects>> /\ info'[entry].watch = info[entry].watch
    BY <1>0, <1>2, StreamsKeep DEF StreamEnds
  <2>2. CASE Live(info[entry]) /\ reconnects = {}
    BY <2>1, <2>2 DEF Watched, Live
  <2>3. CASE Dead(info[entry]) /\ SyncStalls
    <3>1. info'[entry] = [info[entry] EXCEPT !.sync = "stuck"] /\ info[entry] \in Info
      BY <1>0, <2>1, <2>3, SetEntry, EntryType DEF SyncStalls
    <3>2. Dead(info'[entry]) /\ info'[entry].status = info[entry].status
      BY <2>3, <3>1 DEF Dead, Recovered, Info
    <3> QED BY <2>1, <2>3, <3>2 DEF Watched, SyncStalls, timerVars, Live, Dead
  <2>4. CASE Dead(info[entry]) /\ Streams
    BY <1>0, <2>1, <2>4, DeadIsDeaf
       DEF Streams, FirstReport, NetworkRestored, NetworkLost, StreamEnds, SyncUpdate
  <2> QED BY <1>2, <2>1, <2>2, <2>3, <2>4 DEF Watched
<1>3. ASSUME NEW overdue \in BOOLEAN, HealthCheck(overdue) PROVE Watched'
  <2>1. /\ entry # 0 /\ Kept(info[entry], info'[entry])
        /\ info[entry].status \in {"connecting", "error"}
             => info'[entry].status \in {"connecting", "error"}
        /\ UNCHANGED <<open, entry, reconnects>>
    BY <1>0, <1>3, HealthKeeps DEF HealthCheck
  <2> QED BY <2>1 DEF Watched, Kept, Live, Dead, Recovered
<1>4. ASSUME NEW t \in Timers, FireLate(t) \/ FireRecovered(t) \/ FireReconnect(t)
      PROVE  Watched'
  <2>1. CASE FireLate(t)
    BY <2>1 DEF FireLate, Watched
  <2>2. CASE FireRecovered(t)
    BY <2>2, FireRecoveredEntry DEF Watched, Kept, Live, Dead
  <2>3. CASE FireReconnect(t)
    BY <2>3, FireReconnectEntry DEF Watched
  <2> QED BY <1>4, <2>1, <2>2, <2>3
<1>5. ASSUME NEW r \in reconnects, Reconnect(r) PROVE Watched'
  BY <1>5, ReconnectEntry DEF Watched, Live
<1>6. ASSUME NEW r \in reconnects, ReconnectFails(r) PROVE Watched'
  <2>1. Dead(info[entry]) /\ entry # 0
    BY <1>6, FailsEntry DEF Watched
  <2> QED BY <1>6, <2>1, FailsEntry DEF Watched, Kept, Dead, Recovered
<1>7. CASE Membership
  <2>1. PICK p \in Callers : \/ AddStore(p)    \/ StoreAdded(p)   \/ AddFails(p)
                            \/ RemoveStore(p) \/ StoreRemoved(p) \/ Shutdown(p)
    BY <1>7 DEF Membership
  <2>2. entry = 0
    BY <2>1 DEF AddStore, StoreAdded, AddFails, RemoveStore, StoreRemoved, Shutdown, NoRemoval,
       AddsOnce
  <2>3. reconnects' = {}
    BY <1>0, <2>1, <2>2, AddsCalls DEF AddsOnce
  <2>4. CASE UNCHANGED entry
    BY <2>2, <2>4 DEF Watched
  <2>5. ASSUME NEW s, s \in open', info'[entry'] = NewInfo(s) PROVE Watched'
    BY <2>3, <2>5 DEF Watched, NewInfo, Live
  <2> QED BY <1>0, <2>1, <2>4, <2>5, AddsCalls
<1> QED BY <1>1, <1>2, <1>3, <1>4, <1>5, <1>6, <1>7 DEF Next, Reconnection

LEMMA AddsInit == Init => SlotInv /\ AddsOnce /\ Watched
BY StoreInit DEF Init, SlotInv, Slot, AddsOnce, Watched

(***************************************************************************)
(* No LiveStore instance leaks: what is not shut down is the instance the  *)
(* map holds, through any number of reconnections, failures, stream events *)
(* and health checks, as long as one caller adds the store and nothing     *)
(* removes it.                                                             *)
(***************************************************************************)
THEOREM NothingLeaks ==
  ASSUME OneCaller, NoRemoval
  PROVE  Spec => []NoLeak
<1>1. SlotInv /\ AddsOnce /\ [Next]_vars => (SlotInv /\ AddsOnce)'
  BY SlotStep, AddsStep
<1>2. SlotInv /\ AddsOnce => NoLeak
  BY DEF AddsOnce, NoLeak
<1> QED BY <1>1, <1>2, AddsInit, PTL DEF Spec

(***************************************************************************)
(* A store that says it is connected can be used and its network stream is *)
(* followed, through reconnections that fail and health checks that run    *)
(* meanwhile, as long as one caller adds it, nothing removes it and the    *)
(* network stream itself does not fail.                                    *)
(***************************************************************************)
THEOREM ConnectedWatched ==
  ASSUME OneCaller, NoRemoval, "status" \notin Faults
  PROVE  Spec => []ConnectedIsWatched
<1> DEFINE I == SlotInv /\ AddsOnce /\ Watched
<1>1. Init => I
  BY AddsInit
<1>2. I /\ [Next]_vars => I'
  BY SlotStep, AddsStep, WatchedStep
<1>3. I => ConnectedIsWatched
  BY DEF Watched, Live, Dead, Settled, ConnectedIsWatched
<1> HIDE DEF I
<1> QED BY <1>1, <1>2, <1>3, PTL DEF Spec

=============================================================================

--------------------------- MODULE Sessions_proofs ---------------------------
(***************************************************************************)
(* Theorems about Sessions for every number of tabs, calls and versions.   *)
(***************************************************************************)
EXTENDS Sessions, FiniteSetTheorems, TLAPS

(***************************************************************************)
(* An answer of the auth worker carries the version of its claims; without *)
(* that the stored tokens have no type.                                    *)
(***************************************************************************)
AnswersCarryVersion == \A c \in calls : c.at = "got" => c.ver \in Versions

(* The parts of TypeOK that belong together. *)
ClaimsOK ==
  /\ version \in Versions /\ granting \subseteq 0..version
  /\ kv \in 0..version /\ puts \subseteq 1..version
CacheOK == Cardinality(cached) <= 1 /\ cached \subseteq Versions \cup {None}
TabsOK ==
  /\ shown \in [Tabs -> {"in", "out", "closed"}]
  /\ payload \in [Tabs -> Versions \cup {None}]
  /\ online \subseteq {t \in Open : payload[t] # None}
  /\ events \subseteq Open
StorageOK == stored \in Tokens \cup {NoTokens} /\ lock \in Tabs \cup {Free} /\ ended \in BOOLEAN
CallsOK ==
  /\ calls \subseteq Calls
  /\ \A c \in calls : c.tab \in Open /\ (c.kind = "logout" <=> c.at = "bye")
  /\ AnswersCarryVersion

LEMMA TypeParts ==
  (TypeOK /\ AnswersCarryVersion) <=> (ClaimsOK /\ CacheOK /\ TabsOK /\ StorageOK /\ CallsOK)
BY DEF TypeOK, ClaimsOK, CacheOK, TabsOK, StorageOK, CallsOK

(* Tokens are never mistaken for their absence. *)
LEMMA TokensDiffer ==
  /\ \A x \in Tokens : x # NoTokens /\ x.ver \in Versions
  /\ \A v \in Versions : [ver |-> v, fresh |-> TRUE] \in Tokens
BY SessionAssumption DEF Tokens, NoTokens, None, Versions

-----------------------------------------------------------------------------
(* What the steps share: a tab leaves, a tab enters, a call moves or ends. *)

LEMMA LeavingTab ==
  ASSUME TabsOK, NEW t \in Tabs, shown[t] # "closed", Leaves(t, "out"),
         events' \subseteq Open
  PROVE  TabsOK' /\ Open' = Open
BY DEF TabsOK, Leaves, Open

LEMMA EnteringTab ==
  ASSUME TabsOK, NEW t \in Tabs, shown[t] # "closed", Enters(t), events' \subseteq Open,
         UNCHANGED link
  PROVE  TabsOK' /\ Open' = Open
BY DEF TabsOK, Enters, Open, link

LEMMA ReturningTab ==
  ASSUME TabsOK, NEW c \in Calls, shown[c.tab] # "closed", NEW v \in Versions,
         ReturnTokens(c, v), events' \subseteq Open
  PROVE  TabsOK' /\ Open' = Open
<1>1. c.tab \in Tabs
  BY DEF Calls
<1>2. v # None
  BY SessionAssumption DEF None, Versions
<1> QED BY <1>1, <1>2 DEF TabsOK, ReturnTokens, Enters, Open

LEMMA EndingCall ==
  ASSUME CallsOK, NEW c \in calls, Ends(c), Open' = Open
  PROVE  CallsOK'
BY DEF CallsOK, AnswersCarryVersion, Ends

LEMMA MovingCall ==
  ASSUME CallsOK, NEW c \in Calls, c.tab \in Open, c.kind # "logout",
         NEW at \in {"lock", "poll", "again", "fetch"}, Goes(c, at), Open' = Open
  PROVE  CallsOK'
<1> DEFINE d == [c EXCEPT !.at = at]
<1>1. d \in Calls /\ d.tab = c.tab /\ d.kind = c.kind /\ d.at = at
  BY DEF Calls
<1>2. calls' = (calls \ {c}) \cup {d}
  BY DEF Goes
<1> HIDE DEF d
<1> QED BY <1>1, <1>2 DEF CallsOK, AnswersCarryVersion

(* The storage: the lock is taken, the tab returns without tokens, all is cleared. *)
LEMMA SendingCall ==
  ASSUME TabsOK, StorageOK, CallsOK,
         NEW c \in Calls, c.tab \in Open, c.kind # "logout", Sends(c)
  PROVE  TabsOK' /\ StorageOK' /\ CallsOK'
<1>1. Open' = Open /\ TabsOK'
  BY DEF Sends, TabsOK, Open, link
<1>2. StorageOK'
  BY DEF Sends, StorageOK, Calls
<1>3. CallsOK'
  BY <1>1, MovingCall DEF Sends
<1> QED BY <1>1, <1>2, <1>3

LEMMA WaitingCall ==
  ASSUME TabsOK, StorageOK, CallsOK,
         NEW c \in Calls, c.tab \in Open, c.kind # "logout",
         NEW at \in {"lock", "poll", "again"}, Waiting(c, at)
  PROVE  TabsOK' /\ StorageOK' /\ CallsOK'
<1>1. Open' = Open /\ TabsOK' /\ StorageOK'
  BY DEF Waiting, browser, link, TabsOK, StorageOK, Open
<1> QED BY <1>1, MovingCall DEF Waiting

LEMMA ClearedStorage ==
  ASSUME TabsOK, StorageOK, NEW t \in Tabs, shown[t] # "closed", ClearAuth(t)
  PROVE  TabsOK' /\ StorageOK' /\ Open' = Open
<1>1. events' \subseteq Open /\ Leaves(t, "out")
  BY DEF ClearAuth, Tell, TabsOK
<1>2. StorageOK'
  BY DEF ClearAuth, StorageOK
<1> QED BY <1>1, <1>2, LeavingTab

LEMMA NothingStored ==
  ASSUME TabsOK, StorageOK, NEW t \in Tabs, shown[t] # "closed", ReturnNull(t)
  PROVE  TabsOK' /\ StorageOK' /\ Open' = Open
<1>1. events' \subseteq Open /\ Leaves(t, "out")
  BY DEF ReturnNull, TabsOK
<1>2. StorageOK'
  BY DEF ReturnNull, StorageOK
<1> QED BY <1>1, <1>2, LeavingTab

-----------------------------------------------------------------------------
(* Each action keeps the types.  The claims and the cache are changed by four *)
(* actions only.                                                              *)

BrowserOK == TabsOK /\ StorageOK /\ CallsOK

LEMMA InitTypes ==
  ASSUME Init
  PROVE  ClaimsOK /\ CacheOK /\ BrowserOK
<1>1. ClaimsOK
  BY SessionAssumption DEF Init, ClaimsOK, Versions
<1>2. CacheOK
  <2>1. cached = {} BY DEF Init
  <2>2. Cardinality({}) <= 1 BY FS_EmptySet
  <2> QED BY <2>1, <2>2 DEF CacheOK
<1>3. StorageOK
  <2>1. 0 \in Versions
    BY SessionAssumption DEF Versions
  <2> QED BY <2>1, TokensDiffer DEF Init, StorageOK
<1>4. TabsOK /\ CallsOK
  BY DEF Init, TabsOK, CallsOK, AnswersCarryVersion
<1> QED BY <1>1, <1>2, <1>3, <1>4 DEF BrowserOK

LEMMA ClaimsTypes ==
  ASSUME ClaimsOK, Bump \/ (\E v \in puts : PutLands(v))
  PROVE  ClaimsOK'
<1>1. CASE Bump
  BY <1>1, SessionAssumption DEF Bump, ClaimsOK, Versions
<1>2. CASE \E v \in puts : PutLands(v)
  BY <1>2, SessionAssumption DEF PutLands, ClaimsOK, Versions
<1> QED BY <1>1, <1>2

LEMMA ConnectTypes ==
  ASSUME ClaimsOK, CacheOK, TabsOK, NEW t \in Tabs, Connect(t)
  PROVE  CacheOK' /\ TabsOK'
<1>1. PICK latest \in Latest : cached' = {latest}
  BY DEF Connect
<1>2. latest \in Versions \cup {None}
  BY SessionAssumption DEF Latest, CacheOK, ClaimsOK, Versions
<1>3. CacheOK'
  BY <1>1, <1>2, FS_Singleton DEF CacheOK
<1>4. online' \subseteq online \cup {t} /\ t \in Open /\ payload[t] # None
  BY DEF Connect, Open
<1>5. UNCHANGED <<shown, payload, events>>
  BY DEF Connect, browser
<1>6. TabsOK'
  BY <1>4, <1>5 DEF TabsOK, Open
<1> QED BY <1>3, <1>6

LEMMA HearTypes ==
  ASSUME TabsOK, NEW t \in Tabs, Hear(t)
  PROVE  TabsOK' /\ Open' = Open
<1>1. shown[t] # "closed" /\ events' \subseteq Open
  BY DEF Hear, TabsOK, Open
<1>2. CASE stored = NoTokens
  BY <1>1, <1>2, LeavingTab DEF Hear
<1>3. CASE stored # NoTokens
  BY <1>1, <1>3, EnteringTab DEF Hear
<1> QED BY <1>2, <1>3

LEMMA StartsTypes ==
  ASSUME BrowserOK, NEW t \in Tabs, NEW k \in {"timer", "payload"}, Starts(t, k)
  PROVE  BrowserOK'
<1> DEFINE c == Call(t, k, "lock", None)
<1>1. shown[t] # "closed" /\ t \in Open
  BY DEF Starts, Open
<1>2. c \in Calls /\ c.tab = t /\ c.kind = k
  BY DEF Call, Calls, Kinds
<1>3. TabsOK /\ StorageOK /\ CallsOK
  BY DEF BrowserOK
<1>4. CASE stored = NoTokens /\ ReturnNull(t) /\ UNCHANGED calls
  <2>1. TabsOK' /\ StorageOK' /\ Open' = Open
    BY <1>1, <1>3, <1>4, NothingStored
  <2> QED BY <1>3, <1>4, <2>1 DEF BrowserOK, CallsOK, AnswersCarryVersion
<1>5. CASE /\ stored.fresh /\ k = "payload"
           /\ ReturnTokens(c, stored.ver)
           /\ UNCHANGED <<stored, lock, events, calls, ended>>
  <2>1. stored.ver \in Versions
    BY <1>3, <1>5, TokensDiffer DEF StorageOK, NoTokens
  <2>2. TabsOK' /\ Open' = Open
    BY <1>1, <1>2, <1>3, <1>5, <2>1, ReturningTab DEF TabsOK
  <2> QED BY <1>3, <1>5, <2>2 DEF BrowserOK, StorageOK, CallsOK, AnswersCarryVersion
<1>6. CASE IF LockFree(t) THEN Sends(c) ELSE Waiting(c, "lock")
  <2> HIDE DEF c
  <2> QED BY <1>1, <1>2, <1>3, <1>6, SendingCall, WaitingCall DEF BrowserOK
<1> QED BY <1>4, <1>5, <1>6 DEF Starts

LEMMA StepTypes ==
  ASSUME ClaimsOK, BrowserOK, NEW c \in calls, CallStep(c) \/ RequestFails(c)
  PROVE  BrowserOK'
<1>1. TabsOK /\ StorageOK /\ CallsOK /\ c \in Calls /\ c.tab \in Open /\ c.tab \in Tabs
  BY DEF BrowserOK, CallsOK, Calls
<1>2. shown[c.tab] # "closed" /\ (c.at # "bye" => c.kind # "logout")
  BY <1>1 DEF CallsOK, Open
<1>3. ASSUME Ends(c), ReturnNull(c.tab)
      PROVE  BrowserOK'
  BY <1>1, <1>2, <1>3, NothingStored, EndingCall DEF BrowserOK
<1>4. ASSUME Ends(c), ClearAuth(c.tab)
      PROVE  BrowserOK'
  BY <1>1, <1>2, <1>4, ClearedStorage, EndingCall DEF BrowserOK
<1>5. CASE TakeLock(c)
  BY <1>1, <1>2, <1>3, <1>5, SendingCall DEF TakeLock, BrowserOK
<1>6. CASE GiveUp(c)
  BY <1>1, <1>2, <1>6, WaitingCall DEF GiveUp, BrowserOK
<1>7. CASE Poll(c)
  <2>1. CASE stored # NoTokens /\ stored.fresh
    <3>1. /\ Ends(c) /\ ReturnTokens(c, stored.ver)
          /\ UNCHANGED <<stored, lock, events, ended>>
      BY <1>7, <2>1 DEF Poll
    <3>2. stored.ver \in Versions
      BY <1>1, <2>1, TokensDiffer DEF StorageOK
    <3>3. TabsOK' /\ Open' = Open
      BY <1>1, <1>2, <3>1, <3>2, ReturningTab DEF TabsOK
    <3> QED BY <1>1, <3>1, <3>3, EndingCall DEF BrowserOK, StorageOK
  <2>2. CASE stored = NoTokens
    <3>1. ~stored.fresh
      BY <2>2 DEF NoTokens
    <3> QED BY <1>3, <1>7, <2>2, <3>1 DEF Poll
  <2>3. CASE stored # NoTokens /\ ~stored.fresh
    BY <1>1, <1>2, <1>7, <2>3, SendingCall, WaitingCall DEF Poll, BrowserOK
  <2> QED BY <2>1, <2>2, <2>3
<1>8. CASE Serve(c)
  <2> DEFINE d == [c EXCEPT !.at = "got", !.ver = version]
  <2>1. /\ d \in Calls /\ d.tab = c.tab /\ d.kind = c.kind /\ d.at = "got"
        /\ d.ver \in Versions
    BY <1>1 DEF Calls, ClaimsOK
  <2>2. calls' = (calls \ {c}) \cup {d} /\ c.kind # "logout" /\ UNCHANGED <<browser, link, ended>>
    BY <1>2, <1>8 DEF Serve
  <2> HIDE DEF d
  <2>3. TabsOK' /\ StorageOK' /\ Open' = Open
    BY <1>1, <2>2 DEF TabsOK, StorageOK, Open, browser, link
  <2> QED BY <1>1, <2>1, <2>2, <2>3 DEF BrowserOK, CallsOK, AnswersCarryVersion
<1>9. CASE StoreTokens(c)
  <2>1. c.ver \in Versions
    BY <1>1, <1>9 DEF StoreTokens, CallsOK, AnswersCarryVersion
  <2>2. events' \subseteq Open
    BY <1>1, <1>9 DEF StoreTokens, Tell, TabsOK
  <2>3. TabsOK' /\ Open' = Open
    BY <1>1, <1>2, <1>9, <2>1, <2>2, ReturningTab DEF StoreTokens
  <2>4. StorageOK'
    BY <1>1, <1>9, <2>1, TokensDiffer DEF StoreTokens, StorageOK
  <2> QED BY <1>1, <1>9, <2>3, <2>4, EndingCall DEF StoreTokens, BrowserOK
<1>10. CASE Bye(c)
  BY <1>4, <1>10 DEF Bye
<1>11. CASE RequestFails(c)
  BY <1>4, <1>11 DEF RequestFails
<1> QED BY <1>5, <1>6, <1>7, <1>8, <1>9, <1>10, <1>11 DEF CallStep

LEMMA UserTypes ==
  ASSUME ClaimsOK, BrowserOK, NEW t \in Tabs, Logout(t) \/ Login(t) \/ Close(t)
  PROVE  BrowserOK'
<1>1. TabsOK /\ StorageOK /\ CallsOK
  BY DEF BrowserOK
<1>2. CASE Logout(t)
  <2>1. shown[t] # "closed" /\ t \in Open
    BY <1>2 DEF Logout, Open
  <2>2. CASE stored = NoTokens
    <3>1. TabsOK' /\ StorageOK' /\ Open' = Open /\ UNCHANGED calls
      BY <1>1, <1>2, <2>1, <2>2, ClearedStorage DEF Logout
    <3> QED BY <1>1, <3>1 DEF BrowserOK, CallsOK, AnswersCarryVersion
  <2>3. CASE stored # NoTokens
    <3> DEFINE d == Call(t, "logout", "bye", None)
    <3>1. d \in Calls /\ d.tab = t /\ d.kind = "logout" /\ d.at = "bye"
      BY DEF Call, Calls, Kinds
    <3>2. calls' = calls \cup {d} /\ UNCHANGED <<browser, link, ended>>
      BY <1>2, <2>3 DEF Logout
    <3> HIDE DEF d
    <3>3. TabsOK' /\ StorageOK' /\ Open' = Open
      BY <1>1, <3>2 DEF TabsOK, StorageOK, Open, browser, link
    <3> QED BY <1>1, <2>1, <3>1, <3>2, <3>3 DEF BrowserOK, CallsOK, AnswersCarryVersion
  <2> QED BY <2>2, <2>3
<1>3. CASE Login(t)
  <2>1. shown[t] # "closed" /\ events' \subseteq Open
    BY <1>1, <1>3 DEF Login, Tell, TabsOK
  <2>2. TabsOK' /\ Open' = Open
    BY <1>1, <1>3, <2>1, EnteringTab DEF Login
  <2>3. StorageOK'
    BY <1>1, <1>3, TokensDiffer DEF Login, StorageOK, ClaimsOK
  <2> QED BY <1>1, <1>3, <2>2, <2>3 DEF Login, BrowserOK, CallsOK, AnswersCarryVersion
<1>4. CASE Close(t)
  <2>1. Open' = Open \ {t}
    BY <1>1, <1>4 DEF Close, Leaves, Open, TabsOK
  <2>2. TabsOK'
    BY <1>1, <1>4, <2>1 DEF Close, Leaves, Open, TabsOK
  <2>3. StorageOK' /\ CallsOK'
    BY <1>1, <1>4, <2>1 DEF Close, StorageOK, CallsOK, AnswersCarryVersion
  <2> QED BY <2>2, <2>3 DEF BrowserOK
<1> QED BY <1>2, <1>3, <1>4

-----------------------------------------------------------------------------
(* The types, together with what an answer carries, are inductive. *)

AllTypes == ClaimsOK /\ CacheOK /\ BrowserOK

LEMMA NextTypes ==
  ASSUME AllTypes, [Next]_vars
  PROVE  AllTypes'
<1> USE DEF AllTypes
<1>1. TabsOK /\ StorageOK /\ CallsOK
  BY DEF BrowserOK
<1>2. ASSUME UNCHANGED <<browser, link, calls, ended>>
      PROVE  BrowserOK'
  BY <1>1, <1>2 DEF BrowserOK, TabsOK, StorageOK, CallsOK, AnswersCarryVersion, Open, browser, link
<1>3. ASSUME UNCHANGED <<claims, cached>>
      PROVE  ClaimsOK' /\ CacheOK'
  BY <1>3 DEF ClaimsOK, CacheOK, claims
<1>4. CASE Bump \/ \E v \in puts : PutLands(v)
  <2>1. UNCHANGED <<cached, browser, link, calls, ended>>
    BY <1>4 DEF Bump, PutLands
  <2>2. CacheOK'
    BY <2>1 DEF CacheOK
  <2> QED BY <1>2, <1>4, <2>1, <2>2, ClaimsTypes
<1>5. CASE CacheExpires
  <2>1. cached' = {} /\ UNCHANGED <<claims, browser, link, calls, ended>>
    BY <1>5 DEF CacheExpires
  <2>2. Cardinality({}) <= 1
    BY FS_EmptySet
  <2>3. ClaimsOK' /\ CacheOK'
    BY <2>1, <2>2 DEF ClaimsOK, CacheOK, claims
  <2> QED BY <1>2, <2>1, <2>3
<1>6. CASE LockExpires
  <2>1. UNCHANGED <<claims, cached>> /\ TabsOK' /\ StorageOK' /\ CallsOK'
    BY <1>1, <1>6 DEF LockExpires, TabsOK, StorageOK, CallsOK, AnswersCarryVersion, Open, link
  <2> QED BY <1>3, <2>1 DEF BrowserOK
<1>7. CASE Age
  <2>1. UNCHANGED <<claims, cached>> /\ TabsOK' /\ CallsOK'
    BY <1>1, <1>7 DEF Age, TabsOK, CallsOK, AnswersCarryVersion, Open, link
  <2>2. stored \in Tokens
    BY <1>1, <1>7 DEF Age, StorageOK, NoTokens
  <2>3. StorageOK'
    BY <1>1, <1>7, <2>2 DEF Age, StorageOK, Tokens
  <2> QED BY <1>3, <2>1, <2>3 DEF BrowserOK
<1>8. ASSUME NEW t \in Tabs, Connect(t)
      PROVE  AllTypes'
  <2>1. CacheOK' /\ TabsOK'
    BY <1>1, <1>8, ConnectTypes
  <2>2. UNCHANGED <<claims, browser, calls, ended>>
    BY <1>8 DEF Connect
  <2>3. ClaimsOK' /\ StorageOK' /\ CallsOK'
    BY <1>1, <2>2 DEF claims, browser, ClaimsOK, StorageOK, CallsOK, AnswersCarryVersion, Open
  <2> QED BY <2>1, <2>3 DEF BrowserOK
<1>9. ASSUME NEW t \in Tabs, Drop(t)
      PROVE  AllTypes'
  <2>1. UNCHANGED <<claims, cached>> /\ TabsOK' /\ StorageOK' /\ CallsOK'
    BY <1>1, <1>9 DEF Drop, browser, TabsOK, StorageOK, CallsOK, AnswersCarryVersion, Open
  <2> QED BY <1>3, <2>1 DEF BrowserOK
<1>10. ASSUME NEW t \in Tabs, Hear(t)
       PROVE  AllTypes'
  <2>1. TabsOK' /\ Open' = Open /\ UNCHANGED <<claims, cached, stored, lock, calls, ended>>
    BY <1>1, <1>10, HearTypes DEF Hear
  <2>2. StorageOK' /\ CallsOK'
    BY <1>1, <2>1 DEF StorageOK, CallsOK, AnswersCarryVersion
  <2> QED BY <1>3, <2>1, <2>2 DEF BrowserOK
<1>11. ASSUME NEW t \in Tabs, StartTimer(t) \/ StartPayload(t)
       PROVE  AllTypes'
  <2>1. PICK k \in {"timer", "payload"} : Starts(t, k)
    BY <1>11 DEF StartTimer, StartPayload
  <2>2. UNCHANGED <<claims, cached>>
    BY <2>1 DEF Starts
  <2> QED BY <1>3, <2>1, <2>2, StartsTypes
<1>12. ASSUME NEW t \in Tabs, Logout(t) \/ Login(t) \/ Close(t)
       PROVE  AllTypes'
  <2>1. UNCHANGED <<claims, cached>>
    BY <1>12 DEF Logout, Login, Close
  <2> QED BY <1>3, <1>12, <2>1, UserTypes
<1>13. ASSUME NEW c \in calls, CallStep(c) \/ RequestFails(c)
       PROVE  AllTypes'
  <2>1. UNCHANGED <<claims, cached>>
    BY <1>13 DEF CallStep, TakeLock, GiveUp, Poll, Serve, StoreTokens, Bye, RequestFails
  <2> QED BY <1>3, <1>13, <2>1, StepTypes
<1>14. CASE UNCHANGED vars
  BY <1>2, <1>3, <1>14 DEF vars
<1> QED BY <1>4, <1>5, <1>6, <1>7, <1>8, <1>9, <1>10, <1>11, <1>12, <1>13, <1>14 DEF Next

(* What every proof below rests on. *)
LEMMA AlwaysTyped == Spec => []AllTypes
<1>1. Init => AllTypes
  BY InitTypes DEF AllTypes
<1>2. AllTypes /\ [Next]_vars => AllTypes'
  BY NextTypes
<1> QED BY <1>1, <1>2, PTL DEF Spec

\* Every reachable state has the declared types, for every number of tabs, calls
\* and versions; in particular what a tab stores or passes to the sync payload is a
\* version the auth worker has issued.
THEOREM TypeCorrect == Spec => []TypeOK
<1>1. AllTypes => TypeOK
  BY TypeParts DEF AllTypes, BrowserOK
<1> QED BY <1>1, AlwaysTyped, PTL

-----------------------------------------------------------------------------
(* Sessions end for a reason. *)

LEMMA SurvivesStep ==
  ASSUME AllTypes, SessionSurvives, [Next]_vars
  PROVE  SessionSurvives'
<1> SUFFICES ASSUME ~ended'
             PROVE  /\ stored' # NoTokens
                    /\ \A t \in Open' : shown'[t] = "in" \/ t \in events'
  BY DEF SessionSurvives
<1>1. TabsOK /\ StorageOK /\ CallsOK /\ ClaimsOK
  BY DEF AllTypes, BrowserOK
<1>2. CASE UNCHANGED <<stored, shown, events, ended>>
  BY <1>2 DEF SessionSurvives, Open
<1>3. ASSUME ~ended
      PROVE  stored # NoTokens /\ \A t \in Open : shown[t] = "in" \/ t \in events
  BY <1>3 DEF SessionSurvives
<1>4. ASSUME NEW c \in Calls, NEW v, c.tab \in Open, ReturnTokens(c, v),
             UNCHANGED <<stored, events, ended>>
      PROVE  SessionSurvives'
  BY <1>1, <1>4 DEF SessionSurvives, ReturnTokens, Enters, Open, TabsOK, Calls
<1>5. ASSUME NEW t, ReturnNull(t), stored = NoTokens
      PROVE  FALSE
  BY <1>3, <1>5 DEF ReturnNull
<1>6. ASSUME NEW t, ClearAuth(t)
      PROVE  FALSE
  BY <1>6 DEF ClearAuth
<1>7. CASE Age
  <2>1. stored \in Tokens
    BY <1>1, <1>7 DEF Age, StorageOK, NoTokens
  <2>2. stored' # NoTokens
    BY <1>7, <2>1, SessionAssumption DEF Age, Tokens, NoTokens, Versions, None
  <2> QED BY <1>3, <1>7, <2>2 DEF Age, Open
<1>8. ASSUME NEW t \in Tabs, Hear(t)
      PROVE  SessionSurvives'
  <2>1. ~ended /\ stored # NoTokens /\ stored' = stored /\ events' = events \ {t} /\ Enters(t)
    BY <1>3, <1>8 DEF Hear
  <2> QED BY <1>1, <1>3, <2>1 DEF Enters, SessionSurvives, Open, TabsOK
<1>9. ASSUME NEW t \in Tabs, NEW k \in {"timer", "payload"}, Starts(t, k)
      PROVE  SessionSurvives'
  <2> DEFINE c == Call(t, k, "lock", None)
  <2>1. c \in Calls /\ c.tab = t /\ t \in Open
    BY <1>9 DEF Call, Calls, Kinds, Starts, Open
  <2>2. CASE ReturnTokens(c, stored.ver) /\ UNCHANGED <<stored, lock, events, calls, ended>>
    <3> HIDE DEF c
    <3> QED BY <1>4, <2>1, <2>2
  <2>3. CASE UNCHANGED <<stored, shown, events, ended>>
    BY <1>3, <2>3 DEF SessionSurvives, Open
  <2>4. CASE stored = NoTokens /\ ReturnNull(t)
    BY <1>5, <2>4
  <2> HIDE DEF c
  <2>5. Sends(c) \/ Waiting(c, "lock") => UNCHANGED <<stored, shown, events, ended>>
    BY DEF Sends, Waiting, browser
  <2> QED BY <1>9, <2>2, <2>3, <2>4, <2>5 DEF Starts, c
<1>10. ASSUME NEW c \in calls, CallStep(c) \/ RequestFails(c)
       PROVE  SessionSurvives'
  <2>1. c \in Calls /\ c.tab \in Open /\ c.tab \in Tabs
    BY <1>1 DEF CallsOK, Calls
  <2>2. CASE UNCHANGED <<stored, shown, events, ended>>
    BY <1>3, <2>2 DEF SessionSurvives, Open
  <2>3. ASSUME NEW at, Sends(c) \/ Waiting(c, at)
        PROVE  UNCHANGED <<stored, shown, events, ended>>
    BY <2>3 DEF Sends, Waiting, browser
  <2>4. CASE TakeLock(c)
    BY <1>5, <2>2, <2>3, <2>4 DEF TakeLock
  <2>5. CASE GiveUp(c)
    BY <2>2, <2>3, <2>5 DEF GiveUp
  <2>6. CASE Poll(c)
    <3>1. stored # NoTokens
      BY <1>5, <2>6 DEF Poll, NoTokens
    <3>2. CASE stored.fresh
      <4>1. ReturnTokens(c, stored.ver) /\ UNCHANGED <<stored, events, ended>>
        BY <2>6, <3>1, <3>2 DEF Poll
      <4> QED BY <1>4, <2>1, <4>1
    <3>3. CASE ~stored.fresh
      BY <2>2, <2>3, <2>6, <3>1, <3>3 DEF Poll
    <3> QED BY <3>2, <3>3
  <2>7. CASE Serve(c)
    BY <2>2, <2>7 DEF Serve, browser
  <2>8. CASE StoreTokens(c)
    <3>1. c.ver \in Versions
      BY <1>1, <2>8 DEF StoreTokens, CallsOK, AnswersCarryVersion
    <3>2. stored' # NoTokens
      BY <2>8, <3>1, TokensDiffer DEF StoreTokens
    <3>3. events' = events \cup (Open \ {c.tab}) /\ Enters(c.tab)
      BY <2>8 DEF StoreTokens, Tell, ReturnTokens
    <3> QED BY <1>1, <2>1, <3>2, <3>3 DEF SessionSurvives, Enters, Open, TabsOK
  <2>9. CASE Bye(c) \/ RequestFails(c)
    BY <1>6, <2>9 DEF Bye, RequestFails
  <2> QED BY <1>10, <2>4, <2>5, <2>6, <2>7, <2>8, <2>9 DEF CallStep
<1>11. ASSUME NEW t \in Tabs, Logout(t)
       PROVE  SessionSurvives'
  <2>1. UNCHANGED <<stored, shown, events, ended>>
    BY <1>6, <1>11 DEF Logout, browser
  <2> QED BY <1>3, <2>1 DEF SessionSurvives, Open
<1>12. ASSUME NEW t \in Tabs, Login(t)
       PROVE  SessionSurvives'
  <2>1. stored' # NoTokens
    BY <1>1, <1>12, TokensDiffer DEF Login, ClaimsOK
  <2>2. events' = events \cup (Open \ {t}) /\ Enters(t)
    BY <1>12 DEF Login, Tell
  <2> QED BY <1>1, <2>1, <2>2 DEF SessionSurvives, Enters, Open, TabsOK
<1>13. ASSUME NEW t \in Tabs, Close(t)
       PROVE  SessionSurvives'
  BY <1>1, <1>3, <1>13 DEF Close, Leaves, SessionSurvives, Open, TabsOK
<1>14. ASSUME Bump \/ (\E v \in puts : PutLands(v)) \/ CacheExpires \/ LockExpires
              \/ (\E t \in Tabs : Connect(t) \/ Drop(t)) \/ UNCHANGED vars
       PROVE  UNCHANGED <<stored, shown, events, ended>>
  BY <1>14 DEF Bump, PutLands, CacheExpires, LockExpires, Connect, Drop, vars, browser
<1>15. ASSUME SessionSurvives'
       PROVE  /\ stored' # NoTokens
              /\ \A t \in Open' : shown'[t] = "in" \/ t \in events'
  BY <1>15 DEF SessionSurvives
<1> QED BY <1>2, <1>7, <1>8, <1>9, <1>10, <1>11, <1>12, <1>13, <1>14, <1>15
        DEF Next, StartTimer, StartPayload

\* A session ends only by a logout or a failed request, whatever the tabs, the lock
\* and its expiry do, and an open tab that does not show it has an event to handle.
THEOREM SessionsSurvive == Spec => []SessionSurvives
<1>1. Init => SessionSurvives
  BY SessionAssumption DEF Init, SessionSurvives, NoTokens, None, Open
<1>2. AllTypes /\ SessionSurvives /\ [Next]_vars => SessionSurvives'
  BY SurvivesStep
<1> QED BY <1>1, <1>2, AlwaysTyped, PTL DEF Spec

-----------------------------------------------------------------------------
(* Removed members are refused. *)

LEMMA RefusedStep ==
  ASSUME AllTypes, [Next]_vars,
         version \notin granting, kv = version, cached' \subseteq {version}
  PROVE  online' \subseteq online
<1>1. ClaimsOK /\ TabsOK
  BY DEF AllTypes, BrowserOK
<1>2. ASSUME NEW t \in Tabs, Connect(t)
      PROVE  online' \subseteq online
  <2>1. PICK latest \in Latest :
          /\ cached' = {latest}
          /\ online' = IF Admits(payload[t], latest) THEN online \cup {t} ELSE online
    BY <1>2 DEF Connect
  <2>2. latest = version /\ latest # None
    BY <1>1, <2>1, SessionAssumption DEF ClaimsOK, Versions, None
  <2>3. ~Admits(payload[t], latest)
    <3>1. SUFFICES ASSUME payload[t] >= version, payload[t] \in granting
                   PROVE  FALSE
      BY <2>2 DEF Admits
    <3>2. version \in Nat
      BY <1>1, SessionAssumption DEF ClaimsOK, Versions
    <3>3. granting \subseteq 0..version
      BY <1>1 DEF ClaimsOK
    <3>4. payload[t] \in 0..version
      BY <3>1, <3>3
    <3>5. payload[t] = version
      BY <3>1, <3>2, <3>4
    <3> QED BY <3>1, <3>5
  <2> QED BY <2>1, <2>3
<1>3. ASSUME NEW t \in Tabs, NEW to, Leaves(t, to)
      PROVE  online' \subseteq online
  BY <1>3 DEF Leaves
<1>4. ASSUME NEW c, NEW v, ReturnTokens(c, v)
      PROVE  online' \subseteq online
  BY <1>4 DEF ReturnTokens
<1>5. ASSUME NEW t, Drop(t) \/ Login(t)
      PROVE  online' \subseteq online
  BY <1>5 DEF Drop, Login, link
<1>6. ASSUME NEW t \in Tabs, Hear(t) \/ Logout(t) \/ Close(t)
      PROVE  online' \subseteq online
  BY <1>3, <1>6 DEF Hear, Logout, Close, ClearAuth, link
<1>7. ASSUME NEW c, NEW at, Sends(c) \/ Waiting(c, at)
      PROVE  online' \subseteq online
  BY <1>7 DEF Sends, Waiting, link
<1>8. ASSUME NEW t \in Tabs, NEW k, Starts(t, k)
      PROVE  online' \subseteq online
  BY <1>3, <1>4, <1>7, <1>8 DEF Starts, ReturnNull
<1>9. ASSUME NEW c \in calls, CallStep(c) \/ RequestFails(c)
      PROVE  online' \subseteq online
  <2>1. c.tab \in Tabs
    BY DEF AllTypes, BrowserOK, CallsOK, Calls
  <2>2. CASE ReturnNull(c.tab) \/ ClearAuth(c.tab)
    BY <1>3, <2>1, <2>2 DEF ReturnNull, ClearAuth
  <2>3. CASE TakeLock(c) \/ GiveUp(c)
    BY <1>7, <2>2, <2>3 DEF TakeLock, GiveUp
  <2>4. CASE Poll(c)
    <3>1. CASE stored = NoTokens
      BY <2>2, <2>4, <3>1 DEF Poll, NoTokens
    <3>2. CASE stored # NoTokens /\ stored.fresh
      <4>1. ReturnTokens(c, stored.ver)
        BY <2>4, <3>2 DEF Poll
      <4> QED BY <1>4, <4>1
    <3>3. CASE stored # NoTokens /\ ~stored.fresh
      BY <1>7, <2>4, <3>3 DEF Poll
    <3> QED BY <3>1, <3>2, <3>3
  <2>5. CASE Serve(c)
    BY <2>5 DEF Serve, link
  <2>6. CASE StoreTokens(c)
    BY <1>4, <2>6 DEF StoreTokens
  <2>7. CASE Bye(c) \/ RequestFails(c)
    BY <2>2, <2>7 DEF Bye, RequestFails
  <2> QED BY <1>9, <2>3, <2>4, <2>5, <2>6, <2>7 DEF CallStep
<1>10. ASSUME Bump \/ (\E v \in puts : PutLands(v)) \/ CacheExpires \/ LockExpires \/ Age
              \/ UNCHANGED vars
       PROVE  online' \subseteq online
  BY <1>10 DEF Bump, PutLands, CacheExpires, LockExpires, Age, vars, link
<1> QED BY <1>2, <1>5, <1>6, <1>8, <1>9, <1>10 DEF Next, StartTimer, StartPayload

\* Once KV holds the version without the workspace and the cache holds no older
\* one, no connection opens any more, whatever tokens the tabs still have.
THEOREM RemovedAreRefused == Spec => RemovedIsRefused
<1>1. AllTypes /\ [Next]_vars =>
        ((version \notin granting /\ kv = version /\ cached' \subseteq {version})
          => online' \subseteq online)
  BY RefusedStep
<1> QED BY <1>1, AlwaysTyped, PTL DEF Spec, RemovedIsRefused
=============================================================================

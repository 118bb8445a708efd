------------------------- MODULE BrowserStore_proofs -------------------------
(***************************************************************************)
(* Proofs about BrowserStore, for every number of tabs, tokens and         *)
(* repairs and every set of faults.                                        *)
(*                                                                         *)
(* Everything is about one tab at a time: Fit says of the record of a tab  *)
(* that it is well-typed, that a restart is pending only for a tab that    *)
(* has had a store, and that a pending one is heard unless it was lost.    *)
(* The lemmas show that what the actions do to a tab keeps Fit.            *)
(***************************************************************************)
EXTENDS BrowserStore, TLAPS

Heard(b) == b.pending => b.hasStore /\ (b.closing \/ b.lost = "late")

Fit(b) == b \in Tab /\ Heard(b)

\* The inductive invariant.
TabsFit ==
  /\ TypeOK
  /\ \A t \in Tabs : Heard(tab[t])

----------------------------------------------------------------------------
\* Nothing is in every range of a tab's numbers.
LEMMA Zeros ==
  ASSUME TRUE
  PROVE  0 \in 0..MaxTokens /\ 0 \in 0..MaxRequests /\ 0 \in 0..Threshold
  BY BrowserAssumption

\* What the parts of the program do to a tab that is fit leaves it fit.
LEMMA AwayIsFit ==
  ASSUME TRUE
  PROVE  Fit(Away)
  BY BrowserAssumption DEF Fit, Heard, Away, Tab, Pages, NoToken

\* requestRestart, whether it is heard, refused or lost.
LEMMA RestartKeepsFit ==
  ASSUME NEW b, Fit(b)
  PROVE  Fit(RequestRestart(b))
  BY DEF Fit, Heard, RequestRestart, Tab, Pages

\* A mount of the provider, for a request that exists, of a tab with no pending restart.
LEMMA MountIsFit ==
  ASSUME NEW b, b \in Tab, ~b.pending, NEW wanted \in 0..MaxRequests
  PROVE  Fit(Mount(b, wanted))
  <1> DEFINE e == wanted # 0 /\ b.reset = 0
  <1>1. e \in BOOLEAN
    OBVIOUS
  <1>2. Mount(b, wanted) =
          [b EXCEPT !.page = "booting", !.given = b.payload, !.closing = FALSE,
                    !.reset = wanted, !.consume = e, !.stalls = 0, !.lost = "none"]
    BY DEF Mount
  <1> HIDE DEF e
  <1>3. Fit([b EXCEPT !.page = "booting", !.given = b.payload, !.closing = FALSE,
                      !.reset = wanted, !.consume = e, !.stalls = 0, !.lost = "none"])
    BY <1>1, Zeros DEF Fit, Heard, Tab, Pages
  <1> QED BY <1>2, <1>3

\* A boot ends with a store or with the prompt of the boundary.
LEMMA BootKeepsFit ==
  ASSUME NEW b, Fit(b)
  PROVE  /\ Fit([b EXCEPT !.page = "up", !.hasStore = TRUE])
         /\ Fit([b EXCEPT !.page = "failed", !.given = NoToken])
  BY Zeros DEF Fit, Heard, Tab, Pages, NoToken

\* An error takes the coordinator away; a restart that was pending is lost with it.
LEMMA ErrorKeepsFit ==
  ASSUME NEW b, Fit(b)
  PROVE  Fit([b EXCEPT !.page = "failed", !.closing = FALSE, !.given = NoToken,
                       !.stalls = 0, !.dialog = FALSE,
                       !.lost = IF b.pending THEN "late" ELSE @])
  <1>1. CASE b.pending
    BY <1>1, Zeros DEF Fit, Heard, Tab, Pages, NoToken
  <1>2. CASE ~b.pending
    BY <1>2, Zeros DEF Fit, Heard, Tab, Pages, NoToken
  <1> QED BY <1>1, <1>2

\* The boot boundary mounts only a tab that never had a store.
LEMMA ForceKeepsFit ==
  ASSUME NEW b, Fit(b), NEW wanted \in 0..MaxRequests
  PROVE  Fit(ForceRestart(b, wanted))
  <1>1. CASE b.hasStore
    BY <1>1, RestartKeepsFit DEF ForceRestart
  <1>2. CASE ~b.hasStore
    <2>1. b \in Tab /\ ~b.pending
      BY <1>2 DEF Fit, Heard, Tab
    <2>2. Fit(Mount(b, wanted))
      BY <2>1, MountIsFit
    <2> QED BY <1>2, <2>2 DEF ForceRestart
  <1> QED BY <1>1, <1>2

\* A new payload lets the provider mount or asks for a restart.
LEMMA PayloadKeepsFit ==
  ASSUME NEW b, Fit(b), NEW p \in 0..MaxTokens
  PROVE  Fit(Payload(b, p))
  <1>1. Fit([b EXCEPT !.payload = p])
    BY DEF Fit, Heard, Tab
  <1>2. Fit([b EXCEPT !.payload = p, !.given = p, !.page = "booting"])
    BY DEF Fit, Heard, Tab, Pages
  <1>3. Fit(RequestRestart([b EXCEPT !.payload = p]))
    BY <1>1, RestartKeepsFit
  <1> QED BY <1>2, <1>3 DEF Payload

\* The record names a request that was made.
LEMMA RequestedType ==
  ASSUME TypeOK
  PROVE  Requested \in 0..MaxRequests
  BY BrowserAssumption DEF TypeOK, Requested

----------------------------------------------------------------------------
\* A step that changes one tab keeps the tabs fit if the new record is.
LEMMA OneTab ==
  ASSUME TabsFit, NEW t \in Tabs, NEW b, Fit(b), tab' = [tab EXCEPT ![t] = b]
  PROVE  tab' \in [Tabs -> Tab] /\ \A u \in Tabs : Heard(tab'[u])
  BY DEF TabsFit, TypeOK, Fit

\* Each tab is fit.
LEMMA EachFits ==
  ASSUME TabsFit, NEW t \in Tabs
  PROVE  Fit(tab[t])
  BY DEF TabsFit, TypeOK, Fit

LEMMA InitFits == Init => TabsFit
  <1> SUFFICES ASSUME Init PROVE TabsFit
    OBVIOUS
  <1>1. Fit(Away)
    BY AwayIsFit
  <1>2. tab \in [Tabs -> Tab] /\ \A t \in Tabs : Heard(tab[t])
    BY <1>1 DEF Init, Fit
  <1>3. token \in 1..MaxTokens
    BY BrowserAssumption DEF Init
  <1>4. record \in [status: {"none", "requested", "attempted"}, id: 0..MaxRequests]
    BY Zeros DEF Init, NoRepair
  <1>5. asked \in 0..MaxRequests /\ suggested \in BOOLEAN /\ owed \subseteq Tabs
    BY Zeros DEF Init
  <1> QED BY <1>2, <1>3, <1>4, <1>5 DEF TabsFit, TypeOK

LEMMA OpenFits ==
  ASSUME TabsFit, NEW t \in Tabs, Open(t)
  PROVE  TabsFit'
  <1> DEFINE b == [Away EXCEPT !.page = "preparing", !.reset = Requested,
                               !.consume = (Requested # 0)]
             c == Requested # 0
  <1>1. Requested \in 0..MaxRequests /\ c \in BOOLEAN
    BY RequestedType DEF TabsFit
  <1> HIDE DEF c
  <1>2. Fit([Away EXCEPT !.page = "preparing", !.reset = Requested, !.consume = c])
    BY <1>1, Zeros DEF Fit, Heard, Away, Tab, Pages, NoToken
  <1>3. Fit(b) /\ tab' = [tab EXCEPT ![t] = b]
    BY <1>2 DEF Open, c
  <1> HIDE DEF b
  <1>4. tab' \in [Tabs -> Tab] /\ \A u \in Tabs : Heard(tab'[u])
    BY <1>3, OneTab
  <1> QED BY <1>4 DEF TabsFit, TypeOK, Open

LEMMA LeaveFits ==
  ASSUME TabsFit, NEW t \in Tabs, Leave(t)
  PROVE  TabsFit'
  <1>1. tab' \in [Tabs -> Tab] /\ \A u \in Tabs : Heard(tab'[u])
    BY AwayIsFit, OneTab DEF Leave
  <1> QED BY <1>1 DEF TabsFit, TypeOK, Leave

LEMMA PayloadFits ==
  ASSUME TabsFit, NEW t \in Tabs, PayloadArrives(t) \/ PayloadFails(t)
  PROVE  TabsFit'
  <1>1. Fit(tab[t]) /\ token \in 0..MaxTokens /\ NoToken \in 0..MaxTokens
    BY EachFits, BrowserAssumption DEF TabsFit, TypeOK, NoToken
  <1>2. Fit(Payload(tab[t], token)) /\ Fit(Payload(tab[t], NoToken))
    BY <1>1, PayloadKeepsFit
  <1>3. \/ tab' = [tab EXCEPT ![t] = Payload(tab[t], token)]
        \/ tab' = [tab EXCEPT ![t] = Payload(tab[t], NoToken)]
    BY DEF PayloadArrives, PayloadFails
  <1>4. tab' \in [Tabs -> Tab] /\ \A u \in Tabs : Heard(tab'[u])
    BY <1>2, <1>3, OneTab
  <1> QED BY <1>4 DEF TabsFit, TypeOK, PayloadArrives, PayloadFails

LEMMA ConsumeFits ==
  ASSUME TabsFit, NEW t \in Tabs, Consume(t)
  PROVE  TabsFit'
  <1> DEFINE b == [tab[t] EXCEPT !.consume = FALSE]
  <1>1. Fit(b)
    BY EachFits DEF Fit, Heard, Tab
  <1>2. tab' = [tab EXCEPT ![t] = b]
    BY DEF Consume
  <1> HIDE DEF b
  <1>3. tab' \in [Tabs -> Tab] /\ \A u \in Tabs : Heard(tab'[u])
    BY <1>1, <1>2, OneTab
  <1>4. record' \in [status: {"none", "requested", "attempted"}, id: 0..MaxRequests]
    BY DEF TabsFit, TypeOK, Consume
  <1> QED BY <1>3, <1>4 DEF TabsFit, TypeOK, Consume

LEMMA BootFits ==
  ASSUME TabsFit, NEW t \in Tabs, BootEnds(t) \/ BootFails(t)
  PROVE  TabsFit'
  <1> DEFINE b == [tab[t] EXCEPT !.page = "up", !.hasStore = TRUE]
             c == [tab[t] EXCEPT !.page = "failed", !.given = NoToken]
  <1>1. Fit(b) /\ Fit(c)
    BY EachFits, BootKeepsFit
  <1>2. tab' = [tab EXCEPT ![t] = b] \/ tab' = [tab EXCEPT ![t] = c]
    BY DEF BootEnds, BootFails
  <1> HIDE DEF b, c
  <1>3. tab' \in [Tabs -> Tab] /\ \A u \in Tabs : Heard(tab'[u])
    BY <1>1, <1>2, OneTab
  <1> QED BY <1>3 DEF TabsFit, TypeOK, BootEnds, BootFails, Done

LEMMA ThrowsFits ==
  ASSUME TabsFit, NEW t \in Tabs, Throws(t)
  PROVE  TabsFit'
  <1> DEFINE b == [tab[t] EXCEPT !.page = "failed", !.closing = FALSE,
                                 !.given = NoToken, !.stalls = 0, !.dialog = FALSE,
                                 !.lost = IF tab[t].pending THEN "late" ELSE @]
  <1>1. Fit(b)
    BY EachFits, ErrorKeepsFit
  <1>2. tab' = [tab EXCEPT ![t] = b]
    BY DEF Throws
  <1> HIDE DEF b
  <1>3. tab' \in [Tabs -> Tab] /\ \A u \in Tabs : Heard(tab'[u])
    BY <1>1, <1>2, OneTab
  <1> QED BY <1>3 DEF TabsFit, TypeOK, Throws

LEMMA ShutdownFits ==
  ASSUME TabsFit, NEW t \in Tabs, ShutdownEnds(t)
  PROVE  TabsFit'
  <1> DEFINE b == [tab[t] EXCEPT !.pending = FALSE, !.restarting = FALSE]
  <1>1. b \in Tab /\ ~b.pending
    BY EachFits DEF Fit, Tab
  <1>2. tab' = [tab EXCEPT ![t] = Mount(b, Requested)]
    BY DEF ShutdownEnds
  <1> HIDE DEF b
  <1>3. Fit(Mount(b, Requested))
    BY <1>1, RequestedType, MountIsFit DEF TabsFit
  <1>4. tab' \in [Tabs -> Tab] /\ \A u \in Tabs : Heard(tab'[u])
    BY <1>2, <1>3, OneTab
  <1> QED BY <1>4 DEF TabsFit, TypeOK, ShutdownEnds

LEMMA HealthFits ==
  ASSUME TabsFit, NEW t \in Tabs, HealthRestart(t)
  PROVE  TabsFit'
  <1>1. PICK recorded \in {0, 1} :
          /\ tab' = [tab EXCEPT ![t] =
                RequestRestart([@ EXCEPT !.stalls = Counts(tab[t].stalls, recorded)])]
          /\ suggested' = (suggested \/ (recorded = 1
                              /\ Counts(tab[t].stalls, recorded) = Threshold))
    BY DEF HealthRestart
  <1> DEFINE b == [tab[t] EXCEPT !.stalls = Counts(tab[t].stalls, recorded)]
  <1>2. Fit(b)
    BY EachFits, BrowserAssumption DEF Fit, Heard, Tab, Counts
  <1>3. tab' = [tab EXCEPT ![t] = RequestRestart(b)]
    BY <1>1
  <1> HIDE DEF b
  <1>4. Fit(RequestRestart(b))
    BY <1>2, RestartKeepsFit
  <1>5. tab' \in [Tabs -> Tab] /\ \A u \in Tabs : Heard(tab'[u])
    BY <1>3, <1>4, OneTab
  <1>6. suggested' \in BOOLEAN
    BY <1>1
  <1> QED BY <1>5, <1>6 DEF TabsFit, TypeOK, HealthRestart

\* A recorded request has a number in range and clears the suggestion.
LEMMA RepairRecordedType ==
  ASSUME TypeOK, NEW t \in Tabs, RepairRecorded(t)
  PROVE  /\ asked + 1 \in 0..MaxRequests
         /\ record' \in [status: {"none", "requested", "attempted"}, id: 0..MaxRequests]
         /\ asked' \in 0..MaxRequests /\ suggested' \in BOOLEAN
         /\ owed' \subseteq Tabs
  <1>1. asked + 1 \in 0..MaxRequests
    BY BrowserAssumption DEF TypeOK, RepairRecorded
  <1>2. record' \in [status: {"none", "requested", "attempted"}, id: 0..MaxRequests]
    BY <1>1 DEF RepairRecorded
  <1>3. asked' \in 0..MaxRequests /\ suggested' \in BOOLEAN /\ owed' \subseteq Tabs
    BY <1>1 DEF TypeOK, RepairRecorded
  <1> QED BY <1>1, <1>2, <1>3

LEMMA AskFits ==
  ASSUME TabsFit, NEW t \in Tabs, AskRepair(t) \/ AskRepairAtBoot(t)
  PROVE  TabsFit'
  <1>1. RepairRecorded(t) /\ token' = token
    BY DEF AskRepair, AskRepairAtBoot
  <1>2. Fit(tab[t])
    BY EachFits
  <1>3. Fit(RequestRestart(tab[t])) /\ Fit(ForceRestart(tab[t], asked + 1))
    BY <1>1, <1>2, RepairRecordedType, RestartKeepsFit, ForceKeepsFit DEF TabsFit
  <1>4. \/ tab' = [tab EXCEPT ![t] = RequestRestart(tab[t])]
        \/ tab' = [tab EXCEPT ![t] = ForceRestart(tab[t], asked + 1)]
    BY DEF AskRepair, AskRepairAtBoot
  <1>5. tab' \in [Tabs -> Tab] /\ \A u \in Tabs : Heard(tab'[u])
    BY <1>3, <1>4, OneTab
  <1> QED BY <1>1, <1>5, RepairRecordedType DEF TabsFit, TypeOK

\* The dialog of LiveStoreStatus opens and closes.
LEMMA DialogFits ==
  ASSUME TabsFit, NEW t \in Tabs, OpenDialog(t) \/ CloseDialog(t)
  PROVE  TabsFit'
  <1>1. /\ Fit([tab[t] EXCEPT !.dialog = TRUE])
        /\ Fit([tab[t] EXCEPT !.dialog = FALSE])
    BY EachFits DEF Fit, Heard, Tab
  <1>2. \/ tab' = [tab EXCEPT ![t] = [tab[t] EXCEPT !.dialog = TRUE]]
        \/ tab' = [tab EXCEPT ![t] = [tab[t] EXCEPT !.dialog = FALSE]]
    BY DEF OpenDialog, CloseDialog
  <1>3. tab' \in [Tabs -> Tab] /\ \A u \in Tabs : Heard(tab'[u])
    BY <1>1, <1>2, OneTab
  <1> QED BY <1>3 DEF TabsFit, TypeOK, OpenDialog, CloseDialog

LEMMA RetryFits ==
  ASSUME TabsFit, NEW t \in Tabs, Retry(t)
  PROVE  TabsFit'
  <1>1. Fit(ForceRestart(tab[t], Requested))
    BY EachFits, RequestedType, ForceKeepsFit DEF TabsFit
  <1>2. tab' \in [Tabs -> Tab] /\ \A u \in Tabs : Heard(tab'[u])
    BY <1>1, OneTab DEF Retry
  <1> QED BY <1>2 DEF TabsFit, TypeOK, Retry

LEMMA NextFits == TabsFit /\ [Next]_vars => TabsFit'
  <1> SUFFICES ASSUME TabsFit, [Next]_vars PROVE TabsFit'
    OBVIOUS
  <1>1. CASE Refresh
    BY <1>1, BrowserAssumption DEF TabsFit, TypeOK, Refresh
  <1>2. CASE RecordExpires
    BY <1>2, BrowserAssumption DEF TabsFit, TypeOK, RecordExpires, NoRepair
  <1>3. CASE SuggestionExpires
    BY <1>3 DEF TabsFit, TypeOK, SuggestionExpires
  <1>4. ASSUME NEW t \in Tabs,
               \/ Open(t) \/ Leave(t) \/ PayloadArrives(t) \/ PayloadFails(t)
               \/ Consume(t) \/ BootEnds(t) \/ BootFails(t) \/ Throws(t) \/ ShutdownEnds(t)
               \/ HealthRestart(t) \/ Retry(t)
               \/ OpenDialog(t) \/ CloseDialog(t) \/ AskRepair(t) \/ AskRepairAtBoot(t)
        PROVE  TabsFit'
    BY <1>4, OpenFits, LeaveFits, PayloadFits, ConsumeFits, BootFits, ThrowsFits,
       ShutdownFits, HealthFits, DialogFits, AskFits, RetryFits
  <1>5. CASE UNCHANGED vars
    BY <1>5 DEF TabsFit, TypeOK, vars
  <1> QED BY <1>1, <1>2, <1>3, <1>4, <1>5 DEF Next

LEMMA AlwaysFits == Spec => []TabsFit
  BY InitFits, NextFits, PTL DEF Spec

----------------------------------------------------------------------------
\* Every reachable state of the browser's tabs has the declared types: the history of
\* the health monitor never passes the threshold and a reset is for a request that was
\* made.
THEOREM TypeCorrect == Spec => []TypeOK
  <1>1. TabsFit => TypeOK
    BY DEF TabsFit
  <1> QED BY <1>1, AlwaysFits, PTL

\* A restart that is pending is heard by a coordinator or was lost with it: the flag
\* that refuses further restarts never stays set for another reason (requestRestart).
THEOREM PendingRestartsAreHeard == Spec => []PendingIsHeard
  <1>1. TabsFit => PendingIsHeard
    BY DEF TabsFit, PendingIsHeard, Heard
  <1> QED BY <1>1, AlwaysFits, PTL
=============================================================================

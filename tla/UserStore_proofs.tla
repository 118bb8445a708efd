-------------------------- MODULE UserStore_proofs --------------------------
(***************************************************************************)
(* Theorems about UserStore for every set of users, workspaces, roles and  *)
(* handlers and every limit.  Those about the two records of a membership  *)
(* are for handlers that do not meet on one workspace.                     *)
(***************************************************************************)
EXTENDS UserStore, FiniteSetTheorems, TLAPS

Given == AllRoles \cup {"none"}

(***************************************************************************)
(* Types.                                                                  *)
(***************************************************************************)
LEMMA Names ==
  /\ "none" \in Given /\ "owner" \in Given /\ "owner" # "none"
  /\ Nobody \in [Users -> Given] /\ Nowhere \in [Workspaces -> Given]
  /\ AllRoles \subseteq Given
  /\ "none" \notin Workspaces /\ "none" \notin AllRoles
BY StoreAssumption DEF Given, AllRoles, Nobody, Nowhere

LEMMA JobsAreNotIdle ==
  /\ \A j \in Jobs : j # Idle /\ j.op # "idle"
  /\ Idle.op = "idle"
BY DEF Jobs, Idle

LEMMA JobTyped ==
  ASSUME NEW op \in {"signup", "create", "delete", "accept", "remove", "role"},
         NEW w \in Workspaces, NEW u \in Users, NEW r \in Given,
         NEW todo \in SUBSET Users, NEW view \in SUBSET Workspaces
  PROVE  /\ Job(op, w, u, r, todo, view) \in Jobs
         /\ Job(op, w, u, r, todo, view).op = op /\ Job(op, w, u, r, todo, view).ws = w
         /\ Job(op, w, u, r, todo, view).who = u /\ Job(op, w, u, r, todo, view).role = r
         /\ Job(op, w, u, r, todo, view).todo = todo
BY DEF Job, Jobs, Given

LEMMA WorkingJob ==
  ASSUME TypeOK, NEW h \in Handlers, job[h].op # "idle"
  PROVE  /\ job[h] \in Jobs /\ job[h] # Idle
         /\ job[h].ws \in Workspaces /\ job[h].who \in Users /\ job[h].role \in Given
         /\ job[h].todo \subseteq Users /\ job[h].view \subseteq Workspaces
<1>1. job[h] \in Jobs
  BY JobsAreNotIdle DEF TypeOK
<1> QED BY <1>1, JobsAreNotIdle DEF Jobs, Given

LEMMA ListedTyped ==
  ASSUME TypeOK, NEW w \in Workspaces
  PROVE  Listed(w) \in [Users -> Given] /\ members[w] \in [Users -> Given]
BY DEF TypeOK, Listed, Given

LEMMA WithMemberTyped ==
  ASSUME TypeOK, NEW w \in Workspaces, NEW u \in Users, NEW r \in Given
  PROVE  /\ WithMember(w, u, r) \in [Workspaces -> [Users -> Given]]
         /\ WithMember(w, u, r)[w] = [Listed(w) EXCEPT ![u] = r]
         /\ \A v \in Workspaces : v # w => WithMember(w, u, r)[v] = members[v]
<1>1. members \in [Workspaces -> [Users -> Given]]
  BY DEF TypeOK, Given
<1> QED BY <1>1, ListedTyped DEF WithMember

LEMMA RefreshedTyped ==
  ASSUME TypeOK, NEW m \in [Workspaces -> [Users -> Given]], NEW view
  PROVE  Refreshed(m, role, view) \in [Workspaces -> [Users -> Given]]
<1>1. role \in [Users -> [Workspaces -> Given]]
  BY DEF TypeOK, Given
<1> QED BY <1>1 DEF Refreshed

\* What persistUser writes.
LEMMA Persisted ==
  ASSUME TypeOK, NEW u \in Users, NEW inst \in [Workspaces -> Given],
         NEW dflt \in Workspaces \cup {"none"}, PersistUser(u, inst, dflt)
  PROVE  /\ role' \in [Users -> [Workspaces -> Given]]
         /\ default' \in [Users -> Workspaces \cup {"none"}]
         /\ role'[u] = inst
         /\ \A v \in Users : v # u => role'[v] = role[v]
BY DEF TypeOK, PersistUser, Given

LEMMA WithRoleTyped ==
  ASSUME TypeOK, NEW u \in Users, NEW w \in Workspaces, NEW r \in Given
  PROVE  /\ WithRole(u, w, r) \in [Workspaces -> Given]
         /\ WithRole(u, w, r)[w] = r
         /\ \A v \in Workspaces : v # w => WithRole(u, w, r)[v] = role[u][v]
BY DEF TypeOK, WithRole, Given

LEMMA DefaultTyped ==
  ASSUME TypeOK, NEW u \in Users, NEW w \in Workspaces
  PROVE  default[u] \in Workspaces \cup {"none"} /\ Kept(u, w) \in Workspaces \cup {"none"}
BY DEF TypeOK, Kept

LEMMA InitTypes == Init => TypeOK
BY Names DEF Init, TypeOK, Given

\* A handler that waits, or is through, has a job that can be.
LEMMA JobStep ==
  ASSUME TypeOK, NEW h \in Handlers, NEW j \in Jobs \cup {Idle}, job' = [job EXCEPT ![h] = j]
  PROVE  /\ job' \in [Handlers -> Jobs \cup {Idle}]
         /\ job'[h] = j
         /\ \A g \in Handlers : g # h => job'[g] = job[g]
BY DEF TypeOK

LEMMA IdsStep ==
  ASSUME TypeOK, NEW w \in Workspaces, NEW x \in {"used", "deleted"},
         ids' = [ids EXCEPT ![w] = x]
  PROVE  /\ ids' \in [Workspaces -> {"fresh", "used", "deleted"}]
         /\ ids'[w] = x
         /\ \A v \in Workspaces : v # w => ids'[v] = ids[v]
BY DEF TypeOK

LEMMA InvitesStep ==
  ASSUME TypeOK, NEW w \in Workspaces, NEW u \in Users, NEW r \in Given,
         invites' = [invites EXCEPT ![w][u] = r]
  PROVE  /\ invites' \in [Workspaces -> [Users -> Given]]
         /\ invites'[w][u] = r
         /\ \A v \in Workspaces, x \in Users :
              v # w \/ x # u => invites'[v][x] = invites[v][x]
<1>1. invites \in [Workspaces -> [Users -> Given]]
  BY DEF TypeOK, Given
<1>2. invites[w] \in [Users -> Given]
  BY <1>1
<1>3. invites' = [invites EXCEPT ![w] = [invites[w] EXCEPT ![u] = r]]
  BY <1>1
<1>4. invites'[w] = [invites[w] EXCEPT ![u] = r] /\ \A v \in Workspaces : v # w => invites'[v] = invites[v]
  BY <1>1, <1>3
<1>5. [invites[w] EXCEPT ![u] = r] \in [Users -> Given]
  BY <1>2
<1> QED BY <1>1, <1>2, <1>3, <1>4, <1>5

LEMMA InvitesDropped ==
  ASSUME TypeOK, NEW w \in Workspaces, invites' = [invites EXCEPT ![w] = Nobody]
  PROVE  /\ invites' \in [Workspaces -> [Users -> Given]]
         /\ invites'[w] = Nobody
         /\ \A v \in Workspaces : v # w => invites'[v] = invites[v]
BY Names DEF TypeOK, Given

\* The parts of the types, as the steps change them.
Records ==
  /\ accounts \subseteq Users
  /\ role \in [Users -> [Workspaces -> Given]]
  /\ default \in [Users -> Workspaces \cup {"none"}]
  /\ \A u \in Users : u \notin accounts => role[u] = Nowhere
Lists ==
  /\ members \in [Workspaces -> [Users -> Given]]
  /\ invites \in [Workspaces -> [Users -> Given]]
Rest ==
  /\ ids \in [Workspaces -> {"fresh", "used", "deleted"}]
  /\ job \in [Handlers -> Jobs \cup {Idle}]
  /\ byHand \subseteq Workspaces

LEMMA Parts == TypeOK <=> Records /\ Lists /\ Rest
BY DEF TypeOK, Records, Lists, Rest, Given

LEMMA PartsNext == TypeOK' <=> Records' /\ Lists' /\ Rest'
BY DEF TypeOK, Records, Lists, Rest, Given

LEMMA RecordsStep ==
  ASSUME TypeOK, NEW u \in accounts, NEW inst \in [Workspaces -> Given],
         NEW dflt \in Workspaces \cup {"none"}, PersistUser(u, inst, dflt), UNCHANGED accounts
  PROVE  Records'
<1>1. u \in Users /\ accounts \subseteq Users
  BY DEF TypeOK
<1>2. \A v \in Users : v \notin accounts => role[v] = Nowhere
  BY DEF TypeOK
<1> QED BY <1>1, <1>2, Persisted DEF Records

\* A user with an instance has a record.
LEMMA MemberHasAccount ==
  ASSUME TypeOK, NEW u \in Users, NEW w \in Workspaces, role[u][w] # "none"
  PROVE  u \in accounts
BY DEF TypeOK, Nowhere

LEMMA InstancesTyped ==
  ASSUME TypeOK, NEW u
  PROVE  Instances(u) \subseteq Workspaces
BY DEF Instances

-----------------------------------------------------------------------------
(* Each action keeps the types. *)

LEMMA SignupTypes ==
  ASSUME TypeOK, NEW h \in Handlers, NEW u \in Users, NEW w \in Workspaces,
         BeginSignup(h, u, w) \/ Signup(h)
  PROVE  TypeOK'
<1>0. Records /\ Lists /\ Rest
  BY Parts
<1>1. CASE BeginSignup(h, u, w)
  <2>1. Job("signup", w, u, "owner", {}, {}) \in Jobs
    BY JobTyped, Names
  <2>2. Rest'
    BY <1>0, <1>1, <2>1, JobStep, IdsStep DEF BeginSignup, Waits, Rest
  <2>3. Records' /\ Lists'
    BY <1>0, <1>1 DEF BeginSignup, Records, Lists, records
  <2> QED BY <2>2, <2>3, PartsNext
<1>2. CASE Signup(h)
  <2> DEFINE v == job[h].who  x == job[h].ws
  <2>1. v \in Users /\ x \in Workspaces
    BY <1>2, WorkingJob DEF Signup
  <2>2. Job("create", x, v, "owner", {}, {}) \in Jobs
    BY <2>1, JobTyped, Names
  <2>3. Rest'
    BY <1>0, <1>2, <2>2, JobStep DEF Signup, Rest
  <2>4. [Nowhere EXCEPT ![x] = "owner"] \in [Workspaces -> Given]
    BY <2>1, Names
  <2>5. Records'
    BY <1>0, <1>2, <2>1, <2>4 DEF Signup, Records
  <2>6. Lists'
    BY <1>0, <1>2 DEF Signup, Lists
  <2> QED BY <2>3, <2>5, <2>6, PartsNext
<1> QED BY <1>1, <1>2

LEMMA DeleteUserTypes ==
  ASSUME TypeOK, NEW u \in Users, DeleteUser(u)
  PROVE  TypeOK'
<1>0. Records /\ Lists /\ Rest
  BY Parts
<1>1. ASSUME NEW w \in Workspaces PROVE [Listed(w) EXCEPT ![u] = "none"] \in [Users -> Given]
  BY ListedTyped, Names
<1>2. Lists'
  BY <1>0, <1>1 DEF DeleteUser, Lists
<1>3. Records'
  BY <1>0, Names DEF DeleteUser, Records
<1>4. Rest'
  BY <1>0, InstancesTyped DEF DeleteUser, Rest
<1> QED BY <1>2, <1>3, <1>4, PartsNext

LEMMA StoreIdTypes ==
  ASSUME TypeOK, NEW u \in Users, NEW w \in Workspaces, AddStoreId(u, w) \/ RemoveStoreId(u, w)
  PROVE  TypeOK'
<1>0. Records /\ Lists /\ Rest
  BY Parts
<1>1. u \in accounts
  BY DEF AddStoreId, RemoveStoreId
<1>2. Lists'
  BY <1>0 DEF AddStoreId, RemoveStoreId, Lists
<1>3. \A r \in Given : WithRole(u, w, r) \in [Workspaces -> Given]
  BY WithRoleTyped
<1>4. Records'
  <2>1. \E r \in Given : PersistUser(u, WithRole(u, w, r), default[u]) /\ UNCHANGED accounts
    BY Names DEF AddStoreId, RemoveStoreId
  <2> QED BY <1>1, <1>3, <2>1, DefaultTyped, RecordsStep
<1>5. Rest'
  BY <1>0, IdsStep DEF AddStoreId, RemoveStoreId, Rest
<1> QED BY <1>2, <1>4, <1>5, PartsNext

LEMMA CreateTypes ==
  ASSUME TypeOK, NEW h \in Handlers, NEW u \in Users, NEW w \in Workspaces,
         CreateWorkspace(h, u, w) \/ CreateEnds(h)
  PROVE  TypeOK'
<1>0. Records /\ Lists /\ Rest
  BY Parts
<1>1. CASE CreateWorkspace(h, u, w)
  <2>1. Job("create", w, u, "owner", {}, Instances(u) \cup {w}) \in Jobs
    BY JobTyped, Names, InstancesTyped
  <2>2. Rest'
    BY <1>0, <1>1, <2>1, JobStep, IdsStep DEF CreateWorkspace, Waits, Rest
  <2>3. Records'
    <3>1. WithRole(u, w, "owner") \in [Workspaces -> Given]
      BY WithRoleTyped, Names
    <3>2. (IF default[u] = "none" THEN w ELSE default[u]) \in Workspaces \cup {"none"}
      BY DefaultTyped
    <3>3. /\ u \in accounts /\ UNCHANGED accounts
          /\ PersistUser(u, WithRole(u, w, "owner"), IF default[u] = "none" THEN w ELSE default[u])
      BY <1>1 DEF CreateWorkspace
    <3> QED BY <3>1, <3>2, <3>3, RecordsStep
  <2>4. Lists'
    BY <1>0, <1>1 DEF CreateWorkspace, Lists
  <2> QED BY <2>2, <2>3, <2>4, PartsNext
<1>2. CASE CreateEnds(h)
  <2>1. job[h].ws \in Workspaces /\ job[h].who \in Users
    BY <1>2, WorkingJob DEF CreateEnds
  <2>2. Lists'
    <3>1. WithMember(job[h].ws, job[h].who, "owner") \in [Workspaces -> [Users -> Given]]
      BY <2>1, WithMemberTyped, Names
    <3>2. members' \in [Workspaces -> [Users -> Given]]
      BY <1>2, <3>1, RefreshedTyped DEF CreateEnds
    <3>3. invites' \in [Workspaces -> [Users -> Given]]
      BY <1>2, <2>1, InvitesDropped DEF CreateEnds
    <3> QED BY <3>2, <3>3 DEF Lists
  <2>3. Rest'
    BY <1>0, <1>2, JobStep DEF CreateEnds, Goes, Rest
  <2>4. Records'
    BY <1>0, <1>2 DEF CreateEnds, Records, records
  <2> QED BY <2>2, <2>3, <2>4, PartsNext
<1> QED BY <1>1, <1>2

\* A payload may rebuild lists, whatever workspaces are in view.
LEMMA PayloadTypes ==
  ASSUME TypeOK, NEW view, members' = Refreshed(members, role, view)
  PROVE  members' \in [Workspaces -> [Users -> Given]]
BY RefreshedTyped, Parts DEF Lists

LEMMA ViewTypes ==
  ASSUME TypeOK, NEW u \in Users, NEW w \in Workspaces, SetDefault(u, w) \/ ListWorkspaces(u)
  PROVE  TypeOK'
<1>0. Records /\ Lists /\ Rest
  BY Parts
<1>1. Lists'
  BY <1>0, PayloadTypes DEF SetDefault, ListWorkspaces, Lists
<1>2. Rest'
  BY <1>0 DEF SetDefault, ListWorkspaces, Rest
<1>3. Records'
  <2>1. CASE SetDefault(u, w)
    BY <1>0, <2>1, MemberHasAccount, RecordsStep DEF SetDefault, Records
  <2>2. CASE ListWorkspaces(u)
    BY <1>0, <2>2 DEF ListWorkspaces, Records, records
  <2> QED BY <2>1, <2>2
<1> QED BY <1>1, <1>2, <1>3, PartsNext

LEMMA DeleteTypes ==
  ASSUME TypeOK, NEW h \in Handlers, NEW u \in Users, NEW w \in Workspaces,
         DeleteWorkspace(h, u, w) \/ DeleteMember(h, u) \/ DeleteEnds(h)
  PROVE  TypeOK'
<1>0. Records /\ Lists /\ Rest
  BY Parts
<1>1. CASE DeleteWorkspace(h, u, w)
  <2> DEFINE todo == {m \in Users \ {u} : Listed(w)[m] # "none"}
  <2>1. Job("delete", w, u, "none", todo, Instances(u) \ {w}) \in Jobs
    BY JobTyped, Names, InstancesTyped
  <2>2. Rest'
    BY <1>0, <1>1, <2>1, JobStep DEF DeleteWorkspace, Waits, Rest
  <2>3. Records'
    BY <1>1, WithRoleTyped, Names, DefaultTyped, RecordsStep DEF DeleteWorkspace, MayDelete, IsOwner
  <2>4. Lists'
    BY <1>0, <1>1, ListedTyped DEF DeleteWorkspace, Lists
  <2> QED BY <2>2, <2>3, <2>4, PartsNext
<1>2. CASE DeleteMember(h, u)
  <2>1. job[h] \in Jobs /\ job[h].ws \in Workspaces
    BY <1>2, WorkingJob DEF DeleteMember
  <2>2. CASE u \in accounts
    <3>1. Records'
      BY <1>2, <2>1, <2>2, WithRoleTyped, Names, DefaultTyped, RecordsStep DEF DeleteMember
    <3>2. [job[h] EXCEPT !.todo = @ \ {u}] \in Jobs
      BY <2>1 DEF Jobs
    <3>3. job' = [job EXCEPT ![h] = [job[h] EXCEPT !.todo = @ \ {u}]]
      BY <1>0, <1>2, <2>1, <2>2 DEF DeleteMember, Rest
    <3>4. Rest'
      BY <1>0, <1>2, <3>2, <3>3, JobStep DEF DeleteMember, Rest
    <3>5. Lists'
      BY <1>0, <1>2 DEF DeleteMember, Lists
    <3> QED BY <3>1, <3>4, <3>5, PartsNext
  <2>3. CASE u \notin accounts
    <3>1. Records' /\ Lists'
      BY <1>0, <1>2, <2>3 DEF DeleteMember, Records, Lists
    <3>2. Rest'
      BY <1>0, <1>2, <2>3, JobStep DEF DeleteMember, Goes, Rest
    <3> QED BY <3>1, <3>2, PartsNext
  <2> QED BY <2>2, <2>3
<1>3. CASE DeleteEnds(h)
  <2>1. job[h].ws \in Workspaces
    BY <1>3, WorkingJob DEF DeleteEnds
  <2>2. Lists'
    <3>1. [members EXCEPT ![job[h].ws] = Nobody] \in [Workspaces -> [Users -> Given]]
      BY <1>0, Names DEF Lists
    <3>2. members' \in [Workspaces -> [Users -> Given]]
      BY <1>3, <3>1, RefreshedTyped DEF DeleteEnds
    <3>3. invites' \in [Workspaces -> [Users -> Given]]
      BY <1>3, <2>1, InvitesDropped DEF DeleteEnds
    <3> QED BY <3>2, <3>3 DEF Lists
  <2>3. Rest'
    BY <1>0, <1>3, <2>1, JobStep, IdsStep DEF DeleteEnds, Goes, Rest
  <2>4. Records'
    BY <1>0, <1>3 DEF DeleteEnds, Records, records
  <2> QED BY <2>2, <2>3, <2>4, PartsNext
<1> QED BY <1>1, <1>2, <1>3

LEMMA InvitationTypes ==
  ASSUME TypeOK, NEW u \in Users, NEW w \in Workspaces, NEW to \in Users, NEW r \in AllRoles,
         Invite(u, w, to, r) \/ Revoke(u, w, to) \/ Expire(w, to)
  PROVE  TypeOK'
<1>0. Records /\ Lists /\ Rest
  BY Parts
<1>1. invites' \in [Workspaces -> [Users -> Given]]
  BY InvitesStep, Names DEF Invite, Revoke, Expire
<1>2. members' \in [Workspaces -> [Users -> Given]]
  BY <1>0, PayloadTypes DEF Invite, Revoke, Expire, Lists
<1>3. Records' /\ Rest'
  BY <1>0 DEF Invite, Revoke, Expire, Records, Rest, records
<1> QED BY <1>1, <1>2, <1>3, PartsNext DEF Lists

LEMMA AcceptTypes ==
  ASSUME TypeOK, NEW h \in Handlers, NEW u \in Users, NEW w \in Workspaces,
         Accept(h, u, w) \/ AcceptEnds(h)
  PROVE  TypeOK'
<1>0. Records /\ Lists /\ Rest
  BY Parts
<1>1. CASE Accept(h, u, w)
  <2> DEFINE r == invites[w][u]
  <2>1. r \in Given
    BY <1>0 DEF Lists
  <2> HIDE DEF r
  <2>2. Job("accept", w, u, r, {}, Instances(u) \cup {w}) \in Jobs
    BY <2>1, JobTyped, InstancesTyped
  <2>3. Rest'
    BY <1>0, <1>1, <2>2, JobStep DEF Accept, Waits, Rest, r
  <2>4. Records'
    <3>1. (IF Instances(u) = {} THEN w ELSE default[u]) \in Workspaces \cup {"none"}
      BY DefaultTyped
    <3>2. /\ u \in accounts /\ UNCHANGED accounts
          /\ PersistUser(u, WithRole(u, w, r), IF Instances(u) = {} THEN w ELSE default[u])
      BY <1>1 DEF Accept, r
    <3> QED BY <2>1, <3>1, <3>2, WithRoleTyped, RecordsStep
  <2>5. Lists'
    BY <1>0, <1>1, <2>1, WithMemberTyped DEF Accept, Lists, r
  <2> QED BY <2>3, <2>4, <2>5, PartsNext
<1>2. CASE AcceptEnds(h)
  <2>1. job[h].ws \in Workspaces /\ job[h].who \in Users
    BY <1>2, WorkingJob DEF AcceptEnds
  <2>2. Lists'
    BY <1>2, <2>1, PayloadTypes, InvitesStep, Names DEF AcceptEnds, Lists
  <2>3. Rest'
    BY <1>0, <1>2, JobStep DEF AcceptEnds, Goes, Rest
  <2>4. Records'
    BY <1>0, <1>2 DEF AcceptEnds, Records, records
  <2> QED BY <2>2, <2>3, <2>4, PartsNext
<1> QED BY <1>1, <1>2

LEMMA MemberTypes ==
  ASSUME TypeOK, NEW h \in Handlers, NEW u \in Users, NEW w \in Workspaces, NEW t \in Users,
         NEW r \in AllRoles, RemoveMember(h, u, w, t) \/ UpdateRole(h, u, w, t, r) \/ MemberEnds(h)
  PROVE  TypeOK'
<1>0. Records /\ Lists /\ Rest
  BY Parts
<1>1. CASE RemoveMember(h, u, w, t)
  <2>1. Job("remove", w, t, "none", {}, Instances(u)) \in Jobs
    BY JobTyped, Names, InstancesTyped
  <2>2. Rest'
    BY <1>0, <1>1, <2>1, JobStep DEF RemoveMember, Waits, Rest
  <2>3. Records'
    BY <1>1, WithRoleTyped, Names, DefaultTyped, RecordsStep DEF RemoveMember
  <2>4. Lists'
    BY <1>0, <1>1, ListedTyped DEF RemoveMember, Lists
  <2> QED BY <2>2, <2>3, <2>4, PartsNext
<1>2. CASE UpdateRole(h, u, w, t, r)
  <2>1. Job("role", w, t, r, {}, Instances(u)) \in Jobs
    BY JobTyped, Names, InstancesTyped
  <2>2. Rest'
    BY <1>0, <1>2, <2>1, JobStep DEF UpdateRole, Waits, Rest
  <2>3. Records'
    BY <1>2, WithRoleTyped, Names, DefaultTyped, RecordsStep DEF UpdateRole
  <2>4. Lists'
    BY <1>0, <1>2, ListedTyped DEF UpdateRole, Lists
  <2> QED BY <2>2, <2>3, <2>4, PartsNext
<1>3. CASE MemberEnds(h)
  <2>1. job[h].ws \in Workspaces /\ job[h].who \in Users /\ job[h].role \in Given
    BY <1>3, WorkingJob DEF MemberEnds
  <2>2. WithMember(job[h].ws, job[h].who, job[h].role) \in [Workspaces -> [Users -> Given]]
    BY <2>1, WithMemberTyped
  <2>3. Lists'
    BY <1>0, <1>3, <2>2, RefreshedTyped DEF MemberEnds, Lists
  <2>4. Rest'
    BY <1>0, <1>3, JobStep DEF MemberEnds, Goes, Rest
  <2>5. Records'
    BY <1>0, <1>3 DEF MemberEnds, Records, records
  <2> QED BY <2>3, <2>4, <2>5, PartsNext
<1> QED BY <1>1, <1>2, <1>3

\* The steps of Next, by the lemma about them.
SignupSteps  == \E h \in Handlers, u \in Users, w \in Workspaces : BeginSignup(h, u, w) \/ Signup(h)
AdminSteps   == \/ \E u \in Users : DeleteUser(u)
                \/ \E u \in Users, w \in Workspaces : AddStoreId(u, w) \/ RemoveStoreId(u, w)
CreateSteps  == \E h \in Handlers, u \in Users, w \in Workspaces : CreateWorkspace(h, u, w) \/ CreateEnds(h)
ViewSteps    == \E u \in Users : ListWorkspaces(u) \/ \E w \in Workspaces : SetDefault(u, w)
DeleteSteps  == \E h \in Handlers, u \in Users, w \in Workspaces :
                  DeleteWorkspace(h, u, w) \/ DeleteMember(h, u) \/ DeleteEnds(h)
InviteSteps  == \E u, t \in Users, w \in Workspaces, r \in AllRoles :
                  Invite(u, w, t, r) \/ Revoke(u, w, t) \/ Expire(w, t)
AcceptSteps  == \E h \in Handlers, u \in Users, w \in Workspaces : Accept(h, u, w) \/ AcceptEnds(h)
MemberSteps  == \E h \in Handlers, u, t \in Users, w \in Workspaces, r \in AllRoles :
                  RemoveMember(h, u, w, t) \/ UpdateRole(h, u, w, t, r) \/ MemberEnds(h)

LEMMA StepKinds ==
  ASSUME TypeOK, Next
  PROVE  \/ SignupSteps \/ AdminSteps \/ CreateSteps \/ ViewSteps
         \/ DeleteSteps \/ InviteSteps \/ AcceptSteps \/ MemberSteps
<1>0. "owner" \in AllRoles
  BY DEF AllRoles
<1>1. ASSUME NEW h \in Handlers,
             Signup(h) \/ CreateEnds(h) \/ DeleteEnds(h) \/ AcceptEnds(h) \/ MemberEnds(h)
      PROVE  SignupSteps \/ CreateSteps \/ DeleteSteps \/ AcceptSteps \/ MemberSteps
  <2>1. job[h].op # "idle"
    BY <1>1 DEF Signup, CreateEnds, DeleteEnds, AcceptEnds, MemberEnds
  <2>2. job[h].who \in Users /\ job[h].ws \in Workspaces
    BY <2>1, WorkingJob
  <2> QED BY <1>0, <1>1, <2>2 DEF SignupSteps, CreateSteps, DeleteSteps, AcceptSteps, MemberSteps
<1>2. ASSUME NEW h \in Handlers, NEW m \in Users, DeleteMember(h, m)
      PROVE  DeleteSteps
  <2>1. job[h].ws \in Workspaces
    BY <1>2, WorkingJob DEF DeleteMember
  <2> QED BY <1>2, <2>1 DEF DeleteSteps
<1>3. ASSUME NEW u \in Users, DeleteUser(u) \/ ListWorkspaces(u)
      PROVE  AdminSteps \/ ViewSteps
  BY <1>3 DEF AdminSteps, ViewSteps
<1>4. ASSUME NEW u \in Users, NEW w \in Workspaces,
             \/ AddStoreId(u, w) \/ RemoveStoreId(u, w) \/ SetDefault(u, w)
             \/ \E h \in Handlers : BeginSignup(h, u, w) \/ CreateWorkspace(h, u, w) \/ DeleteWorkspace(h, u, w)
             \/ Expire(w, u)
             \/ \E h \in Handlers : Accept(h, u, w)
      PROVE  SignupSteps \/ AdminSteps \/ CreateSteps \/ ViewSteps \/ DeleteSteps \/ InviteSteps \/ AcceptSteps
  BY <1>0, <1>4 DEF SignupSteps, AdminSteps, CreateSteps, ViewSteps, DeleteSteps, InviteSteps, AcceptSteps
<1>5. ASSUME NEW u \in Users, NEW w \in Workspaces, NEW t \in Users,
             \/ Revoke(u, w, t)
             \/ \E r \in AllRoles : Invite(u, w, t, r) \/ \E h \in Handlers : UpdateRole(h, u, w, t, r)
             \/ \E h \in Handlers : RemoveMember(h, u, w, t)
      PROVE  InviteSteps \/ MemberSteps
  BY <1>0, <1>5 DEF InviteSteps, MemberSteps
<1> QED BY <1>1, <1>2, <1>3, <1>4, <1>5 DEF Next

LEMMA NextTypes == TypeOK /\ [Next]_vars => TypeOK'
<1> SUFFICES ASSUME TypeOK, [Next]_vars PROVE TypeOK'
  OBVIOUS
<1>1. CASE UNCHANGED vars
  BY <1>1 DEF vars, records, TypeOK
<1>2. SignupSteps => TypeOK'
  BY SignupTypes DEF SignupSteps
<1>3. AdminSteps => TypeOK'
  BY DeleteUserTypes, StoreIdTypes DEF AdminSteps
<1>4. CreateSteps => TypeOK'
  BY CreateTypes DEF CreateSteps
<1>5. ASSUME ViewSteps PROVE TypeOK'
  <2>1. PICK u \in Users : ListWorkspaces(u) \/ \E w \in Workspaces : SetDefault(u, w)
    BY <1>5 DEF ViewSteps
  <2>2. CASE Workspaces = {}
    BY <2>1, <2>2, Parts, PartsNext, PayloadTypes DEF ListWorkspaces, Records, Lists, Rest, records
  <2> QED BY <2>1, <2>2, ViewTypes
<1>6. DeleteSteps => TypeOK'
  BY DeleteTypes DEF DeleteSteps
<1>7. InviteSteps => TypeOK'
  BY InvitationTypes DEF InviteSteps
<1>8. AcceptSteps => TypeOK'
  BY AcceptTypes DEF AcceptSteps
<1>9. MemberSteps => TypeOK'
  BY MemberTypes DEF MemberSteps
<1> QED BY <1>1, <1>2, <1>3, <1>4, <1>5, <1>6, <1>7, <1>8, <1>9, StepKinds

\* Type correctness: roles, invitations, lists and jobs are what the code writes, and a
\* user without an account has no instance.
THEOREM TypeCorrect == Spec => []TypeOK
BY InitTypes, NextTypes, PTL DEF Spec

-----------------------------------------------------------------------------
(***************************************************************************)
(* The two records of a membership, workspace by workspace, when handlers  *)
(* do not meet on one.  A handler that waits says which of the two records *)
(* is ahead of the other; a workspace without one has                      *)
(*   - the same members in both (Matches),                                 *)
(*   - an owner, if it has a member or an invitation that could make one   *)
(*     (Owned): the refusal to treat the last owner looks at the list, the *)
(*     owner lives in the record,                                          *)
(*   - no invitation for a member (NotInvited).                            *)
(***************************************************************************)
On(w) == {h \in Handlers : job[h] # Idle /\ job[h].ws = w}

Vacant(w) == /\ Listed(w) = Nobody /\ invites[w] = Nobody
             /\ \A u \in Users : role[u][w] = "none"

MatchesBut(w, U) == \A u \in Users \ U : Listed(w)[u] = role[u][w]
Owned(w) == (\E u \in Users : role[u][w] # "none" \/ invites[w][u] # "none")
              => \E u \in Users : role[u][w] = "owner"
NotInvitedBut(w, U) == \A u \in Users \ U : role[u][w] # "none" => invites[w][u] = "none"

Settled(w) == MatchesBut(w, {}) /\ Owned(w) /\ NotInvitedBut(w, {})

\* What holds of w while job j waits.
Waiting(w, j) ==
  /\ j.op = "signup" => Vacant(w)
  /\ j.op = "create" => Settled(w) /\ role[j.who][w] = "owner"
  /\ j.op = "accept" => MatchesBut(w, {}) /\ Owned(w) /\ NotInvitedBut(w, {j.who})
  /\ j.op \in {"remove", "role"} => /\ MatchesBut(w, {j.who}) /\ role[j.who][w] = j.role
                                    /\ Owned(w) /\ NotInvitedBut(w, {})
  /\ j.op = "delete" => j.todo = {u \in Users : role[u][w] # "none"}

InOrder(w) ==
  /\ ids[w] = "fresh" => Vacant(w) /\ On(w) = {}
  /\ \A g, h \in On(w) : g = h
  /\ w \notin byHand =>
       /\ ids[w] = "deleted" => Vacant(w) /\ On(w) = {}
       /\ On(w) = {} => Settled(w)
       /\ \A h \in On(w) : Waiting(w, job[h])

\* A sign-up is the only handler that knows its user.
SignupsAlone ==
  \A h \in Handlers : job[h].op = "signup" =>
    /\ job[h].who \notin accounts
    /\ \A g \in Handlers : job[g] # Idle /\ job[g].who = job[h].who => g = h

Orderly == SignupsAlone /\ \A w \in Workspaces : InOrder(w)

-----------------------------------------------------------------------------
(* Steps that leave a workspace alone, and what they leave. *)

JobsKept(w) ==
  \A h \in Handlers : \/ job[h] # Idle /\ job[h].ws = w
                      \/ job'[h] # Idle /\ job'[h].ws = w
                    => job'[h] = job[h]

Same(w) ==
  /\ ids'[w] = ids[w] /\ invites'[w] = invites[w]
  /\ Listed(w)' = Listed(w)
  /\ \A u \in Users : role'[u][w] = role[u][w]
  /\ JobsKept(w)
  /\ byHand \subseteq byHand'

LEMMA OnJobs ==
  ASSUME TypeOK, NEW w, NEW h \in On(w)
  PROVE  /\ h \in Handlers /\ job[h] \in Jobs /\ job[h] # Idle /\ job[h].ws = w
         /\ job[h].op # "idle" /\ job[h].who \in Users
<1>1. h \in Handlers /\ job[h] \in Jobs /\ job[h].ws = w
  BY DEF On, TypeOK
<1> QED BY <1>1, JobsAreNotIdle DEF Jobs

LEMMA SameStaysInOrder ==
  ASSUME TypeOK, NEW w \in Workspaces, InOrder(w), Same(w)
  PROVE  InOrder(w)'
<1>1. On(w)' = On(w)
  BY DEF On, Same, JobsKept
<1>2. \A h \in On(w) : job'[h] = job[h]
  BY DEF On, Same, JobsKept
<1>3. Vacant(w)' <=> Vacant(w)
  BY DEF Vacant, Same
<1>4. \A U : (MatchesBut(w, U)' <=> MatchesBut(w, U)) /\ (NotInvitedBut(w, U)' <=> NotInvitedBut(w, U))
  BY DEF MatchesBut, NotInvitedBut, Same
<1>5. Owned(w)' <=> Owned(w)
  BY DEF Owned, Same
<1>6. Settled(w)' <=> Settled(w)
  BY <1>4, <1>5 DEF Settled
<1>7. ASSUME NEW h \in On(w), Waiting(w, job[h])
      PROVE  Waiting(w, job[h])'
  <2>1. job'[h] = job[h]
    BY <1>2
  <2>2. \A u \in Users : role'[u][w] = role[u][w]
    BY DEF Same
  <2>3. {u \in Users : role'[u][w] # "none"} = {u \in Users : role[u][w] # "none"}
    BY <2>2
  <2>4. job[h].who \in Users
    BY OnJobs
  <2> QED BY <1>3, <1>4, <1>5, <1>6, <1>7, <2>1, <2>2, <2>3, <2>4 DEF Waiting
<1> QED BY <1>1, <1>2, <1>3, <1>6, <1>7 DEF InOrder, Same

LEMMA ListedKept ==
  ASSUME TypeOK, NEW w \in Workspaces, members'[w] = members[w],
         \A u \in Users : role'[u][w] = role[u][w]
  PROVE  Listed(w)' = Listed(w)
BY DEF Listed

\* A list that a payload rebuilds says what it said.
LEMMA RefreshedListed ==
  ASSUME TypeOK, NEW w \in Workspaces, NEW m \in [Workspaces -> [Users -> Given]], NEW view,
         members' = Refreshed(m, role, view), \A u \in Users : role'[u][w] = role[u][w]
  PROVE  Listed(w)' = IF m[w] # Nobody THEN m[w] ELSE [u \in Users |-> role[u][w]]
<1>1. Listed(w)' = IF members'[w] # Nobody THEN members'[w] ELSE [u \in Users |-> role'[u][w]]
  BY DEF Listed, Nobody
<1>2. members'[w] = IF w \in view /\ m[w] = Nobody THEN [u \in Users |-> role[u][w]] ELSE m[w]
  BY DEF Refreshed
<1>3. [u \in Users |-> role'[u][w]] = [u \in Users |-> role[u][w]]
  OBVIOUS
<1> QED BY <1>1, <1>2, <1>3

LEMMA PayloadListed ==
  ASSUME TypeOK, NEW w \in Workspaces, NEW view,
         members' = Refreshed(members, role, view), \A u \in Users : role'[u][w] = role[u][w]
  PROVE  Listed(w)' = Listed(w)
<1>1. members \in [Workspaces -> [Users -> Given]]
  BY Parts DEF Lists
<1> QED BY <1>1, RefreshedListed DEF Listed

\* One role is written.
LEMMA RoleWritten ==
  ASSUME TypeOK, NEW u \in Users, NEW w \in Workspaces, NEW r \in Given,
         NEW d \in Workspaces \cup {"none"}, PersistUser(u, WithRole(u, w, r), d)
  PROVE  /\ role'[u][w] = r
         /\ \A x \in Users, v \in Workspaces : x # u \/ v # w => role'[x][v] = role[x][v]
<1>1. WithRole(u, w, r) \in [Workspaces -> Given]
  BY WithRoleTyped
<1>2. role'[u] = WithRole(u, w, r) /\ \A x \in Users : x # u => role'[x] = role[x]
  BY <1>1, Persisted
<1>3. /\ WithRole(u, w, r)[w] = r
      /\ \A v \in Workspaces : v # w => WithRole(u, w, r)[v] = role[u][v]
  BY WithRoleTyped
<1> QED BY <1>2, <1>3

LEMMA Begins ==
  ASSUME TypeOK, NEW h \in Handlers, NEW j \in Jobs, Waits(h, j)
  PROVE  /\ On(j.ws)' = On(j.ws) \cup {h} /\ h \notin On(j.ws)
         /\ job'[h] = j /\ \A g \in Handlers : g # h => job'[g] = job[g]
         /\ \A w \in Workspaces : w # j.ws => JobsKept(w)
<1>1. /\ job[h] = Idle /\ job'[h] = j /\ j # Idle
      /\ \A g \in Handlers : g # h => job'[g] = job[g]
  BY JobStep, JobsAreNotIdle DEF Waits
<1> QED BY <1>1 DEF On, JobsKept

LEMMA Ends ==
  ASSUME TypeOK, NEW h \in Handlers, job[h].op # "idle", NEW w, w = job[h].ws, Goes(h)
  PROVE  /\ h \in On(w) /\ On(w)' = On(w) \ {h}
         /\ job'[h] = Idle /\ \A g \in Handlers : g # h => job'[g] = job[g]
         /\ \A v \in Workspaces : v # w => JobsKept(v)
<1>1. /\ job'[h] = Idle /\ job[h] # Idle
      /\ \A g \in Handlers : g # h => job'[g] = job[g]
  BY JobStep, WorkingJob DEF Goes
<1> QED BY <1>1 DEF On, JobsKept

LEMMA GoesOn ==
  ASSUME TypeOK, NEW h \in Handlers, job[h].op # "idle", NEW w, w = job[h].ws,
         NEW j \in Jobs, j.ws = w, job' = [job EXCEPT ![h] = j]
  PROVE  /\ h \in On(w) /\ On(w)' = On(w)
         /\ job'[h] = j /\ \A g \in Handlers : g # h => job'[g] = job[g]
         /\ \A v \in Workspaces : v # w => JobsKept(v)
<1>1. /\ job'[h] = j /\ j # Idle /\ job[h] # Idle
      /\ \A g \in Handlers : g # h => job'[g] = job[g]
  BY JobStep, JobsAreNotIdle, WorkingJob
<1> QED BY <1>1 DEF On, JobsKept

LEMMA JobsUnchanged ==
  ASSUME UNCHANGED job, NEW w
  PROVE  JobsKept(w) /\ On(w)' = On(w)
BY DEF JobsKept, On

LEMMA Apart ==
  ASSUME "overlap" \notin Faults, NEW W, MayTouch(W), NEW w \in W
  PROVE  On(w) = {}
BY DEF MayTouch, Busy, On

\* The workspace of a waiting handler, when it is one.
LEMMA OnlyOne ==
  ASSUME TypeOK, Orderly, NEW h \in Handlers, job[h].op # "idle", NEW w, w = job[h].ws
  PROVE  /\ w \in Workspaces /\ On(w) = {h}
         /\ ids[w] \in {"used", "deleted"}
         /\ w \notin byHand => Waiting(w, job[h]) /\ ids[w] = "used"
<1>1. w \in Workspaces /\ h \in On(w)
  BY WorkingJob DEF On
<1>2. InOrder(w)
  BY <1>1 DEF Orderly
<1>3. On(w) = {h}
  BY <1>1, <1>2 DEF InOrder
<1>4. ids[w] \in {"fresh", "used", "deleted"}
  BY <1>1 DEF TypeOK
<1> QED BY <1>1, <1>2, <1>3, <1>4 DEF InOrder

-----------------------------------------------------------------------------
(* Each action keeps the workspaces in order. *)

LEMMA InOrderStep ==
  ASSUME TypeOK, Orderly, NEW w \in Workspaces,
         \A v \in Workspaces : v # w => Same(v), InOrder(w)'
  PROVE  \A v \in Workspaces : InOrder(v)'
<1>1. ASSUME NEW v \in Workspaces, v # w PROVE InOrder(v)'
  BY <1>1, SameStaysInOrder DEF Orderly
<1> QED BY <1>1

LEMMA BeginSignupOrder ==
  ASSUME TypeOK, Orderly, NEW h \in Handlers, NEW u \in Users, NEW w \in Workspaces,
         BeginSignup(h, u, w)
  PROVE  \A v \in Workspaces : InOrder(v)'
<1> DEFINE j == Job("signup", w, u, "owner", {}, {})
<1>1. j \in Jobs /\ j.ws = w /\ j.op = "signup"
  BY JobTyped, Names
<1> HIDE DEF j
<1>2. Waits(h, j)
  BY DEF BeginSignup, j
<1>3. On(w) = {} /\ Vacant(w)
  BY DEF BeginSignup, Orderly, InOrder
<1>4. On(w)' = {h} /\ job'[h] = j
  BY <1>1, <1>2, <1>3, Begins
<1>5. ids'[w] = "used" /\ \A v \in Workspaces : v # w => ids'[v] = ids[v]
  BY IdsStep DEF BeginSignup
<1>6. \A v \in Workspaces : Listed(v)' = Listed(v)
  BY ListedKept DEF BeginSignup, records
<1>7. ASSUME NEW v \in Workspaces, v # w PROVE Same(v)
  BY <1>1, <1>2, <1>5, <1>6, <1>7, Begins DEF Same, BeginSignup, records
<1>8. Vacant(w)'
  BY <1>3, <1>6 DEF Vacant, BeginSignup, records
<1>9. Waiting(w, job[h])'
  BY <1>1, <1>4, <1>8 DEF Waiting
<1>10. InOrder(w)'
  BY <1>4, <1>5, <1>9 DEF InOrder
<1> QED BY <1>7, <1>10, InOrderStep

LEMMA SignupOrder ==
  ASSUME TypeOK, Orderly, NEW h \in Handlers, Signup(h)
  PROVE  \A v \in Workspaces : InOrder(v)'
<1>0. PICK x \in Workspaces : x = job[h].ws
  BY WorkingJob DEF Signup
<1>1. PICK y \in Users : y = job[h].who
  BY WorkingJob DEF Signup
<1>2. job[h].op = "signup" /\ job[h].op # "idle"
  BY DEF Signup
<1>3. On(x) = {h} /\ ids[x] # "fresh" /\ (x \notin byHand => Vacant(x) /\ ids[x] = "used")
  BY <1>0, <1>2, OnlyOne DEF Waiting
<1>4. y \notin accounts /\ role[y] = Nowhere
  BY <1>1, <1>2 DEF Orderly, SignupsAlone, TypeOK
<1>5. role' = [role EXCEPT ![y] = [Nowhere EXCEPT ![x] = "owner"]]
  BY <1>0, <1>1 DEF Signup
<1>6. /\ role'[y][x] = "owner"
      /\ \A v \in Users, z \in Workspaces : v # y \/ z # x => role'[v][z] = role[v][z]
  <2>1. role \in [Users -> [Workspaces -> Given]]
    BY Parts DEF Records
  <2> QED BY <1>4, <1>5, <2>1, Names
<1> DEFINE j == Job("create", x, y, "owner", {}, {})
<1>7. j \in Jobs /\ j.ws = x /\ j.op = "create" /\ j.who = y
  BY JobTyped, Names
<1>8. job' = [job EXCEPT ![h] = j]
  BY <1>0, <1>1 DEF Signup
<1> HIDE DEF j
<1>9. /\ On(x)' = On(x) /\ job'[h] = j
      /\ \A v \in Workspaces : v # x => JobsKept(v)
  BY <1>0, <1>2, <1>7, <1>8, GoesOn
<1>10. ASSUME NEW v \in Workspaces, v # x PROVE Same(v)
  BY <1>6, <1>9, <1>10, ListedKept DEF Same, Signup
<1>11. ASSUME x \notin byHand PROVE Waiting(x, job[h])'
  <2>1. /\ members[x] = Nobody /\ invites[x] = Nobody
        /\ \A v \in Users : role[v][x] = "none"
    BY <1>3, <1>11 DEF Vacant, Listed
  <2>2. Listed(x)' = [v \in Users |-> role'[v][x]]
    BY <2>1 DEF Listed, Signup, Nobody
  <2>3. MatchesBut(x, {})'
    BY <2>2 DEF MatchesBut
  <2>4. Owned(x)'
    BY <1>6 DEF Owned
  <2>5. NotInvitedBut(x, {})'
    BY <2>1 DEF NotInvitedBut, Signup, Nobody
  <2> QED BY <1>6, <1>7, <1>9, <2>3, <2>4, <2>5 DEF Waiting, Settled
<1>12. InOrder(x)'
  BY <1>3, <1>9, <1>11 DEF InOrder, Signup
<1> QED BY <1>10, <1>12, InOrderStep

LEMMA AdminOrder ==
  ASSUME TypeOK, Orderly, "overlap" \notin Faults, AdminSteps
  PROVE  \A v \in Workspaces : InOrder(v)'
<1>1. ASSUME NEW u \in Users, DeleteUser(u)
      PROVE  \A v \in Workspaces : InOrder(v)'
  <2>1. ASSUME NEW v \in Workspaces, v \notin Instances(u)
        PROVE  Same(v)
    <3>1. role[u][v] = "none"
      BY <2>1 DEF Instances
    <3>2. \A x \in Users : role'[x][v] = role[x][v]
      BY <1>1, <3>1, Parts DEF DeleteUser, Records, Nowhere
    <3>3. members'[v] = members[v]
      BY <1>1, <2>1 DEF DeleteUser
    <3> QED BY <1>1, <3>2, <3>3, ListedKept, JobsUnchanged DEF Same, DeleteUser
  <2>2. ASSUME NEW v \in Workspaces, v \in Instances(u)
        PROVE  InOrder(v)'
    <3>1. On(v) = {} /\ On(v)' = {}
      BY <1>1, <2>2, Apart, JobsUnchanged DEF DeleteUser
    <3>2. ids[v] # "fresh"
      BY <2>2 DEF Orderly, InOrder, Vacant, Instances
    <3>3. v \in byHand' /\ ids'[v] = ids[v]
      BY <1>1, <2>2 DEF DeleteUser
    <3> QED BY <3>1, <3>2, <3>3 DEF InOrder
  <2> QED BY <2>1, <2>2, SameStaysInOrder DEF Orderly
<1>2. ASSUME NEW u \in Users, NEW w \in Workspaces, AddStoreId(u, w) \/ RemoveStoreId(u, w)
      PROVE  \A v \in Workspaces : InOrder(v)'
  <2>1. /\ On(w) = {} /\ On(w)' = {} /\ w \in byHand' /\ byHand \subseteq byHand'
        /\ UNCHANGED <<members, invites, job>>
    BY <1>2, Apart, JobsUnchanged DEF AddStoreId, RemoveStoreId
  <2>2. ids'[w] # "fresh" /\ \A v \in Workspaces : v # w => ids'[v] = ids[v]
    <3>1. CASE AddStoreId(u, w)
      BY <3>1, IdsStep DEF AddStoreId
    <3>2. CASE RemoveStoreId(u, w)
      BY <3>2 DEF RemoveStoreId, Orderly, InOrder, Vacant
    <3> QED BY <1>2, <3>1, <3>2
  <2>3. \E r \in Given : PersistUser(u, WithRole(u, w, r), default[u])
    BY <1>2, Names DEF AddStoreId, RemoveStoreId
  <2>4. \A x \in Users, v \in Workspaces : v # w => role'[x][v] = role[x][v]
    BY <2>3, RoleWritten, DefaultTyped
  <2>5. ASSUME NEW v \in Workspaces, v # w PROVE Same(v)
    BY <2>1, <2>2, <2>4, <2>5, ListedKept, JobsUnchanged DEF Same
  <2>6. InOrder(w)'
    BY <2>1, <2>2 DEF InOrder
  <2> QED BY <2>5, <2>6, InOrderStep
<1> QED BY <1>1, <1>2 DEF AdminSteps

LEMMA CreateWorkspaceOrder ==
  ASSUME TypeOK, Orderly, NEW h \in Handlers, NEW u \in Users, NEW w \in Workspaces,
         CreateWorkspace(h, u, w)
  PROVE  \A v \in Workspaces : InOrder(v)'
<1> DEFINE j == Job("create", w, u, "owner", {}, Instances(u) \cup {w})
           d == IF default[u] = "none" THEN w ELSE default[u]
<1>1. j \in Jobs /\ j.ws = w /\ j.op = "create" /\ j.who = u
  BY JobTyped, Names, InstancesTyped
<1>2. d \in Workspaces \cup {"none"}
  BY DefaultTyped
<1>3. Waits(h, j) /\ PersistUser(u, WithRole(u, w, "owner"), d)
  BY DEF CreateWorkspace
<1> HIDE DEF j, d
<1>4. On(w) = {} /\ Vacant(w)
  BY DEF CreateWorkspace, Orderly, InOrder
<1>5. On(w)' = {h} /\ job'[h] = j
  BY <1>1, <1>3, <1>4, Begins
<1>6. ids'[w] = "used" /\ \A v \in Workspaces : v # w => ids'[v] = ids[v]
  BY IdsStep DEF CreateWorkspace
<1>7. /\ role'[u][w] = "owner"
      /\ \A x \in Users, v \in Workspaces : x # u \/ v # w => role'[x][v] = role[x][v]
  BY <1>2, <1>3, RoleWritten, Names
<1>8. ASSUME NEW v \in Workspaces, v # w PROVE Same(v)
  BY <1>1, <1>3, <1>6, <1>7, <1>8, Begins, ListedKept DEF Same, CreateWorkspace
<1>9. Waiting(w, job[h])'
  <2>1. /\ members[w] = Nobody /\ invites[w] = Nobody
        /\ \A v \in Users : role[v][w] = "none"
    BY <1>4 DEF Vacant, Listed
  <2>2. Listed(w)' = [v \in Users |-> role'[v][w]]
    BY <2>1 DEF Listed, CreateWorkspace, Nobody
  <2>3. MatchesBut(w, {})'
    BY <2>2 DEF MatchesBut
  <2>4. Owned(w)'
    BY <1>7 DEF Owned
  <2>5. NotInvitedBut(w, {})'
    BY <2>1 DEF NotInvitedBut, CreateWorkspace, Nobody
  <2> QED BY <1>1, <1>5, <1>7, <2>3, <2>4, <2>5 DEF Waiting, Settled
<1>10. InOrder(w)'
  BY <1>5, <1>6, <1>9 DEF InOrder
<1> QED BY <1>8, <1>10, InOrderStep

\* The end of a handler that leaves its workspace x settled.
LEMMA EndsInOrder ==
  ASSUME TypeOK, Orderly, NEW h \in Handlers, job[h].op # "idle", Goes(h),
         NEW x \in Workspaces, x = job[h].ws,
         UNCHANGED <<role, byHand>>,
         \A v \in Workspaces : v # x => ids'[v] = ids[v] /\ invites'[v] = invites[v]
                                         /\ Listed(v)' = Listed(v),
         ids'[x] \in {"used", "deleted"},
         x \notin byHand => Settled(x)' /\ (ids'[x] = "deleted" => Vacant(x)')
  PROVE  \A v \in Workspaces : InOrder(v)'
<1>1. On(x) = {h}
  BY OnlyOne
<1>2. On(x)' = {} /\ \A v \in Workspaces : v # x => JobsKept(v)
  BY <1>1, Ends
<1>3. ASSUME NEW v \in Workspaces, v # x PROVE Same(v)
  BY <1>2, <1>3 DEF Same
<1>4. InOrder(x)'
  BY <1>2 DEF InOrder
<1> QED BY <1>3, <1>4, InOrderStep

LEMMA CreateEndsOrder ==
  ASSUME TypeOK, Orderly, NEW h \in Handlers, CreateEnds(h)
  PROVE  \A v \in Workspaces : InOrder(v)'
<1>0. job[h].op = "create" /\ job[h].op # "idle"
  BY DEF CreateEnds
<1>1. PICK x \in Workspaces : x = job[h].ws
  BY <1>0, WorkingJob
<1>2. PICK y \in Users : y = job[h].who
  BY <1>0, WorkingJob
<1> DEFINE m == WithMember(x, y, "owner")
<1>3. /\ m \in [Workspaces -> [Users -> Given]]
      /\ m[x] = [Listed(x) EXCEPT ![y] = "owner"] /\ \A v \in Workspaces : v # x => m[v] = members[v]
  BY WithMemberTyped, Names
<1>4. members' = Refreshed(m, role, job[h].view) /\ UNCHANGED <<role, byHand, ids>>
  BY <1>1, <1>2 DEF CreateEnds, records
<1> HIDE DEF m
<1>5. \A v \in Workspaces :
        Listed(v)' = IF m[v] # Nobody THEN m[v] ELSE [u \in Users |-> role[u][v]]
  BY <1>3, <1>4, RefreshedListed
<1>6. \A v \in Workspaces : v # x => Listed(v)' = Listed(v)
  BY <1>3, <1>5 DEF Listed
<1>7. invites'[x] = Nobody /\ \A v \in Workspaces : v # x => invites'[v] = invites[v]
  BY <1>1, InvitesDropped DEF CreateEnds
<1>8. ids[x] \in {"used", "deleted"} /\ (x \notin byHand => Waiting(x, job[h]) /\ ids[x] = "used")
  BY <1>0, <1>1, OnlyOne
<1>9. ASSUME x \notin byHand PROVE Settled(x)'
  <2>1. MatchesBut(x, {}) /\ role[y][x] = "owner"
    BY <1>0, <1>2, <1>8, <1>9 DEF Waiting, Settled
  <2>2. \A u \in Users : m[x][u] = role[u][x]
    BY <1>3, <2>1, ListedTyped DEF MatchesBut
  <2>3. \A u \in Users : Listed(x)'[u] = role[u][x]
    BY <1>5, <2>2
  <2>4. MatchesBut(x, {})'
    BY <1>4, <2>3 DEF MatchesBut
  <2>5. Owned(x)'
    BY <1>4, <2>1 DEF Owned
  <2>6. NotInvitedBut(x, {})'
    BY <1>7 DEF NotInvitedBut, Nobody
  <2> QED BY <2>4, <2>5, <2>6 DEF Settled
<1> QED BY <1>0, <1>1, <1>4, <1>6, <1>7, <1>8, <1>9, EndsInOrder DEF CreateEnds

\* Payloads and defaults leave every workspace alone.
LEMMA ViewOrder ==
  ASSUME TypeOK, Orderly, ViewSteps
  PROVE  \A v \in Workspaces : InOrder(v)'
<1>1. \E view : members' = Refreshed(members, role, view)
  BY DEF ViewSteps, SetDefault, ListWorkspaces
<1>2. role' = role /\ UNCHANGED <<invites, ids, job, byHand>>
  BY Parts DEF ViewSteps, SetDefault, ListWorkspaces, PersistUser, records, Records
<1>3. ASSUME NEW v \in Workspaces PROVE Same(v)
  BY <1>1, <1>2, PayloadListed, JobsUnchanged DEF Same
<1> QED BY <1>3, SameStaysInOrder DEF Orderly

LEMMA DeleteWorkspaceOrder ==
  ASSUME TypeOK, Orderly, "overlap" \notin Faults,
         NEW h \in Handlers, NEW u \in Users, NEW w \in Workspaces, DeleteWorkspace(h, u, w)
  PROVE  \A v \in Workspaces : InOrder(v)'
<1> DEFINE todo == {m \in Users \ {u} : Listed(w)[m] # "none"}
           j == Job("delete", w, u, "none", todo, Instances(u) \ {w})
<1>1. j \in Jobs /\ j.ws = w /\ j.op = "delete" /\ j.todo = todo
  BY JobTyped, Names, InstancesTyped
<1>2. Waits(h, j) /\ PersistUser(u, WithRole(u, w, "none"), default[u]) /\ role[u][w] = "owner"
  BY DEF DeleteWorkspace, MayDelete, IsOwner
<1> HIDE DEF j
<1>3. On(w) = {}
  BY Apart DEF DeleteWorkspace
<1>4. On(w)' = {h} /\ job'[h] = j
  BY <1>1, <1>2, <1>3, Begins
<1>5. /\ role'[u][w] = "none"
      /\ \A x \in Users, v \in Workspaces : x # u \/ v # w => role'[x][v] = role[x][v]
  <2>1. default[u] \in Workspaces \cup {"none"} /\ "none" \in Given
    BY DefaultTyped, Names
  <2> QED BY <1>2, <2>1, RoleWritten
<1>6. ids[w] # "fresh" /\ (w \notin byHand => ids[w] # "deleted" /\ MatchesBut(w, {}))
  <2>1. ~Vacant(w)
    BY <1>2, Names DEF Vacant
  <2>2. InOrder(w)
    BY DEF Orderly
  <2> QED BY <1>3, <2>1, <2>2 DEF InOrder, Settled
<1>7. \A v \in Workspaces : v # w => members'[v] = members[v]
  BY Parts DEF DeleteWorkspace, Lists
<1>8. ASSUME NEW v \in Workspaces, v # w PROVE Same(v)
  BY <1>1, <1>2, <1>5, <1>7, <1>8, Begins, ListedKept DEF Same, DeleteWorkspace
<1>9. ASSUME w \notin byHand PROVE Waiting(w, job[h])'
  <2>1. \A m \in Users : m \in todo <=> role'[m][w] # "none"
    BY <1>5, <1>6, <1>9 DEF MatchesBut
  <2> QED BY <1>1, <1>4, <2>1 DEF Waiting
<1>10. InOrder(w)'
  BY <1>4, <1>6, <1>9 DEF InOrder, DeleteWorkspace
<1> QED BY <1>8, <1>10, InOrderStep

\* The handler that finds a member without an account does not meet one, unless an
\* administrator has edited the workspace.
LEMMA DeleteMemberOrder ==
  ASSUME TypeOK, Orderly, NEW h \in Handlers, NEW m \in Users, DeleteMember(h, m)
  PROVE  \A v \in Workspaces : InOrder(v)'
<1>0. job[h].op = "delete" /\ job[h].op # "idle" /\ m \in job[h].todo /\ job[h] \in Jobs
  BY WorkingJob DEF DeleteMember
<1>1. PICK x \in Workspaces : x = job[h].ws
  BY <1>0, WorkingJob
<1>2. /\ On(x) = {h} /\ ids[x] \in {"used", "deleted"}
      /\ x \notin byHand => /\ ids[x] = "used"
                            /\ job[h].todo = {u \in Users : role[u][x] # "none"}
  BY <1>0, <1>1, OnlyOne DEF Waiting
<1>3. CASE m \in accounts
  <2> DEFINE j == [job[h] EXCEPT !.todo = @ \ {m}]
  <2>1. j \in Jobs /\ j.ws = x /\ j.op = "delete" /\ j.todo = job[h].todo \ {m}
    BY <1>0, <1>1 DEF Jobs
  <2>2. job' = [job EXCEPT ![h] = j]
    BY <1>3, Parts DEF DeleteMember, Rest
  <2> HIDE DEF j
  <2>3. /\ On(x)' = On(x) /\ job'[h] = j
        /\ \A v \in Workspaces : v # x => JobsKept(v)
    BY <1>0, <1>1, <2>1, <2>2, GoesOn
  <2>4. /\ role'[m][x] = "none"
        /\ \A u \in Users, v \in Workspaces : u # m \/ v # x => role'[u][v] = role[u][v]
    BY <1>1, <1>3, RoleWritten, DefaultTyped, Names DEF DeleteMember
  <2>5. ASSUME NEW v \in Workspaces, v # x PROVE Same(v)
    BY <2>3, <2>4, <2>5, ListedKept DEF Same, DeleteMember
  <2>6. ASSUME x \notin byHand PROVE Waiting(x, job[h])'
    <3>1. \A u \in Users : u \in j.todo <=> role'[u][x] # "none"
      BY <1>2, <2>1, <2>4, <2>6
    <3>2. j.todo \subseteq Users
      BY <1>2, <2>1, <2>6
    <3> QED BY <2>1, <2>3, <3>1, <3>2 DEF Waiting
  <2>7. InOrder(x)'
    BY <1>2, <2>3, <2>6 DEF InOrder, DeleteMember
  <2> QED BY <2>5, <2>7, InOrderStep
<1>4. CASE m \notin accounts
  <2>1. x \in byHand
    BY <1>0, <1>2, <1>4, MemberHasAccount
  <2>2. Goes(h) /\ UNCHANGED <<role, members, invites, ids, byHand>>
    BY <1>4 DEF DeleteMember
  <2>3. \A v \in Workspaces : Listed(v)' = Listed(v)
    BY <2>2, ListedKept
  <2> QED BY <1>0, <1>1, <1>2, <2>1, <2>2, <2>3, EndsInOrder
<1> QED BY <1>3, <1>4

LEMMA DeleteEndsOrder ==
  ASSUME TypeOK, Orderly, NEW h \in Handlers, DeleteEnds(h)
  PROVE  \A v \in Workspaces : InOrder(v)'
<1>0. job[h].op = "delete" /\ job[h].op # "idle" /\ job[h].todo = {}
  BY DEF DeleteEnds
<1>1. PICK x \in Workspaces : x = job[h].ws
  BY <1>0, WorkingJob
<1> DEFINE m == [members EXCEPT ![x] = Nobody]
<1>2. m \in [Workspaces -> [Users -> Given]] /\ m[x] = Nobody /\ \A v \in Workspaces : v # x => m[v] = members[v]
  BY Parts, Names DEF Lists
<1>3. members' = Refreshed(m, role, job[h].view) /\ UNCHANGED <<role, byHand>> /\ Goes(h)
  BY <1>1 DEF DeleteEnds, records
<1> HIDE DEF m
<1>4. \A v \in Workspaces :
        Listed(v)' = IF m[v] # Nobody THEN m[v] ELSE [u \in Users |-> role[u][v]]
  BY <1>2, <1>3, RefreshedListed
<1>5. \A v \in Workspaces : v # x => Listed(v)' = Listed(v)
  BY <1>2, <1>4 DEF Listed
<1>6. invites'[x] = Nobody /\ \A v \in Workspaces : v # x => invites'[v] = invites[v]
  BY <1>1, InvitesDropped DEF DeleteEnds
<1>7. ids'[x] = "deleted" /\ \A v \in Workspaces : v # x => ids'[v] = ids[v]
  BY <1>1, IdsStep DEF DeleteEnds
<1>8. ASSUME x \notin byHand PROVE Settled(x)' /\ Vacant(x)'
  <2>1. \A u \in Users : role[u][x] = "none"
    <3>1. Waiting(x, job[h])
      BY <1>0, <1>1, <1>8, OnlyOne
    <3>2. job[h].todo = {u \in Users : role[u][x] # "none"}
      BY <1>0, <3>1 DEF Waiting
    <3> QED BY <1>0, <3>2
  <2>2. Listed(x)' = Nobody
    BY <1>2, <1>4, <2>1 DEF Nobody
  <2>3. Vacant(x)'
    BY <1>3, <1>6, <2>1, <2>2 DEF Vacant
  <2>4. Settled(x)'
    BY <1>3, <1>6, <2>1, <2>2 DEF Settled, MatchesBut, Owned, NotInvitedBut, Nobody
  <2> QED BY <2>3, <2>4
<1> QED BY <1>0, <1>1, <1>3, <1>5, <1>6, <1>7, <1>8, EndsInOrder

\* An invitation goes.
LEMMA InvitationGoes ==
  ASSUME TypeOK, Orderly, NEW w \in Workspaces, NEW t \in Users, invites[w][t] # "none",
         invites' = [invites EXCEPT ![w][t] = "none"],
         UNCHANGED <<role, ids, job, byHand>>, \A v \in Workspaces : Listed(v)' = Listed(v)
  PROVE  \A v \in Workspaces : InOrder(v)'
<1>1. /\ invites'[w][t] = "none"
      /\ \A v \in Workspaces, x \in Users : v # w \/ x # t => invites'[v][x] = invites[v][x]
      /\ \A v \in Workspaces : v # w => invites'[v] = invites[v]
  BY InvitesStep, Names, Parts DEF Lists
<1>2. ASSUME NEW v \in Workspaces, v # w PROVE Same(v)
  BY <1>1, <1>2, JobsUnchanged DEF Same
<1>3. InOrder(w) /\ ~Vacant(w) /\ On(w)' = On(w)
  BY JobsUnchanged DEF Orderly, Vacant, Nobody
<1>4. \A U : MatchesBut(w, U)' <=> MatchesBut(w, U)
  BY DEF MatchesBut
<1>5. Owned(w) => Owned(w)'
  BY <1>1 DEF Owned
<1>6. \A U : NotInvitedBut(w, U) => NotInvitedBut(w, U)'
  BY <1>1 DEF NotInvitedBut
<1>7. ASSUME NEW h \in On(w), Waiting(w, job[h]) PROVE Waiting(w, job[h])'
  BY <1>3, <1>4, <1>5, <1>6, <1>7 DEF Waiting, Settled
<1>8. InOrder(w)'
  BY <1>3, <1>4, <1>5, <1>6, <1>7 DEF InOrder, Settled
<1> QED BY <1>2, <1>8, InOrderStep

LEMMA InviteOrder ==
  ASSUME TypeOK, Orderly, "overlap" \notin Faults, InviteSteps
  PROVE  \A v \in Workspaces : InOrder(v)'
<1>0. PICK u \in Users, t \in Users, w \in Workspaces, r \in AllRoles :
        Invite(u, w, t, r) \/ Revoke(u, w, t) \/ Expire(w, t)
  BY DEF InviteSteps
<1>1. UNCHANGED <<role, ids, job, byHand>>
  BY <1>0 DEF Invite, Revoke, Expire, records
<1>2. \A v \in Workspaces : Listed(v)' = Listed(v)
  BY <1>0, <1>1, PayloadListed, ListedKept DEF Invite, Revoke, Expire
<1>3. CASE Revoke(u, w, t) \/ Expire(w, t)
  BY <1>1, <1>2, <1>3, InvitationGoes DEF Revoke, Expire
<1>4. CASE Invite(u, w, t, r)
  <2>1. /\ invites'[w][t] = r
        /\ \A v \in Workspaces, x \in Users : v # w \/ x # t => invites'[v][x] = invites[v][x]
        /\ \A v \in Workspaces : v # w => invites'[v] = invites[v]
    BY <1>4, InvitesStep, Names, Parts DEF Invite, Lists
  <2>2. ASSUME NEW v \in Workspaces, v # w PROVE Same(v)
    BY <1>1, <1>2, <2>1, <2>2, JobsUnchanged DEF Same
  <2>3. role[u][w] = "owner" /\ Listed(w)[t] = "none"
    BY <1>4 DEF Invite, IsOwner
  <2>4. On(w) = {} /\ On(w)' = {} /\ InOrder(w) /\ ~Vacant(w)
    BY <1>1, <1>4, <2>3, Apart, JobsUnchanged, Names DEF Invite, Orderly, Vacant
  <2>5. ASSUME Settled(w) PROVE Settled(w)'
    <3>1. MatchesBut(w, {})'
      BY <1>1, <1>2, <2>5 DEF Settled, MatchesBut
    <3>2. Owned(w)'
      BY <1>1, <2>3 DEF Owned
    <3>3. role[t][w] = "none"
      BY <2>3, <2>5 DEF Settled, MatchesBut
    <3>4. NotInvitedBut(w, {})'
      BY <1>1, <2>1, <2>5, <3>3 DEF Settled, NotInvitedBut
    <3> QED BY <3>1, <3>2, <3>4 DEF Settled
  <2>6. InOrder(w)'
    BY <1>1, <2>4, <2>5 DEF InOrder
  <2> QED BY <2>2, <2>6, InOrderStep
<1> QED BY <1>0, <1>3, <1>4

LEMMA AcceptOrder ==
  ASSUME TypeOK, Orderly, "overlap" \notin Faults,
         NEW h \in Handlers, NEW u \in Users, NEW w \in Workspaces, Accept(h, u, w)
  PROVE  \A v \in Workspaces : InOrder(v)'
<1>1. PICK r \in Given : r = invites[w][u] /\ r # "none"
  BY Parts DEF Accept, Lists
<1> DEFINE j == Job("accept", w, u, r, {}, Instances(u) \cup {w})
           d == IF Instances(u) = {} THEN w ELSE default[u]
<1>2. j \in Jobs /\ j.ws = w /\ j.op = "accept" /\ j.who = u
  BY JobTyped, InstancesTyped
<1>3. d \in Workspaces \cup {"none"}
  BY DefaultTyped
<1>4. /\ Waits(h, j) /\ PersistUser(u, WithRole(u, w, r), d) /\ members' = WithMember(w, u, r)
      /\ UNCHANGED <<invites, ids, byHand>>
  BY <1>1 DEF Accept
<1> HIDE DEF j, d
<1>5. On(w) = {} /\ InOrder(w) /\ ~Vacant(w)
  BY <1>1, Apart DEF Accept, Orderly, Vacant, Nobody
<1>6. On(w)' = {h} /\ job'[h] = j
  BY <1>2, <1>4, <1>5, Begins
<1>7. /\ role'[u][w] = r
      /\ \A x \in Users, v \in Workspaces : x # u \/ v # w => role'[x][v] = role[x][v]
  BY <1>3, <1>4, RoleWritten
<1>8. /\ members'[w] = [Listed(w) EXCEPT ![u] = r]
      /\ \A v \in Workspaces : v # w => members'[v] = members[v]
  BY <1>4, WithMemberTyped
<1>9. ASSUME NEW v \in Workspaces, v # w PROVE Same(v)
  BY <1>2, <1>4, <1>7, <1>8, <1>9, Begins, ListedKept DEF Same
<1>10. ASSUME w \notin byHand PROVE Waiting(w, job[h])'
  <2>1. Settled(w)
    BY <1>5, <1>10 DEF InOrder
  <2>2. Listed(w)' = [Listed(w) EXCEPT ![u] = r]
    <3>1. members'[w] # Nobody
      BY <1>1, <1>8, ListedTyped DEF Nobody
    <3> QED BY <1>8, <3>1 DEF Listed, Nobody
  <2>3. MatchesBut(w, {})'
    BY <1>7, <2>1, <2>2, ListedTyped DEF Settled, MatchesBut
  <2>4. Owned(w)'
    <3>1. role[u][w] = "none"
      BY <1>1, <2>1 DEF Settled, NotInvitedBut
    <3>2. PICK x \in Users : role[x][w] = "owner"
      BY <1>1, <2>1 DEF Settled, Owned
    <3>3. role'[x][w] = "owner"
      BY <1>7, <3>1, <3>2, Names
    <3> QED BY <3>3 DEF Owned
  <2>5. NotInvitedBut(w, {u})'
    BY <1>4, <1>7, <2>1 DEF Settled, NotInvitedBut
  <2> QED BY <1>2, <1>6, <2>3, <2>4, <2>5 DEF Waiting
<1>11. InOrder(w)'
  BY <1>4, <1>5, <1>6, <1>10 DEF InOrder
<1> QED BY <1>9, <1>11, InOrderStep

LEMMA AcceptEndsOrder ==
  ASSUME TypeOK, Orderly, NEW h \in Handlers, AcceptEnds(h)
  PROVE  \A v \in Workspaces : InOrder(v)'
<1>0. job[h].op = "accept" /\ job[h].op # "idle"
  BY DEF AcceptEnds
<1>1. PICK x \in Workspaces : x = job[h].ws
  BY <1>0, WorkingJob
<1>2. PICK y \in Users : y = job[h].who
  BY <1>0, WorkingJob
<1>3. /\ members' = Refreshed(members, role, job[h].view) /\ Goes(h)
      /\ UNCHANGED <<role, ids, byHand>> /\ invites' = [invites EXCEPT ![x][y] = "none"]
  BY <1>1, <1>2 DEF AcceptEnds, records
<1>4. \A v \in Workspaces : Listed(v)' = Listed(v)
  BY <1>3, PayloadListed
<1>5. /\ invites'[x][y] = "none"
      /\ \A v \in Workspaces, u \in Users : v # x \/ u # y => invites'[v][u] = invites[v][u]
      /\ \A v \in Workspaces : v # x => invites'[v] = invites[v]
  BY <1>3, InvitesStep, Names, Parts DEF Lists
<1>6. ids[x] \in {"used", "deleted"} /\ (x \notin byHand => Waiting(x, job[h]) /\ ids[x] = "used")
  BY <1>0, <1>1, OnlyOne
<1>7. ASSUME x \notin byHand PROVE Settled(x)'
  <2>1. MatchesBut(x, {}) /\ Owned(x) /\ NotInvitedBut(x, {y})
    BY <1>0, <1>2, <1>6, <1>7 DEF Waiting
  <2>2. MatchesBut(x, {})'
    BY <1>3, <1>4, <2>1 DEF MatchesBut
  <2>3. Owned(x)'
    BY <1>3, <1>5, <2>1 DEF Owned
  <2>4. NotInvitedBut(x, {})'
    BY <1>3, <1>5, <2>1 DEF NotInvitedBut
  <2> QED BY <2>2, <2>3, <2>4 DEF Settled
<1> QED BY <1>0, <1>1, <1>3, <1>4, <1>5, <1>6, <1>7, EndsInOrder

\* Who is the last owner of the list is the last owner of the records.
LEMMA AnotherOwner ==
  ASSUME TypeOK, NEW w \in Workspaces, NEW t \in Users, MatchesBut(w, {}),
         role[t][w] = "owner", ~LastOwner(w, t)
  PROVE  \E x \in Users : x # t /\ role[x][w] = "owner"
<1> SUFFICES ASSUME \A x \in Users : x # t => role[x][w] # "owner" PROVE FALSE
  OBVIOUS
<1>1. Owners(w) = {t}
  BY DEF Owners, MatchesBut
<1>2. Cardinality(Owners(w)) = 1
  BY <1>1, FS_Singleton
<1> QED BY <1>2 DEF LastOwner, MatchesBut

LEMMA MemberOrder ==
  ASSUME TypeOK, Orderly, "overlap" \notin Faults,
         NEW h \in Handlers, NEW u \in Users, NEW w \in Workspaces, NEW t \in Users, NEW r \in AllRoles,
         RemoveMember(h, u, w, t) \/ UpdateRole(h, u, w, t, r)
  PROVE  \A v \in Workspaces : InOrder(v)'
<1>1. PICK op \in {"remove", "role"}, s \in Given, d \in Workspaces \cup {"none"} :
        /\ op = "remove" => s = "none" /\ u # t
        /\ op = "role" => (s # "owner" => ~LastOwner(w, t))
        /\ PersistUser(t, WithRole(t, w, s), d) /\ Waits(h, Job(op, w, t, s, {}, Instances(u)))
  <2>1. CASE RemoveMember(h, u, w, t)
    BY <2>1, Names, DefaultTyped DEF RemoveMember
  <2>2. CASE UpdateRole(h, u, w, t, r)
    BY <2>2, Names, DefaultTyped DEF UpdateRole
  <2> QED BY <2>1, <2>2
<1>2. /\ members' = [members EXCEPT ![w] = Listed(w)] /\ UNCHANGED <<invites, ids, byHand>>
      /\ role[u][w] = "owner" /\ role[t][w] # "none" /\ Listed(w)[t] # "none" /\ MayTouch({w})
  BY DEF RemoveMember, UpdateRole, IsOwner
<1> DEFINE j == Job(op, w, t, s, {}, Instances(u))
<1>3. j \in Jobs /\ j.ws = w /\ j.op = op /\ j.who = t /\ j.role = s
  BY JobTyped, InstancesTyped
<1>4. Waits(h, j)
  BY <1>1
<1> HIDE DEF j
<1>5. On(w) = {} /\ InOrder(w) /\ ~Vacant(w)
  BY <1>2, Apart DEF Orderly, Vacant
<1>6. On(w)' = {h} /\ job'[h] = j
  BY <1>3, <1>4, <1>5, Begins
<1>7. /\ role'[t][w] = s
      /\ \A x \in Users, v \in Workspaces : x # t \/ v # w => role'[x][v] = role[x][v]
  BY <1>1, RoleWritten
<1>8. members'[w] = Listed(w) /\ \A v \in Workspaces : v # w => members'[v] = members[v]
  BY <1>2, Parts DEF Lists
<1>9. ASSUME NEW v \in Workspaces, v # w PROVE Same(v)
  BY <1>2, <1>3, <1>4, <1>7, <1>8, <1>9, Begins, ListedKept DEF Same
<1>10. ASSUME w \notin byHand PROVE Waiting(w, job[h])'
  <2>1. Settled(w)
    BY <1>5, <1>10 DEF InOrder
  <2>2. Listed(w)' = Listed(w)
    BY <1>2, <1>8 DEF Listed, Nobody
  <2>3. MatchesBut(w, {t})'
    BY <1>7, <2>1, <2>2 DEF Settled, MatchesBut
  <2>4. Owned(w)'
    <3>1. CASE s = "owner"
      BY <1>7, <3>1 DEF Owned
    <3>2. CASE u # t
      BY <1>2, <1>7, <3>2 DEF Owned
    <3>3. CASE s # "owner" /\ u = t
      <4>1. PICK x \in Users : x # t /\ role[x][w] = "owner"
        BY <1>1, <1>2, <2>1, <3>3, AnotherOwner DEF Settled
      <4> QED BY <1>7, <4>1 DEF Owned
    <3> QED BY <3>1, <3>2, <3>3
  <2>5. NotInvitedBut(w, {})'
    BY <1>2, <1>7, <2>1 DEF Settled, NotInvitedBut
  <2> QED BY <1>3, <1>6, <1>7, <2>3, <2>4, <2>5 DEF Waiting
<1>11. InOrder(w)'
  BY <1>2, <1>5, <1>6, <1>10 DEF InOrder
<1> QED BY <1>9, <1>11, InOrderStep

LEMMA MemberEndsOrder ==
  ASSUME TypeOK, Orderly, NEW h \in Handlers, MemberEnds(h)
  PROVE  \A v \in Workspaces : InOrder(v)'
<1>0. job[h].op \in {"remove", "role"} /\ job[h].op # "idle"
  BY DEF MemberEnds
<1>1. PICK x \in Workspaces : x = job[h].ws
  BY <1>0, WorkingJob
<1>2. PICK y \in Users, r \in Given : y = job[h].who /\ r = job[h].role
  BY <1>0, WorkingJob
<1> DEFINE m == WithMember(x, y, r)
<1>3. /\ m \in [Workspaces -> [Users -> Given]]
      /\ m[x] = [Listed(x) EXCEPT ![y] = r] /\ \A v \in Workspaces : v # x => m[v] = members[v]
  BY WithMemberTyped
<1>4. members' = Refreshed(m, role, job[h].view) /\ UNCHANGED <<role, byHand, ids, invites>> /\ Goes(h)
  BY <1>1, <1>2 DEF MemberEnds, records
<1> HIDE DEF m
<1>5. \A v \in Workspaces :
        Listed(v)' = IF m[v] # Nobody THEN m[v] ELSE [u \in Users |-> role[u][v]]
  BY <1>3, <1>4, RefreshedListed
<1>6. \A v \in Workspaces : v # x => Listed(v)' = Listed(v)
  BY <1>3, <1>5 DEF Listed
<1>7. ids[x] \in {"used", "deleted"} /\ (x \notin byHand => Waiting(x, job[h]) /\ ids[x] = "used")
  BY <1>0, <1>1, OnlyOne
<1>8. ASSUME x \notin byHand PROVE Settled(x)'
  <2>1. MatchesBut(x, {y}) /\ role[y][x] = r /\ Owned(x) /\ NotInvitedBut(x, {})
    BY <1>0, <1>2, <1>7, <1>8 DEF Waiting
  <2>2. \A u \in Users : m[x][u] = role[u][x]
    BY <1>3, <2>1, ListedTyped DEF MatchesBut
  <2>3. \A u \in Users : Listed(x)'[u] = role[u][x]
    BY <1>5, <2>2
  <2>4. MatchesBut(x, {})'
    BY <1>4, <2>3 DEF MatchesBut
  <2>5. Owned(x)'
    BY <1>4, <2>1 DEF Owned
  <2>6. NotInvitedBut(x, {})'
    BY <1>4, <2>1 DEF NotInvitedBut
  <2> QED BY <2>4, <2>5, <2>6 DEF Settled
<1> QED BY <1>0, <1>1, <1>4, <1>6, <1>7, <1>8, EndsInOrder-----------------------------------------------------------------------------
(* Each action keeps sign-ups alone with their users. *)

LEMMA AloneKept ==
  ASSUME TypeOK, SignupsAlone, accounts' \subseteq accounts,
         \A h \in Handlers : \/ job'[h] = job[h]
                             \/ job'[h] = Idle
                             \/ job'[h].op # "signup" /\ job'[h].who \in accounts
                             \/ job'[h].op # "signup" /\ job[h] # Idle /\ job'[h].who = job[h].who
  PROVE  SignupsAlone'
<1> SUFFICES ASSUME NEW h \in Handlers, job'[h].op = "signup"
             PROVE  /\ job'[h].who \notin accounts'
                    /\ \A g \in Handlers : job'[g] # Idle /\ job'[g].who = job'[h].who => g = h
  BY DEF SignupsAlone
<1>1. job'[h] = job[h]
  BY JobsAreNotIdle
<1>2. /\ job[h].who \notin accounts
      /\ \A g \in Handlers : job[g] # Idle /\ job[g].who = job[h].who => g = h
  BY <1>1 DEF SignupsAlone
<1> QED BY <1>1, <1>2

LEMMA AloneWhenWaits ==
  ASSUME TypeOK, SignupsAlone, accounts' \subseteq accounts, NEW h \in Handlers, NEW j \in Jobs,
         Waits(h, j), j.op # "signup", j.who \in accounts
  PROVE  SignupsAlone'
<1>1. job'[h] = j /\ \A g \in Handlers : g # h => job'[g] = job[g]
  BY JobStep DEF Waits
<1> QED BY <1>1, AloneKept

LEMMA AloneWhenGoes ==
  ASSUME TypeOK, SignupsAlone, UNCHANGED accounts, NEW h \in Handlers, Goes(h)
  PROVE  SignupsAlone'
<1>1. job'[h] = Idle /\ \A g \in Handlers : g # h => job'[g] = job[g]
  BY JobStep DEF Goes
<1> QED BY <1>1, AloneKept

LEMMA SignupAlone ==
  ASSUME TypeOK, SignupsAlone, SignupSteps
  PROVE  SignupsAlone'
<1>1. PICK h \in Handlers, u \in Users, w \in Workspaces : BeginSignup(h, u, w) \/ Signup(h)
  BY DEF SignupSteps
<1>2. CASE BeginSignup(h, u, w)
  <2> DEFINE j == Job("signup", w, u, "owner", {}, {})
  <2>1. j \in Jobs /\ j.who = u /\ u \notin accounts
    BY <1>2, JobTyped, Names DEF BeginSignup
  <2>2. job'[h] = j /\ \A g \in Handlers : g # h => job'[g] = job[g]
    BY <1>2, <2>1, JobStep DEF BeginSignup, Waits
  <2> HIDE DEF j
  <2>3. \A g \in Handlers : job[g] # Idle => job[g].who # u
    BY <1>2 DEF BeginSignup
  <2>4. UNCHANGED accounts
    BY <1>2 DEF BeginSignup, records
  <2>5. ASSUME NEW g \in Handlers, job'[g].op = "signup"
        PROVE  /\ job'[g].who \notin accounts'
               /\ \A f \in Handlers : job'[f] # Idle /\ job'[f].who = job'[g].who => f = g
    <3>1. CASE g = h
      BY <2>1, <2>2, <2>3, <2>4, <3>1
    <3>2. CASE g # h
      <4>1. job'[g] = job[g] /\ job[g] # Idle
        BY <2>2, <2>5, <3>2, JobsAreNotIdle
      <4>2. job[g].who # u
        BY <2>3, <4>1
      <4> QED BY <2>1, <2>2, <2>4, <2>5, <4>1, <4>2 DEF SignupsAlone
    <3> QED BY <3>1, <3>2
  <2> QED BY <2>5 DEF SignupsAlone
<1>3. CASE Signup(h)
  <2>1. PICK x \in Workspaces, y \in Users : x = job[h].ws /\ y = job[h].who
    BY <1>3, WorkingJob DEF Signup
  <2> DEFINE j == Job("create", x, y, "owner", {}, {})
  <2>2. j \in Jobs /\ j.op = "create" /\ j.who = y
    BY JobTyped, Names
  <2>3. job'[h] = j /\ \A g \in Handlers : g # h => job'[g] = job[g]
    BY <1>3, <2>1, <2>2, JobStep DEF Signup
  <2>4. accounts' = accounts \cup {y} /\ job[h].op = "signup" /\ job[h] # Idle
    BY <1>3, <2>1, WorkingJob DEF Signup
  <2> HIDE DEF j
  <2>5. ASSUME NEW g \in Handlers, job'[g].op = "signup"
        PROVE  /\ job'[g].who \notin accounts'
               /\ \A f \in Handlers : job'[f] # Idle /\ job'[f].who = job'[g].who => f = g
    <3>1. g # h /\ job'[g] = job[g] /\ job[g] # Idle
      BY <2>2, <2>3, <2>5, JobsAreNotIdle
    <3>2. job[g].who # y
      BY <2>1, <2>4, <2>5, <3>1 DEF SignupsAlone
    <3>3. /\ job[g].who \notin accounts
          /\ \A f \in Handlers : job[f] # Idle /\ job[f].who = job[g].who => f = g
      BY <2>5, <3>1 DEF SignupsAlone
    <3> QED BY <2>2, <2>3, <2>4, <3>1, <3>2, <3>3
  <2> QED BY <2>5 DEF SignupsAlone
<1> QED BY <1>1, <1>2, <1>3

LEMMA StepAlone ==
  ASSUME TypeOK, SignupsAlone, Next
  PROVE  SignupsAlone'
<1>1. ASSUME UNCHANGED job, accounts' \subseteq accounts PROVE SignupsAlone'
  BY <1>1, AloneKept
<1>2. ASSUME AdminSteps \/ ViewSteps \/ InviteSteps PROVE SignupsAlone'
  <2>1. CASE AdminSteps
    BY <1>1, <2>1 DEF AdminSteps, DeleteUser, AddStoreId, RemoveStoreId
  <2>2. CASE ViewSteps
    BY <1>1, <2>2 DEF ViewSteps, SetDefault, ListWorkspaces, records
  <2>3. CASE InviteSteps
    BY <1>1, <2>3 DEF InviteSteps, Invite, Revoke, Expire, records
  <2> QED BY <1>2, <2>1, <2>2, <2>3
<1>3. ASSUME NEW h \in Handlers, CreateEnds(h) \/ DeleteEnds(h) \/ AcceptEnds(h) \/ MemberEnds(h)
      PROVE  SignupsAlone'
  BY <1>3, AloneWhenGoes DEF CreateEnds, DeleteEnds, AcceptEnds, MemberEnds, records
<1>4. ASSUME NEW h \in Handlers, NEW u \in Users, NEW w \in Workspaces,
             CreateWorkspace(h, u, w) \/ DeleteWorkspace(h, u, w) \/ Accept(h, u, w)
      PROVE  SignupsAlone'
  <2>1. u \in accounts /\ UNCHANGED accounts
    BY <1>4 DEF CreateWorkspace, DeleteWorkspace, MayDelete, IsOwner, Accept
  <2>2. PICK op \in {"create", "delete", "accept"}, r \in Given, todo \in SUBSET Users,
             view \in SUBSET Workspaces : Waits(h, Job(op, w, u, r, todo, view))
    <3>1. Instances(u) \cup {w} \in SUBSET Workspaces /\ Instances(u) \ {w} \in SUBSET Workspaces
      BY InstancesTyped
    <3>2. invites[w][u] \in Given /\ {m \in Users \ {u} : Listed(w)[m] # "none"} \in SUBSET Users
      BY Parts DEF Lists
    <3> QED BY <1>4, <3>1, <3>2, Names DEF CreateWorkspace, DeleteWorkspace, Accept
  <2> QED BY <2>1, <2>2, JobTyped, AloneWhenWaits
<1>5. ASSUME NEW h \in Handlers, NEW u \in Users, NEW w \in Workspaces, NEW t \in Users, NEW r \in AllRoles,
             RemoveMember(h, u, w, t) \/ UpdateRole(h, u, w, t, r)
      PROVE  SignupsAlone'
  <2>1. t \in accounts /\ UNCHANGED accounts
    BY <1>5 DEF RemoveMember, UpdateRole
  <2>2. PICK op \in {"remove", "role"}, s \in Given : Waits(h, Job(op, w, t, s, {}, Instances(u)))
    BY <1>5, Names DEF RemoveMember, UpdateRole
  <2>3. Instances(u) \in SUBSET Workspaces /\ {} \in SUBSET Users
    BY InstancesTyped
  <2> QED BY <2>1, <2>2, <2>3, JobTyped, AloneWhenWaits
<1>6. ASSUME NEW h \in Handlers, NEW m \in Users, DeleteMember(h, m) PROVE SignupsAlone'
  <2>1. job[h].op = "delete" /\ job[h] \in Jobs /\ job[h] # Idle /\ UNCHANGED accounts
    BY <1>6, WorkingJob DEF DeleteMember
  <2>2. CASE Goes(h)
    BY <2>1, <2>2, AloneWhenGoes
  <2>3. CASE job' = [job EXCEPT ![h].todo = @ \ {m}]
    <3> DEFINE j == [job[h] EXCEPT !.todo = @ \ {m}]
    <3>1. j \in Jobs /\ j.who = job[h].who /\ j.op = "delete"
      BY <2>1 DEF Jobs
    <3>2. job' = [job EXCEPT ![h] = j]
      BY <2>3, Parts DEF Rest
    <3>3. job'[h] = j /\ \A g \in Handlers : g # h => job'[g] = job[g]
      BY <3>1, <3>2, JobStep
    <3> HIDE DEF j
    <3> QED BY <2>1, <3>1, <3>3, AloneKept
  <2> QED BY <1>6, <2>2, <2>3 DEF DeleteMember
<1>7. CreateSteps => SignupsAlone'
  BY <1>3, <1>4 DEF CreateSteps
<1>8. DeleteSteps => SignupsAlone'
  BY <1>3, <1>4, <1>6 DEF DeleteSteps
<1>9. AcceptSteps => SignupsAlone'
  BY <1>3, <1>4 DEF AcceptSteps
<1>10. MemberSteps => SignupsAlone'
  BY <1>3, <1>5 DEF MemberSteps
<1> QED BY <1>2, <1>7, <1>8, <1>9, <1>10, SignupAlone, StepKinds

-----------------------------------------------------------------------------
(* The invariant, and what it says of the four promises. *)

LEMMA InitOrderly == Init => Orderly
<1> SUFFICES ASSUME Init PROVE Orderly
  OBVIOUS
<1>1. \A h \in Handlers : job[h] = Idle /\ job[h].op = "idle"
  BY JobsAreNotIdle DEF Init
<1>2. SignupsAlone
  BY <1>1 DEF SignupsAlone
<1>3. ASSUME NEW w \in Workspaces PROVE InOrder(w)
  <2>1. On(w) = {}
    BY <1>1 DEF On
  <2>2. /\ members[w] = Nobody /\ invites[w] = Nobody /\ ids[w] = "fresh"
        /\ \A u \in Users : role[u][w] = "none"
    BY <1>3 DEF Init, Nowhere
  <2>3. Listed(w) = Nobody
    BY <2>2 DEF Listed, Nobody
  <2>4. Vacant(w)
    BY <2>2, <2>3 DEF Vacant
  <2>5. Settled(w)
    BY <2>2, <2>3 DEF Settled, MatchesBut, Owned, NotInvitedBut, Nobody
  <2> QED BY <2>1, <2>2, <2>4, <2>5 DEF InOrder
<1> QED BY <1>2, <1>3 DEF Orderly

LEMMA NextOrderly ==
  ASSUME "overlap" \notin Faults
  PROVE  TypeOK /\ Orderly /\ [Next]_vars => Orderly'
<1> SUFFICES ASSUME TypeOK, Orderly, [Next]_vars PROVE Orderly'
  OBVIOUS
<1>1. CASE UNCHANGED vars
  <2>1. UNCHANGED <<accounts, role, members, invites, ids, job, byHand>>
    BY <1>1 DEF vars, records
  <2>2. SignupsAlone'
    BY <2>1, AloneKept DEF Orderly
  <2>3. ASSUME NEW w \in Workspaces PROVE Same(w)
    BY <2>1, ListedKept, JobsUnchanged DEF Same
  <2> QED BY <2>2, <2>3, SameStaysInOrder DEF Orderly
<1>2. CASE Next
  <2>1. SignupsAlone'
    BY <1>2, StepAlone DEF Orderly
  <2> DEFINE AllInOrder == \A v \in Workspaces : InOrder(v)'
  <2>2. SignupSteps => AllInOrder
    BY BeginSignupOrder, SignupOrder DEF SignupSteps
  <2>3. AdminSteps => AllInOrder
    BY AdminOrder
  <2>4. CreateSteps => AllInOrder
    BY CreateWorkspaceOrder, CreateEndsOrder DEF CreateSteps
  <2>5. ViewSteps => AllInOrder
    BY ViewOrder
  <2>6. DeleteSteps => AllInOrder
    BY DeleteWorkspaceOrder, DeleteMemberOrder, DeleteEndsOrder DEF DeleteSteps
  <2>7. InviteSteps => AllInOrder
    BY InviteOrder
  <2>8. AcceptSteps => AllInOrder
    BY AcceptOrder, AcceptEndsOrder DEF AcceptSteps
  <2>9. MemberSteps => AllInOrder
    BY MemberOrder, MemberEndsOrder DEF MemberSteps
  <2>10. AllInOrder
    BY <1>2, <2>2, <2>3, <2>4, <2>5, <2>6, <2>7, <2>8, <2>9, StepKinds
  <2> QED BY <2>1, <2>10 DEF Orderly
<1> QED BY <1>1, <1>2

LEMMA QuietIsFree ==
  ASSUME NEW w, Quiet(w)
  PROVE  On(w) = {}
BY DEF Quiet, Busy, On

LEMMA OrderlySays ==
  ASSUME TypeOK, Orderly
  PROVE  ListMatchesRecords /\ OwnerRemains /\ DeletedLeavesNothing /\ MembersAreNotInvited
<1>1. ASSUME NEW w \in Workspaces \ byHand, Quiet(w) PROVE Settled(w)
  BY <1>1, QuietIsFree DEF Orderly, InOrder
<1>2. ListMatchesRecords
  BY <1>1 DEF ListMatchesRecords, Settled, MatchesBut
<1>3. OwnerRemains
  BY <1>1 DEF OwnerRemains, Settled, Owned
<1>4. DeletedLeavesNothing
  BY DEF DeletedLeavesNothing, Orderly, InOrder, Vacant
<1>5. MembersAreNotInvited
  BY <1>1 DEF MembersAreNotInvited, Settled, NotInvitedBut
<1> QED BY <1>2, <1>3, <1>4, <1>5

LEMMA AlwaysOrderly ==
  ASSUME "overlap" \notin Faults
  PROVE  Spec => []Orderly
<1>1. Init => Orderly
  BY InitOrderly
<1>2. TypeOK /\ Orderly /\ [Next]_vars => Orderly'
  BY NextOrderly
<1> QED BY <1>1, <1>2, TypeCorrect, PTL DEF Spec

\* The list of a workspace and the user records agree whenever no handler of the workspace
\* waits, although every handler writes the two at different moments and a payload may
\* rebuild an empty list from half-written records.
THEOREM RecordsAgree ==
  ASSUME "overlap" \notin Faults
  PROVE  Spec => []ListMatchesRecords
BY AlwaysOrderly, TypeCorrect, OrderlySays, PTL

\* A workspace with members has an owner: the refusals to remove or demote the last owner,
\* which count the list, protect the owner in the records.
THEOREM AnOwnerRemains ==
  ASSUME "overlap" \notin Faults
  PROVE  Spec => []OwnerRemains
BY AlwaysOrderly, TypeCorrect, OrderlySays, PTL

\* A deleted workspace leaves no role and no invitation behind.
THEOREM NothingIsLeft ==
  ASSUME "overlap" \notin Faults
  PROVE  Spec => []DeletedLeavesNothing
BY AlwaysOrderly, TypeCorrect, OrderlySays, PTL

\* Nobody is a member and invited at the same time, so an old invitation never brings a
\* removed member back.
THEOREM NoMemberIsInvited ==
  ASSUME "overlap" \notin Faults
  PROVE  Spec => []MembersAreNotInvited
BY AlwaysOrderly, TypeCorrect, OrderlySays, PTL
=============================================================================

----------------------------- MODULE UserStore -----------------------------
(***************************************************************************)
(* Accounts and workspace membership: the UserStore Durable Object         *)
(* (packages/auth-worker/src/durable-objects/UserStore.ts).                *)
(*                                                                         *)
(* Membership is written down twice: in the user records (instances, with  *)
(* a role each) and in one list of members per workspace.  The object runs *)
(* one handler at a time as long as that handler waits for its storage     *)
(* only; while a handler waits for the KV namespace of the claims versions *)
(* or for the hash of a password, others run.  An action is what a handler *)
(* does between two such waits, a job is a handler that waits.             *)
(*                                                                         *)
(* A user is named by one id and e-mail address; names, dates, tokens and  *)
(* the audit log are left out; the claims versions that persistUser bumps  *)
(* are the subject of Sessions.                                            *)
(***************************************************************************)
EXTENDS Integers, FiniteSets

CONSTANTS
  Users,
  Workspaces,    \* bound: ids that randomUUID may give
  Roles,         \* roles other than owner
  Handlers,      \* bound: requests handled at the same time
  MaxInstances,  \* MAX_INSTANCES_PER_USER
  MaxEdits,      \* bound: workspaces administrators have edited
  Faults         \* what the environment may do, see FaultKinds

FaultKinds == {"overlap", "admin", "expire"}

ASSUME StoreAssumption ==
  /\ "owner" \notin Roles /\ "none" \notin Roles /\ "none" \notin Workspaces
  /\ MaxInstances \in Nat \ {0} /\ MaxEdits \in Nat
  /\ Faults \subseteq FaultKinds

VARIABLES
  accounts,   \* users that have a record
  role,       \* user record: role[u][w], "none" without an instance of w
  default,    \* user record: the instance with isDefault, or "none"
  members,    \* workspace:members:{w}, all "none" when empty or missing
  invites,    \* workspace:invitations:{w}: the role each user is offered by a pending
              \* invitation (an accepted one has no effect any more)
  ids,        \* ids of workspaces: "fresh", "used" or "deleted"
  job,        \* what each handler waits for
  byHand      \* history: workspaces whose membership an administrator edited

records == <<accounts, role, default>>
vars == <<records, members, invites, ids, job, byHand>>

AllRoles == Roles \cup {"owner"}
Nobody   == [u \in Users |-> "none"]
Nowhere  == [w \in Workspaces |-> "none"]

\* op, the workspace and user it is about, the role it grants, the members a
\* deletion has still to treat, and the instances of the record it holds.
Job(op, w, u, r, todo, view) ==
  [op |-> op, ws |-> w, who |-> u, role |-> r, todo |-> todo, view |-> view]

Jobs == [op: {"signup", "create", "delete", "accept", "remove", "role"},
         ws: Workspaces, who: Users, role: AllRoles \cup {"none"},
         todo: SUBSET Users, view: SUBSET Workspaces]
Idle == [op |-> "idle"]

TypeOK ==
  /\ accounts \subseteq Users
  /\ role \in [Users -> [Workspaces -> AllRoles \cup {"none"}]]
  /\ default \in [Users -> Workspaces \cup {"none"}]
  /\ members \in [Workspaces -> [Users -> AllRoles \cup {"none"}]]
  /\ invites \in [Workspaces -> [Users -> AllRoles \cup {"none"}]]
  /\ ids \in [Workspaces -> {"fresh", "used", "deleted"}]
  /\ job \in [Handlers -> Jobs \cup {Idle}]
  /\ byHand \subseteq Workspaces
  /\ \A u \in Users : u \notin accounts => role[u] = Nowhere

Init ==
  /\ accounts = {}
  /\ role = [u \in Users |-> Nowhere]
  /\ default = [u \in Users |-> "none"]
  /\ members = [w \in Workspaces |-> Nobody]
  /\ invites = [w \in Workspaces |-> Nobody]
  /\ ids = [w \in Workspaces |-> "fresh"]
  /\ job = [h \in Handlers |-> Idle]
  /\ byHand = {}

-----------------------------------------------------------------------------
(* Reading and writing the two records *)

Instances(u)    == {w \in Workspaces : role[u][w] # "none"}
IsOwner(u, w)   == u \in accounts /\ role[u][w] = "owner"       \* ensureUserHasRole

\* getWorkspaceMembers: an empty list is rebuilt from the user records.
Listed(w) == IF members[w] # Nobody THEN members[w] ELSE [u \in Users |-> role[u][w]]
Owners(w) == {u \in Users : Listed(w)[u] = "owner"}             \* countWorkspaceOwners

\* buildWorkspacePayload reads the list of every workspace in view, and so
\* writes the lists that are empty; m and r are lists and records by then.
Refreshed(m, r, view) ==
  [w \in Workspaces |-> IF w \in view /\ m[w] = Nobody THEN [u \in Users |-> r[u][w]] ELSE m[w]]

WithMember(w, u, r) == [members EXCEPT ![w] = [Listed(w) EXCEPT ![u] = r]]

\* persistUser with bumpWorkspaceClaimsVersion; the KV write follows.
PersistUser(u, inst, dflt) ==
  /\ role' = [role EXCEPT ![u] = inst]
  /\ default' = [default EXCEPT ![u] = dflt]

WithRole(u, w, r) == [role[u] EXCEPT ![w] = r]

\* The flag isDefault goes with its instance.
Kept(u, w) == IF default[u] = w THEN "none" ELSE default[u]

Waits(h, j)   == job[h] = Idle /\ job' = [job EXCEPT ![h] = j]
Goes(h)       == job' = [job EXCEPT ![h] = Idle]

\* Bound: administrators edit while fewer than MaxEdits workspaces are edited.
AdminMay == "admin" \in Faults /\ Cardinality(byHand) < MaxEdits

\* Nothing keeps handlers for the same workspace from meeting at their waits.
\* Without the fault "overlap" they happen not to.
Busy == {job[h].ws : h \in {g \in Handlers : job[g] # Idle}}
MayTouch(W) == "overlap" \in Faults \/ W \cap Busy = {}

-----------------------------------------------------------------------------
(* Accounts *)

\* handleCreateUser: the address is free; the password is hashed.  (A second
\* request for the same address at this moment is left out.)
BeginSignup(h, u, w) ==
  /\ u \notin accounts /\ ids[w] = "fresh"
  /\ \A g \in Handlers : job[g] # Idle => job[g].who # u
  /\ Waits(h, Job("signup", w, u, "owner", {}, {}))
  /\ ids' = [ids EXCEPT ![w] = "used"]
  /\ UNCHANGED <<records, members, invites, byHand>>

\* The record with its default workspace is stored, with version 1.
Signup(h) ==
  /\ job[h].op = "signup"
  /\ LET u == job[h].who  w == job[h].ws IN
       /\ accounts' = accounts \cup {u}
       /\ role' = [role EXCEPT ![u] = [Nowhere EXCEPT ![w] = "owner"]]
       /\ default' = [default EXCEPT ![u] = w]
       /\ job' = [job EXCEPT ![h] = Job("create", w, u, "owner", {}, {})]
  /\ UNCHANGED <<members, invites, ids, byHand>>

\* handleDeleteUser (administrators): out of the lists, then the record.  No
\* claims version is written, and nobody asks whether an owner is left.
DeleteUser(u) ==
  /\ AdminMay
  /\ u \in accounts /\ MayTouch(Instances(u))
  /\ members' = [w \in Workspaces |->
                   IF w \in Instances(u) THEN [Listed(w) EXCEPT ![u] = "none"] ELSE members[w]]
  /\ accounts' = accounts \ {u}
  /\ role' = [role EXCEPT ![u] = Nowhere]
  /\ default' = [default EXCEPT ![u] = "none"]
  /\ byHand' = byHand \cup Instances(u)
  /\ UNCHANGED <<invites, ids, job>>

\* mutant: the record of a user that does not exist
AddStoreIdUnchecked(u, w) ==
  /\ AdminMay
  /\ role[u][w] = "none" /\ MayTouch({w})
  /\ Cardinality(Instances(u)) < MaxInstances
  /\ PersistUser(u, WithRole(u, w, "owner"), default[u])
  /\ ids' = [ids EXCEPT ![w] = "used"]
  /\ byHand' = byHand \cup {w}
  /\ UNCHANGED <<accounts, members, invites, job>>

\* handleUpdateUserStoreIds (administrators): the record only, not the list.
AddStoreId(u, w) ==
  /\ AdminMay
  /\ u \in accounts /\ role[u][w] = "none" /\ MayTouch({w})
  /\ Cardinality(Instances(u)) < MaxInstances
  /\ PersistUser(u, WithRole(u, w, "owner"), default[u])
  /\ ids' = [ids EXCEPT ![w] = "used"]
  /\ byHand' = byHand \cup {w}
  /\ UNCHANGED <<accounts, members, invites, job>>

RemoveStoreId(u, w) ==
  /\ AdminMay
  /\ u \in accounts /\ role[u][w] # "none" /\ default[u] # w /\ MayTouch({w})
  /\ Cardinality(Instances(u)) > 1
  /\ PersistUser(u, WithRole(u, w, "none"), default[u])
  /\ byHand' = byHand \cup {w}
  /\ UNCHANGED <<accounts, members, invites, ids, job>>

-----------------------------------------------------------------------------
(* Workspaces *)

\* handleCreateWorkspace: the record first (appendInstance) ...
CreateWorkspace(h, u, w) ==
  /\ u \in accounts /\ ids[w] = "fresh"
  /\ Cardinality(Instances(u)) < MaxInstances
  /\ PersistUser(u, WithRole(u, w, "owner"), IF default[u] = "none" THEN w ELSE default[u])
  /\ ids' = [ids EXCEPT ![w] = "used"]
  /\ Waits(h, Job("create", w, u, "owner", {}, Instances(u) \cup {w}))
  /\ UNCHANGED <<accounts, members, invites, byHand>>

\* ... then, after the KV write, the list.  handleCreateUser ends alike.
CreateEnds(h) ==
  /\ job[h].op = "create"
  /\ invites' = [invites EXCEPT ![job[h].ws] = Nobody]
  /\ members' = Refreshed(WithMember(job[h].ws, job[h].who, "owner"), role, job[h].view)
  /\ Goes(h)
  /\ UNCHANGED <<records, ids, byHand>>

\* handleSetDefaultWorkspace, handleAdminSetDefaultInstance.
SetDefault(u, w) ==
  /\ role[u][w] # "none" /\ default[u] # w
  /\ PersistUser(u, role[u], w)
  /\ members' = Refreshed(members, role, Instances(u))
  /\ UNCHANGED <<accounts, invites, ids, job, byHand>>

\* handleListWorkspaces, handleRenameWorkspace, handleTouchWorkspace: names and
\* dates are left out, what remains is the payload.
ListWorkspaces(u) ==
  /\ u \in accounts
  /\ members' = Refreshed(members, role, Instances(u))
  /\ UNCHANGED <<records, invites, ids, job, byHand>>

\* The checks of handleDeleteWorkspace and deleteInstance.
MayDelete(u, w) ==
  /\ IsOwner(u, w) /\ default[u] # w /\ Cardinality(Instances(u)) > 1
  /\ \A m \in Users \ {u} : Listed(w)[m] # "none" => m \in accounts /\ Instances(m) \ {w} # {}

\* handleDeleteWorkspace: the record of the owner ...
DeleteWorkspace(h, u, w) ==
  /\ MayDelete(u, w) /\ MayTouch({w})
  /\ PersistUser(u, WithRole(u, w, "none"), default[u])
  /\ Waits(h, Job("delete", w, u, "none", {m \in Users \ {u} : Listed(w)[m] # "none"},
                  Instances(u) \ {w}))
  /\ members' = [members EXCEPT ![w] = Listed(w)]
  /\ UNCHANGED <<accounts, invites, ids, byHand>>

\* ... one member after the other, with a KV write at each; a member whose
\* account is gone by now ends the handler half-way ...
DeleteMember(h, m) ==
  /\ job[h].op = "delete" /\ m \in job[h].todo
  /\ IF m \in accounts
     THEN /\ PersistUser(m, WithRole(m, job[h].ws, "none"), Kept(m, job[h].ws))
          /\ job' = [job EXCEPT ![h].todo = @ \ {m}]
     ELSE /\ Goes(h)
          /\ UNCHANGED <<role, default>>
  /\ UNCHANGED <<accounts, members, invites, ids, byHand>>

\* mutant: the invitations are kept
DeleteEndsKeepingInvites(h) ==
  /\ job[h].op = "delete" /\ job[h].todo = {}
  /\ members' = Refreshed([members EXCEPT ![job[h].ws] = Nobody], role, job[h].view)
  /\ ids' = [ids EXCEPT ![job[h].ws] = "deleted"]
  /\ Goes(h)
  /\ UNCHANGED <<records, invites, byHand>>

\* ... and at last the lists.
DeleteEnds(h) ==
  /\ job[h].op = "delete" /\ job[h].todo = {}
  /\ invites' = [invites EXCEPT ![job[h].ws] = Nobody]
  /\ members' = Refreshed([members EXCEPT ![job[h].ws] = Nobody], role, job[h].view)
  /\ ids' = [ids EXCEPT ![job[h].ws] = "deleted"]
  /\ Goes(h)
  /\ UNCHANGED <<records, byHand>>

-----------------------------------------------------------------------------
(* Invitations *)

\* handleInviteWorkspaceMember.
Invite(u, w, to, r) ==
  /\ IsOwner(u, w) /\ to # u /\ MayTouch({w})
  /\ Listed(w)[to] = "none" /\ invites[w][to] = "none"
  /\ invites' = [invites EXCEPT ![w][to] = r]
  /\ members' = Refreshed(members, role, Instances(u))
  /\ UNCHANGED <<records, ids, job, byHand>>

\* handleRevokeWorkspaceInvitation by user u.
Revoke(u, w, to) ==
  /\ IsOwner(u, w) /\ MayTouch({w})
  /\ invites[w][to] # "none"
  /\ invites' = [invites EXCEPT ![w][to] = "none"]
  /\ members' = Refreshed(members, role, Instances(u))
  /\ UNCHANGED <<records, ids, job, byHand>>

\* Seven days have passed; the next reader of the list drops the invitation.
Expire(w, to) ==
  /\ "expire" \in Faults
  /\ invites[w][to] # "none"
  /\ invites' = [invites EXCEPT ![w][to] = "none"]
  /\ UNCHANGED <<records, members, ids, job, byHand>>

\* handleAcceptWorkspaceInvitation: the list, the record (addWorkspaceToUser,
\* without a look at MaxInstances) ...
Accept(h, u, w) ==
  /\ u \in accounts /\ invites[w][u] # "none" /\ MayTouch({w})
  /\ members' = WithMember(w, u, invites[w][u])
  /\ PersistUser(u, WithRole(u, w, invites[w][u]), IF Instances(u) = {} THEN w ELSE default[u])
  /\ Waits(h, Job("accept", w, u, invites[w][u], {}, Instances(u) \cup {w}))
  /\ UNCHANGED <<accounts, invites, ids, byHand>>

\* mutant: the invitation stays pending
AcceptEndsPending(h) ==
  /\ job[h].op = "accept"
  /\ members' = Refreshed(members, role, job[h].view)
  /\ Goes(h)
  /\ UNCHANGED <<records, invites, ids, byHand>>

\* ... and the invitation, if it is still there.
AcceptEnds(h) ==
  /\ job[h].op = "accept"
  /\ invites' = [invites EXCEPT ![job[h].ws][job[h].who] = "none"]
  /\ members' = Refreshed(members, role, job[h].view)
  /\ Goes(h)
  /\ UNCHANGED <<records, ids, byHand>>

-----------------------------------------------------------------------------
(* Members *)

\* mutant: off by one
LastOwnerLate(w, t) == Listed(w)[t] = "owner" /\ Cardinality(Owners(w)) <= 0

\* The last owner in the list may be neither removed nor demoted.
LastOwner(w, t) == Listed(w)[t] = "owner" /\ Cardinality(Owners(w)) <= 1

\* handleRemoveWorkspaceMember: checks, and the record of the target ...
RemoveMember(h, u, w, t) ==
  /\ IsOwner(u, w) /\ t # u /\ MayTouch({w})
  /\ Listed(w)[t] # "none" /\ ~LastOwner(w, t)
  /\ t \in accounts /\ role[t][w] # "none" /\ Instances(t) \ {w} # {}
  /\ PersistUser(t, WithRole(t, w, "none"), Kept(t, w))
  /\ members' = [members EXCEPT ![w] = Listed(w)]
  /\ Waits(h, Job("remove", w, t, "none", {}, Instances(u)))
  /\ UNCHANGED <<accounts, invites, ids, byHand>>

\* handleUpdateWorkspaceMemberRole: the same for a change of the role, of the
\* owner's own role too ...
UpdateRole(h, u, w, t, r) ==
  /\ IsOwner(u, w) /\ MayTouch({w})
  /\ Listed(w)[t] \notin {"none", r}
  /\ r # "owner" => ~LastOwner(w, t)
  /\ t \in accounts /\ role[t][w] # "none"
  /\ PersistUser(t, WithRole(t, w, r), default[t])
  /\ members' = [members EXCEPT ![w] = Listed(w)]
  /\ Waits(h, Job("role", w, t, r, {}, Instances(u)))
  /\ UNCHANGED <<accounts, invites, ids, byHand>>

\* mutant: the list is left as it is
MemberEndsRecordOnly(h) ==
  /\ job[h].op \in {"remove", "role"}
  /\ members' = Refreshed(members, role, job[h].view)
  /\ Goes(h)
  /\ UNCHANGED <<records, invites, ids, byHand>>

\* ... and, after the KV write, the list.
MemberEnds(h) ==
  /\ job[h].op \in {"remove", "role"}
  /\ members' = Refreshed(WithMember(job[h].ws, job[h].who, job[h].role), role, job[h].view)
  /\ Goes(h)
  /\ UNCHANGED <<records, invites, ids, byHand>>

-----------------------------------------------------------------------------
Next ==
  \/ \E h \in Handlers : \/ Signup(h) \/ CreateEnds(h) \/ DeleteEnds(h) \/ AcceptEnds(h) \/ MemberEnds(h)
                         \/ \E m \in Users : DeleteMember(h, m)
  \/ \E u \in Users : DeleteUser(u) \/ ListWorkspaces(u)
  \/ \E u \in Users, w \in Workspaces :
       \/ AddStoreId(u, w) \/ RemoveStoreId(u, w) \/ SetDefault(u, w)
       \/ \E h \in Handlers : BeginSignup(h, u, w) \/ CreateWorkspace(h, u, w) \/ DeleteWorkspace(h, u, w)
       \/ Expire(w, u)
       \/ \E h \in Handlers : Accept(h, u, w)
       \/ \E t \in Users : Revoke(u, w, t)
       \/ \E t \in Users, r \in AllRoles :
            Invite(u, w, t, r) \/ \E h \in Handlers : UpdateRole(h, u, w, t, r)
       \/ \E t \in Users, h \in Handlers : RemoveMember(h, u, w, t)

Spec == Init /\ [][Next]_vars

-----------------------------------------------------------------------------
(* Properties *)

\* No handler that has changed one of the records has still to change the other.
Quiet(w) == w \notin Busy

\* The list of a workspace says what the user records say, once its handlers
\* are through: members, roles, and nobody who has no account.
ListMatchesRecords ==
  \A w \in Workspaces \ byHand : Quiet(w) => \A u \in Users : Listed(w)[u] = role[u][w]

\* A workspace that has members has an owner among them: the refusals to remove
\* or demote the last owner hold across both records.
OwnerRemains ==
  \A w \in Workspaces \ byHand :
    Quiet(w) /\ (\E u \in Users : role[u][w] # "none") => \E u \in Users : role[u][w] = "owner"

\* Nothing is left of a deleted workspace: nobody's record names it and no
\* invitation can bring a member back.
DeletedLeavesNothing ==
  \A w \in Workspaces \ byHand :
    ids[w] = "deleted" => invites[w] = Nobody /\ \A u \in Users : role[u][w] = "none"

\* A member has no open invitation to the workspace, so a removed member cannot
\* return with an old one.
MembersAreNotInvited ==
  \A w \in Workspaces \ byHand, u \in Users :
    Quiet(w) /\ role[u][w] # "none" => invites[w][u] = "none"
=============================================================================

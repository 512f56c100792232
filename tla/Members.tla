------------------------------ MODULE Members ------------------------------
(***************************************************************************)
(* Members of workspaces: memberships with their roles, invitations,       *)
(* personal workspaces (pkg/store/portal.go) behind the portal and control *)
(* handlers of klc.                                                        *)
(*                                                                         *)
(* A request reads who acts and in which role before its transaction.  The *)
(* transactions that lower a role lock the one membership row they change, *)
(* count the owners and write: the lock and the count are one step, the    *)
(* write and the commit another, so that two such requests can overlap.    *)
(* A session acts in the membership it selected, or in the first one when  *)
(* that is gone: any membership of the account may be the one.             *)
(*                                                                         *)
(* The store's operations take the role of whoever acts as a parameter.    *)
(* klc sets roles for operators only; no handler of this repository passes *)
(* a portal user's role, removes a member or lets one leave.  Such a call  *)
(* is taken to read the session first, as all the portal handlers do.      *)
(***************************************************************************)
EXTENDS Naturals, FiniteSets

CONSTANTS
  Account, Workspace, Invitation, Request,
  Role,             \* the roles in use, among the four of the schema
  MaxOrganizations  \* bound: workspaces that are not personal

ASSUME RoleAssumption ==
  /\ "owner" \in Role
  /\ Role \subseteq {"owner", "tenant_admin", "billing_admin", "member"}

ASSUME NoneAssumption == "none" \notin Account \cup Workspace

VARIABLES
  kind,         \* tenants.kind, None for a slug that is free
  personal,     \* tenants.personal_owner_account_id, or None
  role,         \* role[w][a]: role of the active tenant_memberships row, or None
  invitations,  \* tenant_invitations, or NoInvitation
  req,          \* the requests under way
  raced         \* history: workspaces in which requests lowering an owner overlapped

memberVars == <<kind, personal, role, invitations, req, raced>>

None         == "none"
NoInvitation == [ws |-> None, account |-> None, role |-> None, status |-> None]
Idle         == [pc |-> "idle", who |-> None, as |-> None, ws |-> None, target |-> None,
                 to |-> None]
Invitable    == Role \ {"owner"}
Managers     == {"owner", "tenant_admin", "platform_admin"}

At(r, pc)    == req[r].pc = pc
Return(r)    == req' = [req EXCEPT ![r] = Idle]
InFlight     == {r \in Request : req[r].pc \in {"set", "remove", "leave"}}
Owners(w)    == {a \in Account : role[w][a] = "owner"}

(* Row locks of the transactions under way: FOR UPDATE on the membership,  *)
(* and for a leave on the tenants row too, which also holds up whoever     *)
(* inserts a row that refers to the workspace.                             *)

(* Mutant of TenantFree: the leave locks no tenant.                        *)
TenantUnlocked(w) == TRUE

RowFree(w, a)  == \A r \in InFlight : ~ (req[r].ws = w /\ req[r].target = a)
TenantFree(w)  == \A r \in InFlight : ~ (req[r].ws = w /\ At(r, "leave"))

MembersInit ==
  /\ kind = [w \in Workspace |-> None]
  /\ personal = [w \in Workspace |-> None]
  /\ role = [w \in Workspace |-> [a \in Account |-> None]]
  /\ invitations = [i \in Invitation |-> NoInvitation]
  /\ req = [r \in Request |-> Idle]
  /\ raced = {}

-----------------------------------------------------------------------------
(* Workspaces.  A slug that is taken ends the transaction with an error.   *)

CreateTenantForPortalAccount(a, w) ==
  /\ Cardinality({v \in Workspace : kind[v] = "organization"}) < MaxOrganizations
  /\ kind[w] = None
  /\ kind' = [kind EXCEPT ![w] = "organization"]
  /\ role' = [role EXCEPT ![w][a] = "owner"]
  /\ UNCHANGED <<personal, invitations, req, raced>>

(* The workspace the account has already is returned; one that it has lost *)
(* the membership of makes the insert fail on the unique owner.            *)
CreatePersonalWorkspace(a, w) ==
  /\ \A v \in Workspace : personal[v] # a
  /\ kind[w] = None
  /\ kind' = [kind EXCEPT ![w] = "personal"]
  /\ personal' = [personal EXCEPT ![w] = a]
  /\ role' = [role EXCEPT ![w][a] = "owner"]
  /\ UNCHANGED <<invitations, req, raced>>

-----------------------------------------------------------------------------
(* Requests: the session, or the operator's permission, is read first.     *)

PortalUser(r, a, w) ==
  /\ At(r, "idle") /\ role[w][a] # None
  /\ req' = [req EXCEPT ![r] = [Idle EXCEPT !.pc = "open", !.who = a, !.as = role[w][a], !.ws = w]]
  /\ UNCHANGED <<kind, personal, role, invitations, raced>>

PlatformAdmin(r, w) ==
  /\ At(r, "idle") /\ kind[w] # None
  /\ req' = [req EXCEPT ![r] = [Idle EXCEPT !.pc = "open", !.as = "platform_admin", !.ws = w]]
  /\ UNCHANGED <<kind, personal, role, invitations, raced>>

(* A refusal, or a transaction that is rolled back.                        *)
Refuse(r) ==
  /\ ~ At(r, "idle")
  /\ Return(r)
  /\ UNCHANGED <<kind, personal, role, invitations, raced>>

-----------------------------------------------------------------------------
(* Invitations.  The checks and the insert see different snapshots.        *)

(* Mutant: the kind of the workspace is not looked at.                     *)
CheckInvitationAnyKind(r, a, to) ==
  LET w == req[r].ws IN
  /\ At(r, "open") /\ req[r].as \in {"owner", "tenant_admin"}
  /\ to \in Invitable
  /\ role[w][a] = None
  /\ req' = [req EXCEPT ![r] = [req[r] EXCEPT !.pc = "invite", !.target = a, !.to = to]]
  /\ UNCHANGED <<kind, personal, role, invitations, raced>>

CheckInvitation(r, a, to) ==
  LET w == req[r].ws IN
  /\ At(r, "open") /\ req[r].as \in {"owner", "tenant_admin"}
  /\ to \in Invitable
  /\ kind[w] # "personal"
  /\ role[w][a] = None
  /\ req' = [req EXCEPT ![r] = [req[r] EXCEPT !.pc = "invite", !.target = a, !.to = to]]
  /\ UNCHANGED <<kind, personal, role, invitations, raced>>

CreateTenantInvitation(r, i) ==
  /\ At(r, "invite") /\ invitations[i] = NoInvitation
  /\ TenantFree(req[r].ws)
  /\ invitations' = [invitations EXCEPT ![i] = [ws |-> req[r].ws, account |-> req[r].target,
                                                role |-> req[r].to, status |-> "pending"]]
  /\ Return(r)
  /\ UNCHANGED <<kind, personal, role, raced>>

(* Mutant: an invitation that was answered can be answered again.          *)
ResolveAgain(i, status) ==
  /\ invitations[i] # NoInvitation
  /\ invitations' = [invitations EXCEPT ![i].status = status]

Resolve(i, status) ==
  /\ invitations[i].status = "pending"
  /\ invitations' = [invitations EXCEPT ![i].status = status]

(* An upsert: a member who still had an invitation gets the invited role,  *)
(* an owner too.                                                           *)
AcceptTenantInvitation(i) ==
  LET w == invitations[i].ws
      a == invitations[i].account
  IN  /\ Resolve(i, "accepted")
      /\ RowFree(w, a)
      /\ role[w][a] = None => TenantFree(w)
      /\ role' = [role EXCEPT ![w][a] = invitations[i].role]
      /\ raced' = IF role[w][a] = "owner" THEN raced \cup {w} ELSE raced
      /\ UNCHANGED <<kind, personal, req>>

RejectTenantInvitation(i) == Resolve(i, "rejected") /\ UNCHANGED <<kind, personal, role, req, raced>>
CancelTenantInvitation(i) == Resolve(i, "cancelled") /\ UNCHANGED <<kind, personal, role, req, raced>>

-----------------------------------------------------------------------------
(* Changing a role, removing a member, leaving                             *)

Lowers(q) == role[q.ws][q.target] = "owner" /\ q.to # "owner"

(* Lock the row (and, for a leave, the tenants row), check, count.         *)
Begin(r, pc, a, to) ==
  LET q == [req[r] EXCEPT !.pc = pc, !.target = a, !.to = to] IN
  /\ At(r, "open")
  /\ role[q.ws][a] # None
  /\ RowFree(q.ws, a)
  /\ Lowers(q) => Cardinality(Owners(q.ws)) > 1
  /\ req' = [req EXCEPT ![r] = q]
  /\ raced' = IF Lowers(q) /\ \E o \in InFlight : /\ req[o].ws = q.ws
                                                   /\ Lowers(req[o])
                                                   /\ ~ (pc = "leave" /\ At(o, "leave"))
                THEN raced \cup {q.ws} ELSE raced
  /\ UNCHANGED <<kind, personal, role, invitations>>

BeginSetRole(r, a, to) ==
  /\ req[r].as \in Managers
  /\ to \in Role
  /\ req[r].as = "tenant_admin" => to # "owner" /\ role[req[r].ws][a] # "owner"
  /\ Begin(r, "set", a, to)

BeginRemove(r, a) ==
  /\ req[r].as \in Managers
  /\ req[r].as = "tenant_admin" => role[req[r].ws][a] # "owner"
  /\ Begin(r, "remove", a, None)

BeginLeave(r) ==
  /\ req[r].who # None
  /\ TenantFree(req[r].ws)
  /\ kind[req[r].ws] # "personal"
  /\ Begin(r, "leave", req[r].who, None)

(* The write and the commit: a new role, or the membership revoked.        *)
Write(r) ==
  /\ role' = [role EXCEPT ![req[r].ws][req[r].target] = req[r].to]
  /\ Return(r)
  /\ UNCHANGED <<kind, personal, invitations, raced>>

SetPortalUserRole(r)          == At(r, "set") /\ Write(r)
RemovePortalUserFromTenant(r) == At(r, "remove") /\ Write(r)
LeavePortalTenant(r)          == At(r, "leave") /\ Write(r)

-----------------------------------------------------------------------------
Step(r) ==
  \/ \E i \in Invitation : CreateTenantInvitation(r, i)
  \/ \E a \in Account, to \in Role : CheckInvitation(r, a, to) \/ BeginSetRole(r, a, to)
  \/ \E a \in Account : BeginRemove(r, a)
  \/ BeginLeave(r)
  \/ SetPortalUserRole(r)
  \/ RemovePortalUserFromTenant(r)
  \/ LeavePortalTenant(r)
  \/ Refuse(r)

MembersNext ==
  \/ \E a \in Account, w \in Workspace :
       \/ CreateTenantForPortalAccount(a, w)
       \/ CreatePersonalWorkspace(a, w)
       \/ \E r \in Request : PortalUser(r, a, w)
  \/ \E r \in Request, w \in Workspace : PlatformAdmin(r, w)
  \/ \E r \in Request : Step(r)
  \/ \E i \in Invitation : \/ AcceptTenantInvitation(i)
                           \/ RejectTenantInvitation(i)
                           \/ CancelTenantInvitation(i)

MembersSpec == MembersInit /\ [][MembersNext]_memberVars
-----------------------------------------------------------------------------
(* Properties                                                              *)

RequestRecord ==
  [pc : {"idle", "open", "invite", "set", "remove", "leave"},
   who : Account \cup {None}, as : Role \cup {"platform_admin", None},
   ws : Workspace \cup {None}, target : Account \cup {None}, to : Role \cup {None}]

(* Every variable has its type: at most one active role per workspace and  *)
(* account (tenant_memberships_active_uq), at most one personal workspace  *)
(* per account (tenants_personal_owner_account_uq).                        *)
MembersTypeOK ==
  /\ kind \in [Workspace -> {None, "organization", "personal"}]
  /\ personal \in [Workspace -> Account \cup {None}]
  /\ role \in [Workspace -> [Account -> Role \cup {None}]]
  /\ invitations \in [Invitation -> {NoInvitation} \cup
       [ws : Workspace, account : Account, role : Invitable,
        status : {"pending", "accepted", "rejected", "cancelled"}]]
  /\ req \in [Request -> RequestRecord]
  /\ raced \subseteq Workspace
  /\ \A v, w \in Workspace : personal[v] = personal[w] /\ personal[v] # None => v = w

(* A personal workspace has one member, its owner, whatever is invited,    *)
(* changed, removed or left: CreateTenantInvitation refuses the workspace, *)
(* LeavePortalTenant too, and the last owner is neither demoted nor        *)
(* removed.  The PATs of its owner are accepted without a grant because of *)
(* this (AuthenticateBackendToken).                                        *)
PersonalWorkspaceOwned ==
  \A w \in Workspace : kind[w] = "personal" =>
    /\ personal[w] \in Account
    /\ \A a \in Account : role[w][a] = IF a = personal[w] THEN "owner" ELSE None

(* A workspace keeps an owner as long as no two requests that lower an     *)
(* owner overlap in it and no owner accepts an old invitation.  Two owners *)
(* who leave at once are serialised by the lock of the tenants row         *)
(* (LeavePortalTenant), one of them stays.                                 *)
OwnerKept == \A w \in Workspace \ raced : kind[w] # None => Owners(w) # {}

(* What a request made as tenant admin commits leaves the owners as they   *)
(* are, although the role it checked may be older than the commit:         *)
(* SetPortalUserRole and RemovePortalUserFromTenant hold the row lock from *)
(* the check to the write.                                                 *)
AdminsLeaveOwnersAlone ==
  [][\A r \in InFlight : req[r].as = "tenant_admin" /\ ~ At(r, "leave") /\ req'[r] = Idle
       => \A w \in Workspace : Owners(w)' = Owners(w)]_memberVars

(* An account joins an existing workspace only by an invitation that was   *)
(* pending until then, in the role it names: a rejected, cancelled or used *)
(* invitation lets nobody in again, and a role change that was checked     *)
(* before the member was removed does not bring the member back.           *)
JoinsByInvitation ==
  [][\A w \in Workspace, a \in Account :
       kind[w] # None /\ role[w][a] = None /\ role'[w][a] # None =>
         \E i \in Invitation :
           /\ invitations[i] = [ws |-> w, account |-> a, role |-> role'[w][a], status |-> "pending"]
           /\ invitations'[i].status = "accepted"]_memberVars
=============================================================================

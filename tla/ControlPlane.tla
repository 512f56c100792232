---------------------------- MODULE ControlPlane ----------------------------
(***************************************************************************)
(* Who may do what: klc's administration requests with their two checks of *)
(* a token's grants, the portal's requests on behalf of an account, the    *)
(* personal access tokens, the first initialisation, operator tokens and   *)
(* the purge of archived workspaces.  Every check is a query of its own,   *)
(* and what it read may have changed when the request takes effect.        *)
(*                                                                         *)
(* An environment is addressed by workspace and label, and labels can be   *)
(* renamed.  Archiving and transferring environments is in Transfers,      *)
(* invitations and roles are in Members; here an account joins and leaves. *)
(***************************************************************************)
EXTENDS Integers, FiniteSets

CONSTANTS
  Account, Tenant, Label, Env, TenantOf,  \* TenantOf[e]: the workspace of an environment
  Owner,             \* Owner[t]: the account a personal workspace belongs to, or None
  Token, Home,       \* API tokens, and the environment each is issued for
  Bootstrap,         \* the token the first initialisation issues
  OperatorEnv,       \* the environment operator tokens are issued for
  Start,             \* initial situations
  LabelOf,           \* the label an environment starts with
  Pat, FirstPat,     \* personal access tokens, and the one an account may start with
  Request,           \* concurrent requests
  RolePermissions,   \* rbac_role_permissions
  Grantable,         \* the grants in use
  Retention,         \* how long an archived workspace is kept
  MaxClock, MaxCommits   \* bounds

VARIABLES
  tenants,      \* tenants: lifecycle status and when it changed
  envs,         \* environments: label and whether active
  member,       \* tenant_memberships: the role of an account, or None
  tokens,       \* api_tokens: status, None before and "deleted" after
  grants,       \* rbac_principal_roles that are not revoked
  pats,         \* portal_personal_access_tokens: account and whether not revoked
  patGrants,    \* portal_environment_pat_grants that are not revoked
  session,      \* portal_sessions: the active workspace; None without a session
  initialized,  \* system_init
  req,          \* requests under way
  now,          \* the clock
  commits,      \* how many transactions have committed
  left,         \* history: when a workspace was last archived
  retired,      \* history: an administrator withdrew a token or a grant
  basis         \* history: what a request's principal was entitled to while it ran

tables == <<tenants, envs, member, tokens, grants, pats, patGrants, session, initialized>>
vars   == <<tables, req, now, commits, left, retired, basis>>

None     == "none"
Anywhere == "*"
Lifecycle == {"active", "suspended", "archived"}
NoPlace  == [tenant |-> None, label |-> None]
Scope    == [kind : {"global", "tenant", "environment"}, tenant : Tenant \cup {None}, label : Label \cup {None}]

ASSUME ControlAssumption ==
  /\ Bootstrap \in Token /\ Home[Bootstrap] = OperatorEnv
  /\ TenantOf \in [Env -> Tenant] /\ Home \in [Token -> Env] /\ LabelOf \in [Env -> Label]
  /\ Grantable \subseteq [token : Token, role : DOMAIN RolePermissions, scope : Scope]
  /\ Start \subseteq [archived : SUBSET Tenant, tokens : SUBSET Token,
                       grants : SUBSET Grantable, users : SUBSET Account]
  /\ MaxClock \in Nat /\ Retention \in Nat
  /\ {None, Anywhere} \cap (Account \cup Tenant \cup Env \cup Label \cup Token \cup Pat) = {}

(* via: how a request identifies itself; who: its token or account; op,    *)
(* place, thing: what it asks for, where, and of which token, environment, *)
(* personal access token or workspace; own: where its token belongs;       *)
(* cutoff, todo: of a purge.                                               *)
Idle == [pc |-> "idle", via |-> None, who |-> None, op |-> None, place |-> NoPlace,
         own |-> NoPlace, thing |-> None, todo |-> {}, cutoff |-> 0]

(* known: its principal was accepted; reached: what the principal's grants *)
(* or role covered at some moment; moved: a label was changed meanwhile.   *)
Blank == [known |-> FALSE, reached |-> {}, moved |-> FALSE]

(* Start: what exists when the behaviour starts: archived workspaces,      *)
(* tokens, grants, and accounts with a session, a personal access token    *)
(* and a role in every organisation.                                       *)
ControlInit ==
  /\ \E st \in Start :
       /\ tenants = [t \in Tenant |-> [status |-> IF t \in st.archived THEN "archived" ELSE "active", changed |-> 0]]
       /\ tokens = [k \in Token |-> IF k \in st.tokens THEN "active" ELSE None]
       /\ grants = st.grants
       /\ member = [t \in Tenant |-> [a \in Account |->
                      IF Owner[t] = a THEN "owner" ELSE IF a \in st.users THEN "tenant_admin" ELSE None]]
       /\ pats = [p \in Pat |-> IF \E a \in st.users : FirstPat[a] = p
                                THEN [owner |-> CHOOSE a \in st.users : FirstPat[a] = p, live |-> TRUE]
                                ELSE [owner |-> None, live |-> FALSE]]
       /\ session = [a \in Account |-> IF a \in st.users THEN TenantOf[OperatorEnv] ELSE None]
  /\ envs = [e \in Env |-> [label |-> LabelOf[e], on |-> TRUE]]
  /\ patGrants = {} /\ initialized = FALSE
  /\ req = [r \in Request |-> Idle]
  /\ now = 0 /\ commits = 0
  /\ left = [t \in Tenant |-> 0]
  /\ retired = FALSE
  /\ basis = [r \in Request |-> Blank]

-----------------------------------------------------------------------------
(* Rows and queries                                                        *)

At(r, pc)    == req[r].pc = pc
Set(r, q)    == req' = [req EXCEPT ![r] = q]
Goto(r, pc)  == Set(r, [req[r] EXCEPT !.pc = pc])
Answer(r)    == Set(r, Idle)
Commit       == commits < MaxCommits /\ commits' = commits + 1

Purged(t)    == tenants[t].status = "purged"
Place(e)     == [tenant |-> TenantOf[e], label |-> envs[e].label]
Found(place) == {e \in Env : Place(e) = place /\ ~ Purged(TenantOf[e])}
Usable(e)    == envs[e].on /\ ~ Purged(TenantOf[e])
Served(e)    == Usable(e) /\ tenants[TenantOf[e]].status = "active"
Stored(k)    == tokens[k] \in Lifecycle

(* The scope conditions of AuthorizeControlAPIToken and                    *)
(* AuthorizeControlPrincipalScope.                                         *)
\* Mutant of Covers: a grant for one environment counts for its whole workspace.
CoversWorkspace(scope, place) ==
  \/ scope.kind = "global"
  \/ scope.kind # "global" /\ place.tenant # Anywhere /\ scope.tenant = place.tenant

Covers(scope, place) ==
  \/ scope.kind = "global"
  \/ scope.kind = "tenant" /\ scope.tenant = place.tenant
  \/ scope.kind = "environment" /\ place.label # None
       /\ scope.tenant = place.tenant /\ scope.label = place.label

Granted(k, permission, place) ==
  \E g \in grants : g.token = k /\ permission \in RolePermissions[g.role] /\ Covers(g.scope, place)

(* The token row AuthorizeControlAPIToken looks for; unlike the backend's  *)
(* AuthenticateAPIToken it does not ask for an active workspace.           *)
KnownToControl(k) == tokens[k] = "active" /\ Usable(Home[k])

LivePats(a) == {p \in Pat : pats[p].live /\ pats[p].owner = a}

(* AuthenticateBackendToken: a personal access token opens an environment  *)
(* to a member who has a grant for it, or to the owner of the personal     *)
(* workspace.                                                              *)
PatOpens(p, e) ==
  LET a == pats[p].owner
  IN  /\ pats[p].live /\ Served(e)
      /\ member[TenantOf[e]][a] # None
      /\ Owner[TenantOf[e]] = a \/ <<a, e>> \in patGrants

\* Mutant of Listed: whoever has a grant is listed, member or not.
ListedByGrant(e) ==
  {a \in Account : LivePats(a) # {} /\ Served(e) /\ (Owner[TenantOf[e]] = a \/ <<a, e>> \in patGrants)}

(* ListPortalEnvironmentPATAccess: the accounts an administrator is shown. *)
Listed(e) ==
  {a \in Account :
     /\ Served(e) /\ member[TenantOf[e]][a] # None /\ LivePats(a) # {}
     /\ Owner[TenantOf[e]] = a \/ <<a, e>> \in patGrants}

-----------------------------------------------------------------------------
(* The operations of the routes, and what each asks for                    *)

(* requiredPermissionForRoute                                              *)
Permission(op) ==
  CASE op = "tenant_status" -> "tenant.lifecycle.update"
    [] op = "env_status"    -> "environment.lifecycle.update"
    [] op = "env_rename"    -> "environment.create"
    [] op = "token_create"  -> "token.create"
    [] op = "token_status"  -> "token.lifecycle.update"
    [] op = "purge"         -> "retention.purge"
    [] OTHER                -> "rbac.manage"

Everywhere == {"grant", "revoke", "operator", "purge"}
OfTenant   == {"tenant_status", "env_rename", "token_create"}
OfEnv      == {"env_status", "token_status"}

(* The target a route of handleAPI passes to requirePermission.            *)
Target(op, place) ==
  CASE op \in Everywhere -> [tenant |-> Anywhere, label |-> None]
    [] op \in OfTenant   -> [place EXCEPT !.label = None]
    [] OTHER             -> place

(* The role the portal asks for: renaming is for owners, and membership is *)
(* enough for the rest.                                                    *)
PortalRoles(op) ==
  CASE op = "env_rename" -> {"owner"}
    [] op \in {"env_status", "token_create", "token_status"} -> {"owner", "tenant_admin", "billing_admin", "member"}
    [] OTHER -> {}

PlacesOf(op) ==
  CASE op \in Everywhere      -> {NoPlace}
    [] op = "tenant_status"   -> {[NoPlace EXCEPT !.tenant = t] : t \in Tenant}
    [] op = "token_status"    -> {NoPlace}
    [] OTHER                  -> {Place(e) : e \in Env}

Looked == UNCHANGED <<tables, commits, left, retired>>

-----------------------------------------------------------------------------
(* Transactions of the store                                               *)

(* SetTenantLifecycleStatusAudit                                           *)
SetTenantLifecycle(t, status) ==
  /\ ~ Purged(t) /\ Commit
  /\ tenants' = [tenants EXCEPT ![t] = [status |-> status, changed |-> now]]
  /\ left' = IF status = "archived" /\ tenants[t].status # status THEN [left EXCEPT ![t] = now] ELSE left
  /\ UNCHANGED <<envs, member, tokens, grants, pats, patGrants, session, initialized, retired>>

(* SetEnvironmentLifecycleStatusAudit, for active and suspended            *)
SetEnvironmentLifecycle(e, on) ==
  /\ Commit
  /\ envs' = [envs EXCEPT ![e].on = on]
  /\ UNCHANGED <<tenants, member, tokens, grants, pats, patGrants, session, initialized, left, retired>>

(* RenameEnvironment; environments_tenant_slug_key keeps labels apart.     *)
(* The operator's environment keeps its label.                             *)
RenameEnvironment(e, label) ==
  /\ e # OperatorEnv /\ Found([Place(e) EXCEPT !.label = label]) = {} /\ Commit
  /\ envs' = [envs EXCEPT ![e].label = label]
  /\ UNCHANGED <<tenants, member, tokens, grants, pats, patGrants, session, initialized, left, retired>>

(* SetAPITokenLifecycleStatusAudit and DeleteAPITokenAudit                 *)
SetAPITokenLifecycle(k, status) ==
  /\ Stored(k) /\ Commit
  /\ tokens' = [tokens EXCEPT ![k] = status]
  /\ retired' = TRUE
  /\ UNCHANGED <<tenants, envs, member, grants, pats, patGrants, session, initialized, left>>

(* EnsurePrincipalRole: the subject is an id that was once handed out.     *)
EnsurePrincipalRole(g) ==
  /\ tokens[g.token] # None
  /\ grants' = grants \cup {g}
  /\ UNCHANGED <<tenants, envs, member, tokens, pats, patGrants, session, initialized, left, retired>>

RevokePrincipalRoleByID(g) ==
  /\ g \in grants /\ Commit
  /\ grants' = grants \ {g} /\ retired' = TRUE
  /\ UNCHANGED <<tenants, envs, member, tokens, pats, patGrants, session, initialized, left>>

Change(op, place, k) ==
  \/ op = "tenant_status" /\ \E s \in Lifecycle : SetTenantLifecycle(place.tenant, s)
  \/ op = "env_status"    /\ \E e \in Found(place), on \in BOOLEAN : SetEnvironmentLifecycle(e, on)
  \/ op = "env_rename"    /\ \E e \in Found(place), l \in Label : RenameEnvironment(e, l)
  \/ op = "token_status"  /\ \E s \in {"active", "suspended", "deleted"} : SetAPITokenLifecycle(k, s)
  \/ op = "grant"         /\ \E g \in Grantable : EnsurePrincipalRole(g) /\ Commit
  \/ op = "revoke"        /\ \E g \in grants : RevokePrincipalRoleByID(g)

-----------------------------------------------------------------------------
(* klc: a request with an API token                                        *)

(* Bound: one administrative request at a time is split into its queries,  *)
(* beside the transactions of Superuser and Portal; initialisations        *)
(* overlap each other, and so do transactions on personal access tokens.   *)
Free(r, via) ==
  /\ At(r, "idle")
  /\ \A s \in Request : At(s, "idle") \/ (req[s].via = via /\ via \in {"init", "pat"})

Operation == Everywhere \cup OfTenant \cup OfEnv

(* handleAPI, to its first query: the token's row, which tells where it    *)
(* belongs.                                                                *)
Arrive(r, k, op, place) ==
  /\ Free(r, "token") /\ KnownToControl(k)
  /\ Set(r, [Idle EXCEPT !.pc = "own", !.via = "token", !.who = k, !.op = op,
                         !.place = place, !.own = Place(Home[k])])
  /\ Looked

(* apiTokenLifecycleSet reads the row of the token it is about before.     *)
ArriveForToken(r, k, thing) ==
  /\ Free(r, "token") /\ tokens[k] # None /\ Stored(thing)
  /\ Set(r, [Idle EXCEPT !.pc = "identify", !.via = "token", !.who = k, !.op = "token_status",
                         !.place = Place(Home[thing]), !.thing = thing])
  /\ Looked

(* AuthorizeControlAPIToken: the token's row, then a grant for where it    *)
(* belongs; AuthorizeControlPrincipalScope: a grant for the target.        *)
Identify(r) ==
  /\ At(r, "identify") /\ KnownToControl(req[r].who)
  /\ Set(r, [req[r] EXCEPT !.pc = "own", !.own = Place(Home[req[r].who])])
  /\ Looked

CheckOwn(r) ==
  /\ At(r, "own") /\ Granted(req[r].who, Permission(req[r].op), req[r].own)
  /\ Set(r, [req[r] EXCEPT !.pc = "target", !.own = NoPlace])
  /\ Looked

CheckTarget(r) ==
  /\ At(r, "target")
  /\ Granted(req[r].who, Permission(req[r].op), Target(req[r].op, req[r].place))
  /\ Goto(r, "allowed")
  /\ Looked

Effect(r) ==
  /\ At(r, "allowed") /\ Answer(r)
  /\ Change(req[r].op, req[r].place, req[r].thing)

-----------------------------------------------------------------------------
(* The portal: a request with a session                                    *)

(* GetPortalSessionUser: the session's row, then the memberships; an       *)
(* account that left its active workspace acts in another one.             *)
ArrivePortal(r, a, op, label, thing) ==
  /\ Free(r, "session") /\ PortalRoles(op) # {} /\ session[a] # None
  /\ Set(r, [Idle EXCEPT !.pc = "role", !.via = "session", !.who = a, !.op = op,
                         !.place.label = label, !.thing = thing, !.own.tenant = session[a]])
  /\ Looked

Acting(a, active) ==
  LET mine == {t \in Tenant : member[t][a] # None}
  IN  IF active \in mine THEN {active} ELSE mine

CheckRole(r) ==
  /\ At(r, "role")
  /\ \E t \in Acting(req[r].who, req[r].own.tenant) :
       /\ member[t][req[r].who] \in PortalRoles(req[r].op)
       /\ req[r].op = "token_status" => Stored(req[r].thing) /\ TenantOf[Home[req[r].thing]] = t
       /\ Set(r, [req[r] EXCEPT !.pc = "allowed", !.own = NoPlace, !.place.tenant = t])
  /\ Looked

(* CreatePortalSession, DeletePortalSession, SetPortalSessionActiveTenant  *)
SetSession(a, t) ==
  /\ session[a] # t /\ (t # None => member[t][a] # None) /\ Commit
  /\ session' = [session EXCEPT ![a] = t]
  /\ UNCHANGED <<tenants, envs, member, tokens, grants, pats, patGrants, initialized, req, left, retired>>

(* Joining an organisation, and leaving it: the grants stay.               *)
SetMember(t, a, role) ==
  /\ Owner[t] = None /\ ~ Purged(t) /\ member[t][a] # role /\ Commit
  /\ member' = [member EXCEPT ![t][a] = role]
  /\ UNCHANGED <<tenants, envs, tokens, grants, pats, patGrants, session, initialized, req, left, retired>>

-----------------------------------------------------------------------------
(* Issuing tokens                                                          *)

(* CreateAPIToken: the workspace and the environment, then the row         *)
CheckToken(r) ==
  /\ At(r, "allowed") /\ req[r].op \in {"token_create", "operator"}
  /\ \E e \in (IF req[r].op = "operator" THEN {OperatorEnv} ELSE Found(req[r].place)) :
       Served(e) /\ Set(r, [req[r] EXCEPT !.pc = "insert", !.thing = e])
  /\ Looked

InsertToken(r) ==
  /\ At(r, "insert")
  /\ \E k \in Token \ {Bootstrap} :
       /\ tokens[k] = None /\ Home[k] = req[r].thing /\ ~ Purged(TenantOf[Home[k]]) /\ Commit
       /\ tokens' = [tokens EXCEPT ![k] = "active"]
       /\ IF req[r].op = "operator" THEN Set(r, [req[r] EXCEPT !.pc = "endow", !.thing = k]) ELSE Answer(r)
  /\ UNCHANGED <<tenants, envs, member, grants, pats, patGrants, session, initialized, left, retired>>

(* CreateControlOperatorToken: a token without its role is deleted again.  *)
Endow(r) ==
  /\ At(r, "endow") /\ Answer(r)
  /\ \E g \in Grantable : g.token = req[r].thing /\ EnsurePrincipalRole(g) /\ Commit

EndowFails(r) == At(r, "endow") /\ Goto(r, "undo") /\ Looked

Undo(r) == At(r, "undo") /\ Answer(r) /\ SetAPITokenLifecycle(req[r].thing, "deleted")

-----------------------------------------------------------------------------
(* handleBootstrapInit                                                     *)

ArriveInit(r) ==
  /\ Free(r, "init") /\ ~ initialized
  /\ Set(r, [Idle EXCEPT !.pc = "bootstrap", !.via = "init"])
  /\ Looked

(* BootstrapTenantToken: a row that was deleted is inserted anew, with an  *)
(* id no grant names; one that exists keeps its lifecycle status.          *)
BootstrapTenantToken(r) ==
  /\ At(r, "bootstrap") /\ ~ Purged(TenantOf[OperatorEnv]) /\ UNCHANGED commits
  /\ IF Stored(Bootstrap) THEN UNCHANGED <<tokens, grants>>
     ELSE /\ tokens' = [tokens EXCEPT ![Bootstrap] = "active"]
          /\ grants' = {g \in grants : g.token # Bootstrap}
  /\ Goto(r, "admin")
  /\ UNCHANGED <<tenants, envs, member, pats, patGrants, session, initialized, left, retired>>

AdminGrant == [token |-> Bootstrap, role |-> "platform_admin",
               scope |-> [kind |-> "global", tenant |-> None, label |-> None]]

ASSUME AdminAssumption == AdminGrant \in Grantable

(* EnsureAPITokenRoleByName                                                *)
EnsureAdmin(r) ==
  /\ At(r, "admin") /\ Stored(Bootstrap) /\ Goto(r, "mark")
  /\ EnsurePrincipalRole(AdminGrant) /\ UNCHANGED commits

\* Mutant of MarkSystemInitialized: it comes before the administrator's role.
MarkSystemInitializedFirst(r) ==
  /\ req[r].pc \in {"admin", "mark"} /\ Commit
  /\ initialized' = TRUE
  /\ (IF At(r, "admin") THEN Goto(r, "admin") ELSE Answer(r))
  /\ UNCHANGED <<tenants, envs, member, tokens, grants, pats, patGrants, session, left, retired>>

MarkSystemInitialized(r) ==
  /\ At(r, "mark") /\ Answer(r) /\ Commit
  /\ initialized' = TRUE
  /\ UNCHANGED <<tenants, envs, member, tokens, grants, pats, patGrants, session, left, retired>>

-----------------------------------------------------------------------------
(* apiRetentionPurge                                                       *)

Expired(t, cutoff) == tenants[t].status = "archived" /\ tenants[t].changed <= cutoff

ListCandidates(r) ==
  /\ At(r, "allowed") /\ req[r].op = "purge"
  /\ Set(r, [req[r] EXCEPT !.pc = "purge", !.cutoff = now - Retention,
                           !.todo = {t \in Tenant : Expired(t, now - Retention)}])
  /\ Looked

\* Mutant of StillExpired: a workspace found when listing is purged unseen.
StillExpiredListed(t, cutoff) == TRUE

(* PurgeArchivedTenant asks again, under the lock of the row.              *)
StillExpired(t, cutoff) == Expired(t, cutoff)

Purge(r, t) ==
  /\ At(r, "purge") /\ t \in req[r].todo /\ ~ Purged(t) /\ StillExpired(t, req[r].cutoff) /\ Commit
  /\ tenants' = [tenants EXCEPT ![t].status = "purged"]
  /\ tokens' = [k \in Token |-> IF TenantOf[Home[k]] = t /\ Stored(k) THEN "deleted" ELSE tokens[k]]
  /\ patGrants' = {g \in patGrants : TenantOf[g[2]] # t}
  /\ retired' = (retired \/ TenantOf[OperatorEnv] = t)
  /\ Set(r, [req[r] EXCEPT !.todo = @ \ {t}])
  /\ UNCHANGED <<envs, member, grants, pats, session, initialized, left>>

-----------------------------------------------------------------------------
(* Personal access tokens                                                  *)

(* SetPortalEnvironmentPATGrant                                            *)
SetPatGrant(a, e, allowed) ==
  /\ Usable(e) /\ member[TenantOf[e]][a] # None /\ Commit
  /\ patGrants' = IF allowed THEN patGrants \cup {<<a, e>>} ELSE patGrants \ {<<a, e>>}
  /\ UNCHANGED <<tenants, envs, member, tokens, grants, pats, session, initialized, req, left, retired>>

Locked(p) == p # None /\ \E r \in Request : At(r, "locked") /\ req[r].thing = p

(* SELECT ... FOR UPDATE, or UPDATE, of the row that is not revoked.       *)
SelectPat(r, a, op) ==
  /\ Free(r, "pat")
  /\ \E p \in IF LivePats(a) = {} THEN {None} ELSE LivePats(a) :
       Set(r, [Idle EXCEPT !.pc = IF Locked(p) THEN "wait" ELSE "locked", !.via = "pat",
                           !.who = a, !.op = op, !.thing = p])
  /\ Looked

(* Once the lock is free the row is read again; if it was revoked in       *)
(* between the statement has found nothing, a newer row included.          *)
Resume(r) ==
  /\ At(r, "wait") /\ ~ Locked(req[r].thing)
  /\ Set(r, [req[r] EXCEPT !.pc = "locked", !.thing = IF pats[@].live THEN @ ELSE None])
  /\ Looked

(* The unique index portal_personal_access_tokens_active_uq.               *)
SoleLive(a, old) == LivePats(a) \subseteq {old}

RotatePat(r) ==
  /\ At(r, "locked") /\ req[r].op = "rotate" /\ SoleLive(req[r].who, req[r].thing) /\ Commit
  /\ \E p \in Pat : pats[p].owner = None
  /\ LET p == CHOOSE q \in Pat : pats[q].owner = None
     IN  pats' = [q \in Pat |-> IF q = p THEN [owner |-> req[r].who, live |-> TRUE]
                                  ELSE IF q = req[r].thing THEN [pats[q] EXCEPT !.live = FALSE] ELSE pats[q]]
  /\ Answer(r)
  /\ UNCHANGED <<tenants, envs, member, tokens, grants, patGrants, session, initialized, left, retired>>

RevokePat(r) ==
  /\ At(r, "locked") /\ req[r].op = "revoke_pat" /\ req[r].thing # None /\ Commit
  /\ pats' = [pats EXCEPT ![req[r].thing].live = FALSE]
  /\ patGrants' = {g \in patGrants : g[1] # req[r].who}
  /\ Answer(r)
  /\ UNCHANGED <<tenants, envs, member, tokens, grants, session, initialized, left, retired>>

-----------------------------------------------------------------------------
(* A request is refused, fails or is cut off by a crash; its transaction,  *)
(* if it has one, is rolled back.                                          *)
Fail(r) == ~ At(r, "idle") /\ Answer(r) /\ Looked

Arrivals(r) ==
  \/ \E op \in Operation \ {"token_status"}, k \in Token : \E place \in PlacesOf(op) : Arrive(r, k, op, place)
  \/ \E k, thing \in Token : ArriveForToken(r, k, thing)
  \/ \E op \in Operation \ {"token_status"}, a \in Account, e \in Env : ArrivePortal(r, a, op, envs[e].label, None)
  \/ \E a \in Account, k \in Token : ArrivePortal(r, a, "token_status", None, k)
  \/ ArriveInit(r)
  \/ \E a \in Account, op \in {"rotate", "revoke_pat"} : SelectPat(r, a, op)

Steps(r) ==
  \/ Identify(r) \/ CheckOwn(r) \/ CheckTarget(r) \/ Effect(r) \/ CheckRole(r)
  \/ CheckToken(r) \/ InsertToken(r) \/ Endow(r) \/ EndowFails(r) \/ Undo(r)
  \/ BootstrapTenantToken(r) \/ EnsureAdmin(r) \/ MarkSystemInitialized(r)
  \/ ListCandidates(r) \/ \E t \in Tenant : Purge(r, t)
  \/ Resume(r) \/ RotatePat(r) \/ RevokePat(r)

(* The static token passes every check: its requests are one transaction.  *)
Superuser ==
  /\ commits < MaxCommits /\ UNCHANGED req
  /\ \E op \in Operation : \E place \in PlacesOf(op), k \in IF op = "token_status" THEN Token ELSE {None} :
       Change(op, place, k)

Portal ==
  commits < MaxCommits /\ \E a \in Account :
    \/ \E t \in Tenant \cup {None} : SetSession(a, t)
    \/ \E t \in Tenant, role \in {"tenant_admin", None} : SetMember(t, a, role)
    \/ \E e \in Env, allowed \in BOOLEAN : SetPatGrant(a, e, allowed)

Tick == now < MaxClock /\ now' = now + 1 /\ UNCHANGED <<tables, req, commits, left, retired>>

(* What the principal of a request may touch in this state.                *)
Known(r) ==
  \/ req[r].via = "token" /\ KnownToControl(req[r].who)
  \/ req[r].via = "session" /\ session[req[r].who] # None

EnvsOf(t) == {e \in Env : TenantOf[e] = t}
Names(scope) ==
  CASE scope.kind = "global" -> Tenant \cup Env \cup {Anywhere}
    [] scope.kind = "tenant" -> {scope.tenant} \cup EnvsOf(scope.tenant)
    [] OTHER -> {e \in Env : TenantOf[e] = scope.tenant /\ envs[e].label = scope.label}

Reach(r) ==
  CASE req[r].via = "token" ->
         UNION {Names(g.scope) : g \in {h \in grants : h.token = req[r].who /\ Permission(req[r].op) \in RolePermissions[h.role]}}
    [] req[r].via = "session" ->
         UNION {EnvsOf(t) : t \in {u \in Tenant : member[u][req[r].who] \in PortalRoles(req[r].op)}}
    [] OTHER -> {}

Witness ==
  LET moved == \E e \in Env : envs'[e].label # envs[e].label
  IN  basis' = [r \in Request |->
        IF At(r, "idle")' THEN Blank
        ELSE [known   |-> basis[r].known \/ Known(r)',
              reached |-> basis[r].reached \cup Reach(r)',
              moved   |-> basis[r].moved \/ moved]]

(* A transaction that leaves every row as it was shows as a Fail.          *)
ControlNext ==
  /\ \/ (\E r \in Request : (At(r, "idle") /\ Arrivals(r)) \/ Steps(r) \/ Fail(r)) /\ UNCHANGED now
     \/ (Superuser \/ Portal) /\ UNCHANGED now
     \/ Tick
  /\ commits' # commits => tables' # tables
  /\ Witness

ControlSpec == ControlInit /\ [][ControlNext]_vars

-----------------------------------------------------------------------------
(* Properties                                                              *)

ControlTypeOK ==
  /\ tenants \in [Tenant -> [status : Lifecycle \cup {"purged"}, changed : 0 .. MaxClock]]
  /\ envs \in [Env -> [label : Label, on : BOOLEAN]]
  /\ tokens \in [Token -> Lifecycle \cup {None, "deleted"}]
  /\ grants \subseteq Grantable
  /\ pats \in [Pat -> [owner : Account \cup {None}, live : BOOLEAN]]
  /\ patGrants \subseteq Account \X Env
  /\ session \in [Account -> Tenant \cup {None}]

(* OnePAT: an account has at most one personal access token that works,    *)
(* however its rotations and revocations overlap                           *)
(* (RotatePortalPersonalAccessToken ignores the error of its SELECT FOR    *)
(* UPDATE and relies on the unique index).                                 *)
OnePAT == \A a \in Account : Cardinality(LivePats(a)) <= 1

(* AccessListTrue: the accounts an administrator is shown for an           *)
(* environment are those whose personal access token opens it, whatever    *)
(* was granted, left, suspended, revoked or purged before; and the tables  *)
(* are well typed.                                                         *)
AccessListTrue ==
  /\ ControlTypeOK
  /\ \A e \in Env : Listed(e) = {pats[p].owner : p \in {q \in Pat : PatOpens(q, e)}}

Touched ==
  {t \in Tenant : tenants'[t] # tenants[t]} \cup {e \in Env : envs'[e] # envs[e]}
    \cup {Home[k] : k \in {l \in Token : tokens'[l] # tokens[l]}}
    \cup (IF grants' # grants THEN {Anywhere} ELSE {})

(* EffectsCovered: a request of a token or of a portal session changes     *)
(* only what its principal's grants or role covered at some moment while   *)
(* it ran, and the principal was accepted at some moment, although the     *)
(* checks are separate queries older than the effect; unless a label was   *)
(* changed meanwhile.                                                      *)
EffectsCovered ==
  [][\A r \in Request :
       (req[r].via \in {"token", "session"} /\ req'[r] # req[r] /\ commits' # commits)
          => basis[r].known /\ (basis[r].moved \/ Touched \subseteq basis[r].reached)]_vars

(* InitialisedHasAdmin: once the system counts as initialised, and refuses *)
(* another initialisation, there is a token with the administrator's role, *)
(* wherever an earlier attempt crashed and however two attempts overlap,   *)
(* unless an administrator withdrew it.                                    *)
InitialisedHasAdmin == initialized => retired \/ (Stored(Bootstrap) /\ AdminGrant \in grants)

(* PurgeRespectsRetention: a workspace is purged only when it is archived  *)
(* and has been for the whole retention period, although the candidates    *)
(* were listed before and may have been restored since.                    *)
PurgeRespectsRetention ==
  [][\A t \in Tenant : (Purged(t)' /\ ~ Purged(t)) =>
        tenants[t].status = "archived" /\ left[t] + Retention <= now]_vars
=============================================================================

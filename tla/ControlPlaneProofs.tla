------------------------- MODULE ControlPlaneProofs -------------------------
(***************************************************************************)
(* Proofs about ControlPlane, for any accounts, workspaces, environments,  *)
(* tokens, roles, grants and requests.                                     *)
(*                                                                         *)
(* The inductive invariant follows a request through its queries.  What it *)
(* carries along fits the point it has reached (Shape); a transaction on a *)
(* personal access token holds one of its own account's (HoldsPat); the    *)
(* cutoff of a purge lies a whole retention period back (PurgesPast); and  *)
(* what its principal's grants or role covered, at some moment since it    *)
(* arrived, contains what the effect still to come can touch (Admitted).   *)
(***************************************************************************)
EXTENDS ControlPlane, FiniteSetTheorems, TLAPS

Pc == {"idle", "identify", "own", "target", "role", "allowed", "insert", "endow", "undo",
       "bootstrap", "admin", "mark", "purge", "wait", "locked"}
PlaceRecord   == [tenant : Tenant \cup {None}, label : Label \cup {None}]
RequestRecord ==
  [pc : Pc, via : {None, "token", "session", "init", "pat"}, who : Account \cup Token \cup {None},
   op : Operation \cup {"rotate", "revoke_pat", None}, place : PlaceRecord, own : PlaceRecord,
   thing : Token \cup Env \cup Pat \cup {None}, todo : SUBSET Tenant, cutoff : Int]

Checked  == {"allowed", "insert", "endow", "undo", "purge"}
Shape(q) ==
  /\ q.via = None <=> q.pc = "idle"
  /\ q.via = "init" <=> q.pc \in {"bootstrap", "admin", "mark"}
  /\ q.via = "pat" <=> q.pc \in {"wait", "locked"}
  /\ q.via = "pat" => q.op \in {"rotate", "revoke_pat"}
  /\ q.pc \in {"identify", "own", "target"} => q.via = "token"
  /\ q.pc = "role" => q.via = "session"
  /\ q.via = "token" => q.who \in Token /\ q.op \in Operation
  /\ q.via \in {"session", "pat"} => q.who \in Account
  /\ q.via = "session" => q.op \in Operation /\ PortalRoles(q.op) # {}
  /\ q.op = "token_status" => q.thing \in Token
  /\ q.op = "tenant_status" => q.place.tenant \in Tenant
  /\ q.pc = "insert" => q.op \in {"operator", "token_create"} /\ q.thing \in Env
  /\ q.pc \in {"endow", "undo"} => q.op = "operator" /\ q.thing \in Token
  /\ q.pc = "purge" => q.op = "purge"

HoldsPat(r)   == At(r, "wait") \/ At(r, "locked") =>
                   req[r].thing \in {None} \cup {p \in Pat : pats[p].owner = req[r].who}
PurgesPast(r) == At(r, "purge") => req[r].cutoff + Retention <= now

(* What a request that passed its checks may still touch is covered.       *)
Entitled(r, op, place, thing) ==
  /\ op \in Everywhere => Tenant \cup Env \cup {Anywhere} \subseteq basis[r].reached
  /\ op = "tenant_status" => place.tenant \in basis[r].reached
  /\ op \in {"env_rename", "token_create"} => EnvsOf(place.tenant) \subseteq basis[r].reached
  /\ op = "env_status" => basis[r].moved \/ {e \in Env : Place(e) = place} \subseteq basis[r].reached
  /\ op = "token_status" => basis[r].moved \/ Home[thing] \in basis[r].reached

Addressed(r, op, place, thing) == op = "token_status" => basis[r].moved \/ place = Place(Home[thing])

Admitted(r) ==
  /\ At(r, "idle") => basis[r] = Blank
  /\ basis[r].known \in BOOLEAN /\ basis[r].moved \in BOOLEAN
  /\ req[r].via \in {"token", "session"} /\ ~ At(r, "identify") => basis[r].known
  /\ req[r].via = "token" => Addressed(r, req[r].op, req[r].place, req[r].thing)
  /\ req[r].pc \in Checked => Entitled(r, req[r].op, req[r].place, req[r].thing)
  /\ At(r, "insert") => req[r].thing \in basis[r].reached

RequestInv(r) ==
  /\ req[r] \in RequestRecord /\ Shape(req[r])
  /\ HoldsPat(r) /\ PurgesPast(r) /\ Admitted(r)

(* The tables and the clock.                                               *)
TablesInv ==
  /\ ControlTypeOK
  /\ now \in 0 .. MaxClock /\ commits \in Nat /\ left \in [Tenant -> Int]
  /\ retired \in BOOLEAN /\ initialized \in BOOLEAN

(* An account's live tokens are one; a live token has an account.          *)
PatsInv ==
  /\ \A p \in Pat : pats[p].live => pats[p].owner \in Account
  /\ \A p, q \in Pat : pats[p].live /\ pats[q].live /\ pats[p].owner = pats[q].owner => p = q

(* The clock of a workspace's status is not behind its archiving.          *)
ClockInv ==
  \A t \in Tenant : /\ tenants[t].changed <= now
                    /\ tenants[t].status = "archived" => left[t] <= tenants[t].changed

(* The administrator stands from before the system counts as initialised.  *)
AdminInv ==
  initialized \/ (\E r \in Request : At(r, "mark"))
    => retired \/ (Stored(Bootstrap) /\ AdminGrant \in grants)

ControlInv ==
  /\ TablesInv /\ PatsInv /\ ClockInv /\ AdminInv
  /\ req \in [Request -> RequestRecord] /\ \A r \in Request : RequestInv(r)

-----------------------------------------------------------------------------
(* Lemmas about the model's operators                                      *)

(* A set whose members are all the same has at most one.                   *)
LEMMA AtMostOne ==
  ASSUME NEW S, \A x, y \in S : x = y
  PROVE  Cardinality(S) <= 1
<1>1. CASE S = {}
  BY <1>1, FS_EmptySet
<1>2. CASE S # {}
  <2>1. PICK x \in S : TRUE
    BY <1>2
  <2>2. S = {x}
    BY <2>1
  <2> QED
    BY <2>2, FS_Singleton
<1> QED
  BY <1>1, <1>2

(* How the witness of a request follows a step.                            *)
LEMMA BasisStep ==
  ASSUME Witness, NEW s \in Request
  PROVE  /\ req'[s].pc = "idle" => basis'[s] = Blank
         /\ req'[s].pc # "idle" =>
              /\ basis'[s].known = (basis[s].known \/ Known(s)')
              /\ basis'[s].moved = (basis[s].moved \/ \E e \in Env : envs'[e].label # envs[e].label)
              /\ basis'[s].reached = basis[s].reached \cup Reach(s)'
BY DEF Witness, At

(* What a request is entitled to it stays entitled to.                     *)
LEMMA EntitlementKept ==
  ASSUME Witness, NEW s \in Request, req'[s].pc # "idle", basis[s].moved \in BOOLEAN
  PROVE  /\ \A op, place, thing : Entitled(s, op, place, thing) => Entitled(s, op, place, thing)'
         /\ \A op, place : \A thing \in Token : Addressed(s, op, place, thing) => Addressed(s, op, place, thing)'
<1>1. basis[s].reached \subseteq basis'[s].reached
  BY BasisStep
<1>2. basis[s].moved => basis'[s].moved
  BY BasisStep
<1>3. ~ basis'[s].moved => \A e \in Env : Place(e)' = Place(e)
  BY BasisStep DEF Place
<1>4. ASSUME NEW op, NEW place, NEW thing, Entitled(s, op, place, thing)
      PROVE  Entitled(s, op, place, thing)'
  BY <1>1, <1>2, <1>3, <1>4 DEF Entitled, EnvsOf
<1>5. ASSUME NEW op, NEW place, NEW thing \in Token, Addressed(s, op, place, thing)
      PROVE  Addressed(s, op, place, thing)'
  <2>1. CASE op = "token_status" /\ ~ basis'[s].moved
    <3>1. place = Place(Home[thing])
      BY <1>2, <1>5, <2>1 DEF Addressed
    <3>2. Home[thing] \in Env
      BY ControlAssumption
    <3> QED
      BY <1>3, <2>1, <3>1, <3>2 DEF Addressed
  <2>2. CASE op # "token_status" \/ basis'[s].moved
    BY <2>2 DEF Addressed
  <2> QED
    BY <2>1, <2>2
<1> QED
  BY <1>4, <1>5

(* The grants of a token that cover a target name what the operation can   *)
(* touch there.                                                            *)
ReachOf(who, op) ==
  UNION {Names(g.scope) : g \in {h \in grants : h.token = who /\ Permission(op) \in RolePermissions[h.role]}}

LEMMA GrantNames ==
  ASSUME grants \subseteq Grantable,
         NEW who, NEW op \in Operation, NEW place \in PlaceRecord,
         op = "tenant_status" => place.tenant \in Tenant,
         Granted(who, Permission(op), Target(op, place))
  PROVE  /\ op \in Everywhere => Tenant \cup Env \cup {Anywhere} \subseteq ReachOf(who, op)
         /\ op = "tenant_status" => place.tenant \in ReachOf(who, op)
         /\ op \in {"env_rename", "token_create"} => EnvsOf(place.tenant) \subseteq ReachOf(who, op)
         /\ op \in OfEnv => {e \in Env : Place(e) = place} \subseteq ReachOf(who, op)
<1>1. PICK g \in grants : /\ g.token = who /\ Permission(op) \in RolePermissions[g.role]
                          /\ Covers(g.scope, Target(op, place))
  BY DEF Granted
<1>2. Names(g.scope) \subseteq ReachOf(who, op)
  BY <1>1 DEF ReachOf
<1>3. g.scope \in Scope
  BY ControlAssumption
<1>4. CASE op \in Everywhere
  <2>1. Target(op, place) = [tenant |-> Anywhere, label |-> None]
    BY <1>4 DEF Target, Everywhere, OfTenant
  <2>2. g.scope.kind = "global"
    BY <1>1, <1>3, <2>1, ControlAssumption DEF Covers, Scope, Anywhere, None
  <2> QED
    BY <1>2, <1>4, <2>2 DEF Names, Everywhere, OfEnv
<1>5. CASE op \in OfTenant
  <2>1. Target(op, place) = [place EXCEPT !.label = None]
    BY <1>5 DEF Target, Everywhere, OfTenant
  <2>2. g.scope.kind = "global" \/ (g.scope.kind = "tenant" /\ g.scope.tenant = place.tenant)
    BY <1>1, <2>1 DEF Covers, PlaceRecord
  <2> QED
    BY <1>2, <1>5, <2>2 DEF Names, EnvsOf, Everywhere, OfEnv, OfTenant
<1>6. CASE op \in OfEnv
  <2>1. Target(op, place) = place
    BY <1>6 DEF Target, Everywhere, OfTenant, OfEnv
  <2>2. \/ g.scope.kind = "global"
        \/ g.scope.kind = "tenant" /\ g.scope.tenant = place.tenant
        \/ g.scope.kind = "environment" /\ g.scope.tenant = place.tenant /\ g.scope.label = place.label
    BY <1>1, <2>1 DEF Covers
  <2>3. {e \in Env : Place(e) = place} \subseteq Names(g.scope)
    BY <2>2 DEF Names, EnvsOf, Place
  <2> QED
    BY <1>2, <1>6, <2>3 DEF Everywhere, OfEnv
<1> QED
  BY <1>4, <1>5, <1>6 DEF Operation

-----------------------------------------------------------------------------
(* The kinds of steps                                                      *)

(* The transactions that requests and the static token share.              *)
Edit ==
  \/ \E t \in Tenant, status \in Lifecycle : SetTenantLifecycle(t, status)
  \/ \E e \in Env, on \in BOOLEAN : SetEnvironmentLifecycle(e, on)
  \/ \E e \in Env, l \in Label : RenameEnvironment(e, l)
  \/ \E k \in Token, status \in {"active", "suspended", "deleted"} : SetAPITokenLifecycle(k, status)
  \/ \E g \in Grantable : EnsurePrincipalRole(g) /\ (Commit \/ UNCHANGED commits)
  \/ \E g \in grants : RevokePrincipalRoleByID(g)

OwnTransaction(r) ==
  \/ InsertToken(r) \/ BootstrapTenantToken(r) \/ MarkSystemInitialized(r)
  \/ (\E t \in Tenant : Purge(r, t)) \/ RotatePat(r) \/ RevokePat(r)

PortalTransaction ==
  \E a \in Account :
    \/ \E t \in Tenant \cup {None} : SetSession(a, t)
    \/ \E t \in Tenant, role \in {"tenant_admin", None} : SetMember(t, a, role)
    \/ \E e \in Env, allowed \in BOOLEAN : SetPatGrant(a, e, allowed)

LEMMA ChangeIsEdit ==
  ASSUME NEW op, NEW place, NEW k, Change(op, place, k),
         op = "tenant_status" => place.tenant \in Tenant,
         op = "token_status" => k \in Token
  PROVE  Edit
BY DEF Change, Edit, Found

(* Every step leaves the tables alone or is one of these transactions.     *)
LEMMA StepKinds ==
  ASSUME \A r \in Request : Shape(req[r]), ControlNext
  PROVE  \/ Looked
         \/ Edit
         \/ \E r \in Request : OwnTransaction(r)
         \/ PortalTransaction
<1>1. CASE Superuser
  <2>1. PICK op \in Operation : \E place \in PlacesOf(op), k \in IF op = "token_status" THEN Token ELSE {None} :
                                  Change(op, place, k)
    BY <1>1 DEF Superuser
  <2>2. PICK place \in PlacesOf(op), k \in IF op = "token_status" THEN Token ELSE {None} : Change(op, place, k)
    BY <2>1
  <2>3. op = "tenant_status" => place.tenant \in Tenant
    BY <2>2 DEF PlacesOf, Everywhere, NoPlace
  <2>4. op = "token_status" => k \in Token
    BY <2>2
  <2> QED
    BY <2>2, <2>3, <2>4, ChangeIsEdit
<1>2. CASE Portal
  BY <1>2 DEF Portal, PortalTransaction
<1>3. CASE Tick
  BY <1>3 DEF Tick, Looked
<1>4. ASSUME NEW r \in Request, Arrivals(r) \/ Steps(r) \/ Fail(r)
      PROVE  \/ Looked \/ Edit \/ OwnTransaction(r)
  <2>1. CASE Arrivals(r)
    BY <2>1 DEF Arrivals, Arrive, ArriveForToken, ArrivePortal, ArriveInit, SelectPat
  <2>2. CASE Fail(r)
    BY <2>2 DEF Fail
  <2>3. CASE Effect(r)
    BY <2>3, ChangeIsEdit DEF Effect, Shape, At
  <2>4. CASE Endow(r)
    BY <2>4 DEF Endow, Edit
  <2>5. CASE Undo(r)
    BY <2>5 DEF Undo, Edit, Shape, At
  <2>6. CASE EnsureAdmin(r)
    BY <2>6, AdminAssumption DEF EnsureAdmin, Edit
  <2>7. CASE OwnTransaction(r)
    BY <2>7
  <2>8. CASE \/ Identify(r) \/ CheckOwn(r) \/ CheckTarget(r) \/ CheckRole(r) \/ CheckToken(r)
             \/ EndowFails(r) \/ ListCandidates(r) \/ Resume(r)
    BY <2>8 DEF Identify, CheckOwn, CheckTarget, CheckRole, CheckToken, EndowFails, ListCandidates, Resume
  <2> QED
    BY <1>4, <2>1, <2>2, <2>3, <2>4, <2>5, <2>6, <2>7, <2>8 DEF Steps, OwnTransaction
<1> QED
  BY <1>1, <1>2, <1>3, <1>4 DEF ControlNext

LEMMA ClockStep ==
  ASSUME now \in 0 .. MaxClock, ControlNext
  PROVE  /\ now' \in 0 .. MaxClock /\ now <= now'
         /\ now' # now => UNCHANGED <<tables, left, retired>>
BY ControlAssumption DEF ControlNext, Tick

(* A request's step leaves the other requests where they are.              *)
LEMMA OneMoves ==
  ASSUME NEW r \in Request, Arrivals(r) \/ Steps(r) \/ Fail(r)
  PROVE  \E q : req' = [req EXCEPT ![r] = q]
<1>1. CASE Arrivals(r)
  BY <1>1 DEF Arrivals, Arrive, ArriveForToken, ArrivePortal, ArriveInit, SelectPat, Set
<1>2. CASE Fail(r)
  BY <1>2 DEF Fail, Answer, Set
<1>3. CASE \/ Identify(r) \/ CheckOwn(r) \/ CheckTarget(r) \/ CheckRole(r) \/ CheckToken(r)
           \/ EndowFails(r) \/ ListCandidates(r) \/ Resume(r)
  BY <1>3 DEF Identify, CheckOwn, CheckTarget, CheckRole, CheckToken, EndowFails, ListCandidates,
              Resume, Set, Goto
<1>4. CASE Effect(r) \/ Endow(r) \/ Undo(r) \/ EnsureAdmin(r)
  BY <1>4 DEF Effect, Endow, Undo, EnsureAdmin, Answer, Goto, Set
<1>5. CASE InsertToken(r) \/ BootstrapTenantToken(r) \/ MarkSystemInitialized(r)
  BY <1>5 DEF InsertToken, BootstrapTenantToken, MarkSystemInitialized, Answer, Goto, Set
<1>6. CASE (\E t \in Tenant : Purge(r, t)) \/ RotatePat(r) \/ RevokePat(r)
  BY <1>6 DEF Purge, RotatePat, RevokePat, Answer, Set
<1> QED
  BY <1>1, <1>2, <1>3, <1>4, <1>5, <1>6 DEF Steps

(* The step of a request that is not where it was is its own.              *)
LEMMA OwnStep ==
  ASSUME ControlNext, req \in [Request -> RequestRecord], NEW s \in Request, req'[s] # req[s]
  PROVE  /\ (At(s, "idle") /\ Arrivals(s)) \/ Steps(s) \/ Fail(s)
         /\ UNCHANGED now
         /\ \A r \in Request \ {s} : req'[r] = req[r]
<1>1. ASSUME NEW r \in Request, Arrivals(r) \/ Steps(r) \/ Fail(r)
      PROVE  \A t \in Request \ {r} : req'[t] = req[t]
  BY <1>1, OneMoves
<1>2. ~ (Superuser \/ Portal \/ Tick)
  BY DEF Superuser, Portal, Tick, SetSession, SetMember, SetPatGrant
<1>3. PICK r \in Request : (At(r, "idle") /\ Arrivals(r)) \/ Steps(r) \/ Fail(r)
  BY <1>2 DEF ControlNext
<1>4. r = s
  BY <1>1, <1>3
<1>5. UNCHANGED now
  BY <1>2 DEF ControlNext
<1> QED
  BY <1>1, <1>3, <1>4, <1>5

LEMMA RequestsStay ==
  ASSUME ControlNext, req \in [Request -> RequestRecord]
  PROVE  req' = [r \in Request |-> req'[r]]
<1>1. CASE Superuser \/ Portal \/ Tick
  BY <1>1 DEF Superuser, Portal, Tick, SetSession, SetMember, SetPatGrant
<1> QED
  BY <1>1, OneMoves DEF ControlNext

-----------------------------------------------------------------------------
(* The tables                                                              *)

LEMMA TablesStep ==
  ASSUME TablesInv, \A r \in Request : RequestInv(r), ControlNext
  PROVE  TablesInv'
<1> USE DEF TablesInv, ControlTypeOK
<1>1. \A r \in Request : Shape(req[r]) /\ req[r] \in RequestRecord
  BY DEF RequestInv
<1>2. now' \in 0 .. MaxClock
  BY ClockStep
<1>3. CASE Looked
  BY <1>2, <1>3 DEF Looked, tables
<1>4. CASE Edit
  <2>1. ASSUME NEW t \in Tenant, NEW status \in Lifecycle, SetTenantLifecycle(t, status)
        PROVE  TablesInv'
    BY <1>2, <2>1 DEF SetTenantLifecycle, Commit
  <2>2. ASSUME NEW e \in Env, NEW on \in BOOLEAN, SetEnvironmentLifecycle(e, on)
        PROVE  TablesInv'
    BY <1>2, <2>2 DEF SetEnvironmentLifecycle, Commit
  <2>3. ASSUME NEW e \in Env, NEW l \in Label, RenameEnvironment(e, l)
        PROVE  TablesInv'
    BY <1>2, <2>3 DEF RenameEnvironment, Commit
  <2>4. ASSUME NEW k \in Token, NEW status \in {"active", "suspended", "deleted"},
               SetAPITokenLifecycle(k, status)
        PROVE  TablesInv'
    BY <1>2, <2>4 DEF SetAPITokenLifecycle, Commit, Lifecycle
  <2>5. ASSUME NEW g \in Grantable, EnsurePrincipalRole(g), Commit \/ UNCHANGED commits
        PROVE  TablesInv'
    BY <1>2, <2>5 DEF EnsurePrincipalRole, Commit
  <2>6. ASSUME NEW g \in grants, RevokePrincipalRoleByID(g)
        PROVE  TablesInv'
    BY <1>2, <2>6 DEF RevokePrincipalRoleByID, Commit
  <2> QED
    BY <1>4, <2>1, <2>2, <2>3, <2>4, <2>5, <2>6 DEF Edit
<1>5. ASSUME NEW r \in Request, OwnTransaction(r)
      PROVE  TablesInv'
  <2>1. CASE InsertToken(r)
    BY <1>2, <2>1 DEF InsertToken, Commit, Lifecycle
  <2>2. CASE BootstrapTenantToken(r)
    BY <1>2, <2>2 DEF BootstrapTenantToken, Lifecycle
  <2>3. CASE MarkSystemInitialized(r)
    BY <1>2, <2>3 DEF MarkSystemInitialized, Commit
  <2>4. ASSUME NEW t \in Tenant, Purge(r, t)
        PROVE  TablesInv'
    <3>1. tenants' \in [Tenant -> [status : Lifecycle \cup {"purged"}, changed : 0 .. MaxClock]]
      BY <2>4 DEF Purge
    <3>2. tokens' \in [Token -> Lifecycle \cup {None, "deleted"}] /\ patGrants' \subseteq Account \X Env
      BY <2>4 DEF Purge
    <3>3. retired' \in BOOLEAN
      BY <2>4 DEF Purge
    <3> QED
      BY <1>2, <2>4, <3>1, <3>2, <3>3 DEF Purge, Commit
  <2>5. CASE RotatePat(r)
    <3>1. req[r].who \in Account
      BY <1>1, <2>5 DEF RotatePat, At, Shape
    <3>2. pats' \in [Pat -> [owner : Account \cup {None}, live : BOOLEAN]]
      BY <2>5, <3>1 DEF RotatePat
    <3> QED
      BY <1>2, <2>5, <3>2 DEF RotatePat, Commit
  <2>6. CASE RevokePat(r)
    <3>1. pats' \in [Pat -> [owner : Account \cup {None}, live : BOOLEAN]]
      BY <2>6 DEF RevokePat
    <3>2. patGrants' \subseteq Account \X Env
      BY <2>6 DEF RevokePat
    <3> QED
      BY <1>2, <2>6, <3>1, <3>2 DEF RevokePat, Commit
  <2> QED
    BY <1>5, <2>1, <2>2, <2>3, <2>4, <2>5, <2>6 DEF OwnTransaction
<1>6. CASE PortalTransaction
  BY <1>2, <1>6 DEF PortalTransaction, SetSession, SetMember, SetPatGrant, Commit
<1> QED
  BY <1>1, <1>3, <1>4, <1>5, <1>6, StepKinds

-----------------------------------------------------------------------------
(* Personal access tokens                                                  *)

LEMMA PatsStep ==
  ASSUME TablesInv, PatsInv, \A r \in Request : RequestInv(r), ControlNext
  PROVE  /\ PatsInv'
         /\ \A p \in Pat : pats[p].owner # None => pats'[p].owner = pats[p].owner
<1>1. \A r \in Request : Shape(req[r]) /\ req[r] \in RequestRecord
  BY DEF RequestInv
<1>2. pats \in [Pat -> [owner : Account \cup {None}, live : BOOLEAN]]
  BY DEF TablesInv, ControlTypeOK
<1>3. CASE UNCHANGED pats
  BY <1>3 DEF PatsInv
<1>4. ASSUME NEW r \in Request, RotatePat(r)
      PROVE  /\ PatsInv'
             /\ \A p \in Pat : pats[p].owner # None => pats'[p].owner = pats[p].owner
  <2> DEFINE old == req[r].thing
             who == req[r].who
             new == CHOOSE q \in Pat : pats[q].owner = None
  <2>1. who \in Account /\ who # None
    BY <1>1, <1>4, ControlAssumption DEF RotatePat, At, Shape
  <2>2. new \in Pat /\ pats[new].owner = None
    BY <1>4 DEF RotatePat
  <2>3. pats' = [q \in Pat |-> IF q = new THEN [owner |-> who, live |-> TRUE]
                               ELSE IF q = old THEN [pats[q] EXCEPT !.live = FALSE] ELSE pats[q]]
    BY <1>4 DEF RotatePat
  <2>4. \A p \in Pat : pats[p].live /\ pats[p].owner = who => p = old
    BY <1>4 DEF RotatePat, SoleLive, LivePats
  <2>5. \A p \in Pat \ {new} : /\ pats'[p].owner = pats[p].owner
                               /\ pats'[p].live => pats[p].live /\ p # old
    BY <1>2, <2>3
  <2>6. pats'[new].owner = who
    BY <2>2, <2>3
  <2> HIDE DEF old, who, new
  <2> QED
    BY <2>1, <2>2, <2>4, <2>5, <2>6 DEF PatsInv
<1>5. ASSUME NEW r \in Request, RevokePat(r)
      PROVE  /\ PatsInv'
             /\ \A p \in Pat : pats[p].owner # None => pats'[p].owner = pats[p].owner
  <2>1. pats' = [pats EXCEPT ![req[r].thing].live = FALSE]
    BY <1>5 DEF RevokePat
  <2>2. \A p \in Pat : pats'[p].owner = pats[p].owner /\ (pats'[p].live => pats[p].live)
    BY <1>2, <2>1
  <2> QED
    BY <2>2 DEF PatsInv
<1>6. \/ UNCHANGED pats \/ \E r \in Request : RotatePat(r) \/ RevokePat(r)
  <2>1. CASE Looked
    BY <2>1 DEF Looked, tables
  <2>2. CASE Edit
    BY <2>2 DEF Edit, SetTenantLifecycle, SetEnvironmentLifecycle, RenameEnvironment,
                SetAPITokenLifecycle, EnsurePrincipalRole, RevokePrincipalRoleByID
  <2>3. CASE \E r \in Request : OwnTransaction(r)
    BY <2>3 DEF OwnTransaction, InsertToken, BootstrapTenantToken, MarkSystemInitialized, Purge
  <2>4. CASE PortalTransaction
    BY <2>4 DEF PortalTransaction, SetSession, SetMember, SetPatGrant
  <2> QED
    BY <1>1, <2>1, <2>2, <2>3, <2>4, StepKinds
<1> QED
  BY <1>3, <1>4, <1>5, <1>6

-----------------------------------------------------------------------------
(* Archived workspaces, and the administrator                              *)

LEMMA ClockInvStep ==
  ASSUME TablesInv, ClockInv, \A r \in Request : RequestInv(r), ControlNext
  PROVE  ClockInv'
<1>1. \A r \in Request : Shape(req[r])
  BY DEF RequestInv
<1>2. now \in Int /\ now' \in Int /\ now <= now' /\ (now' # now => UNCHANGED <<tables, left, retired>>)
  BY ClockStep DEF TablesInv
<1>3. tenants \in [Tenant -> [status : Lifecycle \cup {"purged"}, changed : 0 .. MaxClock]]
      /\ left \in [Tenant -> Int]
  BY DEF TablesInv, ControlTypeOK
<1>4. MaxClock \in Nat
  BY ControlAssumption
<1>5. CASE UNCHANGED <<tenants, left>>
  BY <1>2, <1>3, <1>4, <1>5 DEF ClockInv
<1>6. ASSUME NEW t \in Tenant, NEW status \in Lifecycle, SetTenantLifecycle(t, status)
      PROVE  ClockInv'
  <2>1. tenants' = [tenants EXCEPT ![t] = [status |-> status, changed |-> now]]
    BY <1>6 DEF SetTenantLifecycle
  <2>2. \A u \in Tenant \ {t} : tenants'[u] = tenants[u] /\ left'[u] = left[u]
    BY <1>3, <1>6, <2>1 DEF SetTenantLifecycle
  <2>3. tenants'[t].changed = now /\ tenants'[t].status = status
    BY <1>3, <2>1
  <2>4. status = "archived" => left'[t] <= now
    BY <1>2, <1>3, <1>4, <1>6 DEF SetTenantLifecycle, ClockInv
  <2> QED
    BY <1>2, <1>3, <1>4, <2>2, <2>3, <2>4 DEF ClockInv
<1>7. ASSUME NEW r \in Request, NEW t \in Tenant, Purge(r, t)
      PROVE  ClockInv'
  <2>1. left' = left /\ tenants' = [tenants EXCEPT ![t].status = "purged"]
    BY <1>7 DEF Purge
  <2>2. \A u \in Tenant : /\ tenants'[u].changed = tenants[u].changed
                         /\ tenants'[u].status = "archived" => tenants[u].status = "archived"
    BY <1>3, <2>1
  <2> QED
    BY <1>2, <1>3, <1>4, <2>1, <2>2 DEF ClockInv
<1>8. \/ UNCHANGED <<tenants, left>>
      \/ \E t \in Tenant, status \in Lifecycle : SetTenantLifecycle(t, status)
      \/ \E r \in Request, t \in Tenant : Purge(r, t)
  <2>1. CASE Looked
    BY <2>1 DEF Looked, tables
  <2>2. CASE Edit
    BY <2>2 DEF Edit, SetEnvironmentLifecycle, RenameEnvironment,
                SetAPITokenLifecycle, EnsurePrincipalRole, RevokePrincipalRoleByID
  <2>3. CASE \E r \in Request : OwnTransaction(r)
    BY <2>3 DEF OwnTransaction, InsertToken, BootstrapTenantToken, MarkSystemInitialized, RotatePat, RevokePat
  <2>4. CASE PortalTransaction
    BY <2>4 DEF PortalTransaction, SetSession, SetMember, SetPatGrant
  <2> QED
    BY <1>1, <2>1, <2>2, <2>3, <2>4, StepKinds
<1> QED
  BY <1>5, <1>6, <1>7, <1>8

(* The administrator's token and grant, once there, are taken away only by *)
(* an administrator.                                                       *)
Stands == retired \/ (Stored(Bootstrap) /\ AdminGrant \in grants)

LEMMA AdministratorStays ==
  ASSUME TablesInv, \A r \in Request : RequestInv(r), ControlNext, Stands
  PROVE  Stands'
<1>1. \A r \in Request : Shape(req[r])
  BY DEF RequestInv
<1>2. Bootstrap \in Token /\ Home[Bootstrap] = OperatorEnv
  BY ControlAssumption
<1>3. tokens \in [Token -> Lifecycle \cup {None, "deleted"}]
  BY DEF TablesInv, ControlTypeOK
<1>4. CASE UNCHANGED <<tokens, grants, retired>>
  BY <1>4 DEF Stands, Stored
<1>5. CASE Edit
  BY <1>5 DEF Edit, SetTenantLifecycle, SetEnvironmentLifecycle, RenameEnvironment,
              SetAPITokenLifecycle, EnsurePrincipalRole, RevokePrincipalRoleByID, Stands, Stored
<1>6. ASSUME NEW r \in Request, InsertToken(r)
      PROVE  Stands'
  BY <1>2, <1>3, <1>6 DEF InsertToken, Stands, Stored
<1>7. ASSUME NEW r \in Request, BootstrapTenantToken(r)
      PROVE  Stands'
  BY <1>7 DEF BootstrapTenantToken, Stands, Stored
<1>8. ASSUME NEW r \in Request, NEW t \in Tenant, Purge(r, t)
      PROVE  Stands'
  <2>1. CASE TenantOf[OperatorEnv] = t \/ retired
    BY <1>8, <2>1 DEF Purge, Stands
  <2>2. CASE TenantOf[OperatorEnv] # t /\ ~ retired
    BY <1>2, <1>8, <2>2 DEF Purge, Stands, Stored
  <2> QED
    BY <2>1, <2>2
<1>9. \/ UNCHANGED <<tokens, grants, retired>>
      \/ Edit
      \/ \E r \in Request : InsertToken(r) \/ BootstrapTenantToken(r) \/ \E t \in Tenant : Purge(r, t)
  <2>1. CASE Looked
    BY <2>1 DEF Looked, tables
  <2>2. CASE \E r \in Request : OwnTransaction(r)
    BY <2>2 DEF OwnTransaction, MarkSystemInitialized, RotatePat, RevokePat
  <2>3. CASE PortalTransaction
    BY <2>3 DEF PortalTransaction, SetSession, SetMember, SetPatGrant
  <2> QED
    BY <1>1, <2>1, <2>2, <2>3, StepKinds
<1> QED
  BY <1>4, <1>5, <1>6, <1>7, <1>8, <1>9

-----------------------------------------------------------------------------
(* Requests                                                                *)

(* What Admitted says of a request under way survives a step that leaves   *)
(* what it asks for as it was.                                             *)
LEMMA AdmissionKept ==
  ASSUME NEW s \in Request, RequestInv(s), Witness, req'[s] \in RequestRecord,
         req[s].pc # "idle", req'[s].pc # "idle",
         req'[s].via = req[s].via, req'[s].op = req[s].op, req'[s].place = req[s].place,
         req[s].op = "token_status" => req'[s].thing = req[s].thing
  PROVE  /\ basis'[s].known \in BOOLEAN /\ basis'[s].moved \in BOOLEAN
         /\ basis[s].known => basis'[s].known
         /\ basis[s].reached \subseteq basis'[s].reached
         /\ (req[s].via = "token" => Addressed(s, req[s].op, req[s].place, req[s].thing))'
         /\ req[s].pc \in Checked => Entitled(s, req[s].op, req[s].place, req[s].thing)'
<1>1. basis[s].known \in BOOLEAN /\ basis[s].moved \in BOOLEAN
  BY DEF RequestInv, Admitted
<1>2. Known(s)' \in BOOLEAN
  BY DEF Known, KnownToControl
<1>3. /\ basis'[s].known \in BOOLEAN /\ basis'[s].moved \in BOOLEAN
      /\ basis[s].known => basis'[s].known
      /\ basis[s].reached \subseteq basis'[s].reached
  BY <1>1, <1>2, BasisStep
<1>4. PICK op, place, thing : op = req[s].op /\ place = req[s].place /\ thing = req[s].thing
  OBVIOUS
<1>5. req'[s].op = op /\ req'[s].place = place /\ (op = "token_status" => req'[s].thing = thing)
  BY <1>4
<1>6. ASSUME req[s].via = "token"
      PROVE  Addressed(s, req[s].op, req[s].place, req[s].thing)'
  <2>1. CASE op = "token_status"
    <3>1. thing \in Token /\ Addressed(s, op, place, thing)
      BY <1>4, <1>6, <2>1 DEF RequestInv, Shape, Admitted
    <3>2. Addressed(s, op, place, thing)'
      BY <1>1, <3>1, EntitlementKept
    <3> QED
      BY <1>5, <2>1, <3>2 DEF Addressed
  <2>2. CASE op # "token_status"
    BY <1>5, <2>2 DEF Addressed
  <2> QED
    BY <2>1, <2>2
<1>7. ASSUME req[s].pc \in Checked
      PROVE  Entitled(s, req[s].op, req[s].place, req[s].thing)'
  <2>1. Entitled(s, op, place, thing)
    BY <1>4, <1>7 DEF RequestInv, Admitted
  <2>2. Entitled(s, op, place, thing)'
    BY <1>1, <2>1, EntitlementKept
  <2> QED
    BY <1>5, <2>2 DEF Entitled
<1> QED
  BY <1>3, <1>6, <1>7

(* A request that does not move.                                           *)
LEMMA OthersKeep ==
  ASSUME NEW s \in Request, RequestInv(s), TablesInv, ControlNext, req'[s] = req[s],
         \A p \in Pat : pats[p].owner # None => pats'[p].owner = pats[p].owner
  PROVE  RequestInv(s)'
<1>1. req'[s] \in RequestRecord /\ Shape(req'[s]) /\ Witness
  BY DEF RequestInv, ControlNext
<1>2. HoldsPat(s)'
  <2>1. At(s, "wait") \/ At(s, "locked") => req[s].who \in Account /\ req[s].who # None
    BY ControlAssumption DEF RequestInv, Shape, At
  <2> QED
    BY <2>1 DEF RequestInv, HoldsPat, At
<1>3. PurgesPast(s)'
  <2>1. now \in Int /\ now' \in Int /\ now <= now'
    BY ClockStep DEF TablesInv
  <2>2. req[s].cutoff \in Int /\ Retention \in Int
    BY ControlAssumption DEF RequestInv, RequestRecord
  <2> QED
    BY <2>1, <2>2 DEF RequestInv, PurgesPast, At
<1>4. Admitted(s)'
  <2>1. CASE At(s, "idle")
    <3>1. basis'[s] = Blank
      BY <1>1, <2>1, BasisStep DEF At
    <3>2. req'[s].pc = "idle" /\ req'[s].via = None
      BY <2>1 DEF At, RequestInv, Shape
    <3> QED
      BY <3>1, <3>2 DEF Admitted, At, Blank, None, Checked
  <2>2. CASE ~ At(s, "idle")
    BY <1>1, <2>2, AdmissionKept DEF Admitted, At, RequestInv
  <2> QED
    BY <2>1, <2>2
<1> QED
  BY <1>1, <1>2, <1>3, <1>4 DEF RequestInv

LEMMA IdleTyped == Idle \in RequestRecord /\ NoPlace \in PlaceRecord
BY DEF Idle, RequestRecord, NoPlace, PlaceRecord, Pc

(* A request that is over.                                                 *)
LEMMA OverIsWell ==
  ASSUME NEW s \in Request, Witness, req'[s] = Idle
  PROVE  RequestInv(s)'
<1>1. Idle \in RequestRecord
  BY IdleTyped
<1>2. Shape(Idle)
  BY DEF Idle, Shape, None
<1>3. basis'[s] = Blank
  BY BasisStep DEF Idle
<1> QED
  BY <1>1, <1>2, <1>3 DEF RequestInv, HoldsPat, PurgesPast, Admitted, At, Blank, Idle, None, Checked

(* A request arrives.                                                      *)
LEMMA ArrivesWell ==
  ASSUME NEW s \in Request, Arrivals(s), TablesInv, req \in [Request -> RequestRecord],
         RequestInv(s), At(s, "idle"), Witness
  PROVE  RequestInv(s)'
<1>1. basis[s] = Blank /\ basis[s].moved = FALSE /\ basis[s].known = FALSE
  BY DEF RequestInv, Admitted, Blank
<1>2. basis'[s].moved \in BOOLEAN
  BY <1>1, BasisStep DEF Blank, Idle
<1>3. \A e \in Env : Place(e) \in PlaceRecord
  BY ControlAssumption DEF TablesInv, ControlTypeOK, Place, PlaceRecord
<1>4. Idle \in RequestRecord /\ NoPlace \in PlaceRecord
  BY IdleTyped
<1>5. ASSUME NEW op \in Operation \ {"token_status"}, NEW k \in Token, NEW place \in PlacesOf(op),
             Arrive(s, k, op, place)
      PROVE  RequestInv(s)'
  <2>1. req'[s] = [Idle EXCEPT !.pc = "own", !.via = "token", !.who = k, !.op = op,
                              !.place = place, !.own = Place(Home[k])]
    BY <1>5 DEF Arrive, Set
  <2>2. place \in PlaceRecord /\ (op = "tenant_status" => place.tenant \in Tenant)
    BY <1>3, <1>4 DEF PlacesOf, PlaceRecord, NoPlace, Everywhere
  <2>3. /\ req'[s] \in RequestRecord
        /\ Shape(req'[s])
    <3>1. Place(Home[k]) \in PlaceRecord
      BY <1>3, ControlAssumption
    <3>2. req'[s] \in RequestRecord
      BY <1>4, <2>1, <2>2, <3>1 DEF RequestRecord, Pc
    <3> QED
      BY <2>1, <2>2, <3>2 DEF Shape, Idle, None
  <2>4. Known(s)'
    BY <1>5, <2>1 DEF Arrive, Looked, tables, Known, KnownToControl, Usable, Purged, Idle
  <2>5. basis'[s].known
    BY <2>1, <2>4, BasisStep DEF Idle
  <2> QED
    BY <1>2, <2>1, <2>3, <2>5 DEF RequestInv, HoldsPat, PurgesPast, Admitted, Addressed, At, Idle, Checked
<1>6. ASSUME NEW k \in Token, NEW thing \in Token, ArriveForToken(s, k, thing)
      PROVE  RequestInv(s)'
  <2>1. req'[s] = [Idle EXCEPT !.pc = "identify", !.via = "token", !.who = k, !.op = "token_status",
                              !.place = Place(Home[thing]), !.thing = thing]
    BY <1>6 DEF ArriveForToken, Set
  <2>2. /\ req'[s] \in RequestRecord
        /\ Shape(req'[s])
    <3>1. Place(Home[thing]) \in PlaceRecord
      BY <1>3, ControlAssumption
    <3>2. "token_status" \in Operation
      BY DEF Operation, OfEnv
    <3>3. req'[s] = [pc |-> "identify", via |-> "token", who |-> k, op |-> "token_status",
                     place |-> Place(Home[thing]), own |-> NoPlace, thing |-> thing,
                     todo |-> {}, cutoff |-> 0]
      BY <2>1 DEF Idle
    <3>4. req'[s] \in RequestRecord
      BY <1>4, <3>1, <3>2, <3>3 DEF RequestRecord, Pc
    <3> QED
      BY <3>2, <3>3, <3>4 DEF Shape, None
  <2>3. Place(Home[thing])' = Place(Home[thing])
    BY <1>6 DEF ArriveForToken, Looked, tables, Place
  <2>4. basis'[s].known \in BOOLEAN
    BY <1>1, <2>1, BasisStep DEF Idle, Known, KnownToControl
  <2> QED
    BY <1>2, <2>1, <2>2, <2>3, <2>4
    DEF RequestInv, HoldsPat, PurgesPast, Admitted, Addressed, At, Idle, Checked
<1>7. ASSUME NEW a \in Account, NEW op \in Operation, NEW label, NEW thing,
             label \in Label \cup {None}, thing \in Token \cup {None},
             op = "token_status" => thing \in Token,
             ArrivePortal(s, a, op, label, thing)
      PROVE  RequestInv(s)'
  <2>1. req'[s] = [Idle EXCEPT !.pc = "role", !.via = "session", !.who = a, !.op = op,
                              !.place.label = label, !.thing = thing, !.own.tenant = session[a]]
    BY <1>7 DEF ArrivePortal, Set
  <2>2. session[a] \in Tenant \cup {None} /\ PortalRoles(op) # {}
    BY <1>7 DEF TablesInv, ControlTypeOK, ArrivePortal
  <2>3. op # "tenant_status"
    BY <2>2 DEF PortalRoles
  <2>4. req'[s] \in RequestRecord
    <3> DEFINE place == [NoPlace EXCEPT !.label = label]
               own   == [NoPlace EXCEPT !.tenant = session[a]]
    <3>1. place \in PlaceRecord /\ own \in PlaceRecord
      BY <1>4, <1>7, <2>2 DEF PlaceRecord
    <3>2. req'[s] = [pc |-> "role", via |-> "session", who |-> a, op |-> op, place |-> place,
                     own |-> own, thing |-> thing, todo |-> {}, cutoff |-> 0]
      BY <2>1 DEF Idle
    <3> HIDE DEF place, own
    <3> QED
      BY <1>7, <3>1, <3>2 DEF RequestRecord, Pc
  <2>5. Shape(req'[s])
    BY <1>7, <2>1, <2>2, <2>3 DEF Shape, Idle, None
  <2>6. Known(s)'
    BY <1>7, <2>1 DEF ArrivePortal, Looked, tables, Known, Idle
  <2>7. basis'[s].known
    BY <2>1, <2>6, BasisStep DEF Idle
  <2> QED
    BY <1>2, <2>1, <2>4, <2>5, <2>7 DEF RequestInv, HoldsPat, PurgesPast, Admitted, At, Idle, Checked
<1>8. CASE ArriveInit(s)
  <2>1. req'[s] = [Idle EXCEPT !.pc = "bootstrap", !.via = "init"]
    BY <1>8 DEF ArriveInit, Set
  <2>2. /\ req'[s] \in RequestRecord
        /\ Shape(req'[s])
    <3>1. req'[s] \in RequestRecord
      BY <1>4, <2>1 DEF RequestRecord, Pc
    <3> QED
      BY <2>1, <3>1 DEF Shape, Idle, None
  <2>3. basis'[s].known \in BOOLEAN
    BY <1>1, <2>1, BasisStep DEF Idle, Known
  <2> QED
    BY <1>2, <2>1, <2>2, <2>3 DEF RequestInv, HoldsPat, PurgesPast, Admitted, At, Idle, Checked
<1>9. ASSUME NEW a \in Account, NEW op \in {"rotate", "revoke_pat"}, SelectPat(s, a, op)
      PROVE  RequestInv(s)'
  <2>1. PICK p \in {None} \cup LivePats(a) :
          req'[s] = [Idle EXCEPT !.pc = IF Locked(p) THEN "wait" ELSE "locked", !.via = "pat",
                                !.who = a, !.op = op, !.thing = p]
    BY <1>9 DEF SelectPat, Set
  <2>2. p \in {None} \cup {q \in Pat : pats'[q].owner = a}
    BY <1>9, <2>1 DEF LivePats, SelectPat, Looked, tables
  <2>3. /\ req'[s] \in RequestRecord
        /\ Shape(req'[s])
    <3>1. req'[s] \in RequestRecord
      BY <1>4, <2>1, <2>2 DEF RequestRecord, Pc
    <3> QED
      BY <2>1, <3>1 DEF Shape, Idle, None
  <2>4. basis'[s].known \in BOOLEAN
    BY <1>1, <2>1, BasisStep DEF Idle, Known
  <2> QED
    BY <1>2, <2>1, <2>2, <2>3, <2>4 DEF RequestInv, HoldsPat, PurgesPast, Admitted, At, Idle, Checked
<1>10. \A e \in Env : envs[e].label \in Label
  BY DEF TablesInv, ControlTypeOK
<1> QED
  BY <1>5, <1>6, <1>7, <1>8, <1>9, <1>10 DEF Arrivals, Operation, OfEnv

(* A request has its grants or its role checked.                           *)
LEMMA CheckedWell ==
  ASSUME NEW s \in Request, CheckTarget(s) \/ CheckRole(s), TablesInv,
         req \in [Request -> RequestRecord], RequestInv(s), Witness
  PROVE  RequestInv(s)'
<1> DEFINE op == req[s].op
           thing == req[s].thing
<1>1. req[s] \in RequestRecord /\ Shape(req[s]) /\ Admitted(s)
  BY DEF RequestInv
<1>2. Looked /\ \A e \in Env : Place(e)' = Place(e)
  BY DEF CheckTarget, CheckRole, Looked, tables, Place
<1>3. op \in Operation /\ req[s].pc # "idle" /\ basis[s].known /\ basis[s].moved \in BOOLEAN
  BY <1>1 DEF Shape, Admitted, At, CheckTarget, CheckRole
<1>4. CASE CheckTarget(s)
  <2>1. req'[s] = [req[s] EXCEPT !.pc = "allowed"]
    BY <1>4 DEF CheckTarget, Goto, Set
  <2>2. req'[s] \in RequestRecord
    BY <1>1, <2>1 DEF RequestRecord, Pc
  <2>3. req'[s].pc = "allowed" /\ req'[s].via = "token" /\ req'[s].who = req[s].who
        /\ req'[s].op = op /\ req'[s].place = req[s].place /\ req'[s].thing = thing /\ req[s].via = "token"
    BY <1>1, <1>4, <2>1 DEF CheckTarget, At, Shape, RequestRecord
  <2>4. Shape(req'[s])
    BY <1>1, <2>3 DEF Shape, None
  <2>5. /\ basis'[s].known \in BOOLEAN /\ basis'[s].moved \in BOOLEAN /\ basis'[s].known
        /\ (req[s].via = "token" => Addressed(s, req[s].op, req[s].place, req[s].thing))'
    BY <1>3, <2>2, <2>3, AdmissionKept
  <2>6. ReachOf(req[s].who, op) \subseteq basis'[s].reached
    <3>1. Reach(s)' = ReachOf(req[s].who, op)
      BY <1>2, <2>3 DEF Reach, ReachOf, Names, Looked, tables
    <3> QED
      BY <2>3, <3>1, BasisStep
  <2>7. /\ req[s].place \in PlaceRecord /\ (op = "tenant_status" => req[s].place.tenant \in Tenant)
        /\ grants \subseteq Grantable /\ Granted(req[s].who, Permission(op), Target(op, req[s].place))
    BY <1>1, <1>4 DEF RequestRecord, Shape, TablesInv, ControlTypeOK, CheckTarget
  <2>8. /\ op \in Everywhere => Tenant \cup Env \cup {Anywhere} \subseteq ReachOf(req[s].who, op)
        /\ op = "tenant_status" => req[s].place.tenant \in ReachOf(req[s].who, op)
        /\ op \in {"env_rename", "token_create"} => EnvsOf(req[s].place.tenant) \subseteq ReachOf(req[s].who, op)
        /\ op \in OfEnv => {e \in Env : Place(e) = req[s].place} \subseteq ReachOf(req[s].who, op)
    BY <1>3, <2>7, GrantNames
  <2>9. op = "token_status" => basis'[s].moved \/ Home[thing] \in {e \in Env : Place(e) = req[s].place}
    <3>1. ASSUME op = "token_status", ~ basis'[s].moved
          PROVE  req[s].place = Place(Home[thing])
      <4>1. basis[s].moved => basis'[s].moved
        BY <2>3, BasisStep
      <4> QED
        BY <1>1, <2>3, <3>1, <4>1 DEF Admitted, Addressed
    <3>2. op = "token_status" => Home[thing] \in Env
      BY <1>1, ControlAssumption DEF Shape
    <3> QED
      BY <2>5, <3>1, <3>2
  <2>10. Entitled(s, req[s].op, req[s].place, req[s].thing)'
    BY <1>2, <2>3, <2>6, <2>8, <2>9 DEF Entitled, OfEnv, EnvsOf
  <2> QED
    BY <2>2, <2>3, <2>4, <2>5, <2>10 DEF RequestInv, HoldsPat, PurgesPast, Admitted, At
<1>5. CASE CheckRole(s)
  <2>1. PICK t \in Acting(req[s].who, req[s].own.tenant) :
          /\ member[t][req[s].who] \in PortalRoles(op)
          /\ op = "token_status" => TenantOf[Home[thing]] = t
          /\ req'[s] = [req[s] EXCEPT !.pc = "allowed", !.own = NoPlace, !.place.tenant = t]
    BY <1>5 DEF CheckRole, Set
  <2>2. t \in Tenant
    BY <2>1 DEF Acting
  <2>3. req'[s] \in RequestRecord
    <3>1. [req[s].place EXCEPT !.tenant = t] \in PlaceRecord
      BY <1>1, <2>2 DEF RequestRecord, PlaceRecord
    <3> QED
      BY <1>1, <2>1, <3>1, IdleTyped DEF RequestRecord, Pc
  <2>4. /\ req'[s].pc = "allowed" /\ req'[s].via = req[s].via /\ req'[s].who = req[s].who
        /\ req'[s].op = op /\ req'[s].place.tenant = t /\ req'[s].thing = thing
        /\ req[s].via = "session"
    <3>1. req[s].place \in PlaceRecord
      BY <1>1 DEF RequestRecord
    <3>2. req'[s].place = [req[s].place EXCEPT !.tenant = t]
      BY <1>1, <2>1 DEF RequestRecord
    <3>3. req'[s].place.tenant = t
      BY <3>1, <3>2 DEF PlaceRecord
    <3> QED
      BY <1>1, <1>5, <2>1, <3>3 DEF CheckRole, At, Shape, RequestRecord
  <2>5. Shape(req'[s])
    BY <1>1, <2>2, <2>4 DEF Shape, None
  <2>6. basis'[s].known \in BOOLEAN /\ basis'[s].moved \in BOOLEAN /\ basis'[s].known
    BY <1>3, <2>4, BasisStep DEF Known, KnownToControl
  <2>7. EnvsOf(t) \subseteq basis'[s].reached
    <3>1. EnvsOf(t) \subseteq Reach(s)'
      BY <1>2, <2>1, <2>2, <2>4 DEF Reach, Looked, tables
    <3> QED
      BY <2>4, <3>1, BasisStep
  <2>8. op \notin Everywhere \cup {"tenant_status"}
    BY <1>1, <2>4 DEF Shape, PortalRoles, Everywhere
  <2>9. op = "token_status" => Home[thing] \in EnvsOf(t)
    BY <1>1, <2>1, ControlAssumption DEF Shape, EnvsOf
  <2>10. {e \in Env : Place(e)' = req'[s].place} \subseteq EnvsOf(t)
    BY <2>4 DEF Place, EnvsOf
  <2>11. Entitled(s, req[s].op, req[s].place, req[s].thing)'
    BY <2>4, <2>7, <2>8, <2>9, <2>10 DEF Entitled, EnvsOf
  <2> QED
    BY <2>3, <2>4, <2>5, <2>6, <2>11 DEF RequestInv, HoldsPat, PurgesPast, Admitted, At
<1> QED
  BY <1>4, <1>5

(* A request of a token or a session goes on from one query to the next.   *)
LEMMA GoesOnWell ==
  ASSUME NEW s \in Request, TablesInv, req \in [Request -> RequestRecord], RequestInv(s), Witness,
         UNCHANGED now,
         \/ Identify(s) \/ CheckOwn(s) \/ CheckToken(s) \/ EndowFails(s) \/ ListCandidates(s)
         \/ InsertToken(s) /\ req[s].op = "operator"
         \/ \E t \in Tenant : Purge(s, t)
  PROVE  RequestInv(s)'
<1>1. req[s] \in RequestRecord /\ Shape(req[s]) /\ Admitted(s) /\ PurgesPast(s)
  BY DEF RequestInv
<1>2. basis[s].known \in BOOLEAN /\ basis[s].moved \in BOOLEAN
  BY <1>1 DEF Admitted
<1>3. CASE Identify(s)
  <2>1. req'[s] = [req[s] EXCEPT !.pc = "own", !.own = Place(Home[req[s].who])]
    BY <1>3 DEF Identify, Set
  <2>2. req[s].via = "token" /\ req[s].who \in Token
    BY <1>1, <1>3 DEF Identify, At, Shape
  <2>3. Place(Home[req[s].who]) \in PlaceRecord
    BY <2>2, ControlAssumption DEF TablesInv, ControlTypeOK, Place, PlaceRecord
  <2>4. req'[s] \in RequestRecord
    BY <1>1, <2>1, <2>3 DEF RequestRecord, Pc
  <2>5. /\ req'[s].pc = "own" /\ req'[s].via = "token" /\ req'[s].who = req[s].who
        /\ req'[s].op = req[s].op /\ req'[s].place = req[s].place /\ req'[s].thing = req[s].thing
        /\ req[s].pc = "identify"
    BY <1>1, <1>3, <2>1, <2>2 DEF RequestRecord, Identify, At
  <2>6. Shape(req'[s])
    BY <1>1, <2>2, <2>5 DEF Shape, None
  <2>7. Known(s)'
    BY <1>3, <2>5 DEF Identify, Looked, tables, Known, KnownToControl, Usable, Purged
  <2>8. basis'[s].known
    BY <2>5, <2>7, BasisStep
  <2> QED
    BY <2>2, <2>4, <2>5, <2>6, <2>8, AdmissionKept
    DEF RequestInv, HoldsPat, PurgesPast, Admitted, At, Checked
<1>4. CASE CheckOwn(s)
  <2>1. req'[s] = [req[s] EXCEPT !.pc = "target", !.own = NoPlace]
    BY <1>4 DEF CheckOwn, Set
  <2>2. req'[s] \in RequestRecord
    BY <1>1, <2>1, IdleTyped DEF RequestRecord, Pc
  <2>3. /\ req'[s].pc = "target" /\ req'[s].via = req[s].via /\ req'[s].who = req[s].who
        /\ req'[s].op = req[s].op /\ req'[s].place = req[s].place /\ req'[s].thing = req[s].thing
        /\ req[s].pc = "own"
    BY <1>1, <1>4, <2>1 DEF RequestRecord, CheckOwn, At
  <2>4. Shape(req'[s]) /\ req[s].via = "token"
    BY <1>1, <2>3 DEF Shape, None
  <2> QED
    BY <1>1, <2>2, <2>3, <2>4, AdmissionKept
    DEF RequestInv, HoldsPat, PurgesPast, Admitted, At, Checked
<1>5. CASE CheckToken(s)
  <2>1. PICK e \in (IF req[s].op = "operator" THEN {OperatorEnv} ELSE Found(req[s].place)) :
          req'[s] = [req[s] EXCEPT !.pc = "insert", !.thing = e]
    BY <1>5 DEF CheckToken, Set
  <2>2. e \in Env
    BY <2>1, ControlAssumption DEF Found
  <2>3. req'[s] \in RequestRecord
    BY <1>1, <2>1, <2>2 DEF RequestRecord, Pc
  <2>4. /\ req'[s].pc = "insert" /\ req'[s].via = req[s].via /\ req'[s].who = req[s].who
        /\ req'[s].op = req[s].op /\ req'[s].place = req[s].place /\ req'[s].thing = e
        /\ req[s].pc = "allowed" /\ req[s].op \in {"token_create", "operator"}
    BY <1>1, <1>5, <2>1 DEF RequestRecord, CheckToken, At
  <2>5. Shape(req'[s])
    BY <1>1, <2>2, <2>4 DEF Shape, None
  <2>6. Entitled(s, req[s].op, req[s].place, req[s].thing)
    BY <1>1, <2>4 DEF Admitted, Checked
  <2>7. e \in basis[s].reached
    BY <2>1, <2>2, <2>4, <2>6 DEF Entitled, Found, Place, EnvsOf, Everywhere
  <2>8. req[s].via \in {"token", "session"}
    BY <1>1, <2>4 DEF Shape, RequestRecord
  <2> QED
    BY <1>1, <2>3, <2>4, <2>5, <2>7, <2>8, AdmissionKept
    DEF RequestInv, HoldsPat, PurgesPast, Admitted, At, Checked, Entitled
<1>6. CASE EndowFails(s)
  <2>1. req'[s] = [req[s] EXCEPT !.pc = "undo"]
    BY <1>6 DEF EndowFails, Goto, Set
  <2>2. req'[s] \in RequestRecord
    BY <1>1, <2>1 DEF RequestRecord, Pc
  <2>3. /\ req'[s].pc = "undo" /\ req'[s].via = req[s].via /\ req'[s].who = req[s].who
        /\ req'[s].op = req[s].op /\ req'[s].place = req[s].place /\ req'[s].thing = req[s].thing
        /\ req[s].pc = "endow"
    BY <1>1, <1>6, <2>1 DEF RequestRecord, EndowFails, At
  <2>4. Shape(req'[s])
    BY <1>1, <2>3 DEF Shape, None
  <2> QED
    BY <1>1, <2>2, <2>3, <2>4, AdmissionKept
    DEF RequestInv, HoldsPat, PurgesPast, Admitted, At, Checked
<1>7. CASE ListCandidates(s)
  <2>1. req'[s] = [req[s] EXCEPT !.pc = "purge", !.cutoff = now - Retention,
                                !.todo = {t \in Tenant : Expired(t, now - Retention)}]
    BY <1>7 DEF ListCandidates, Set
  <2>2. now \in Int /\ Retention \in Int
    BY ControlAssumption DEF TablesInv
  <2>3. req'[s] \in RequestRecord
    <3> DEFINE cutoff == now - Retention
               todo   == {t \in Tenant : Expired(t, cutoff)}
    <3>1. todo \in SUBSET Tenant /\ cutoff \in Int
      BY <2>2
    <3>2. req'[s] = [req[s] EXCEPT !.pc = "purge", !.cutoff = cutoff, !.todo = todo]
      BY <2>1
    <3> HIDE DEF cutoff, todo
    <3> QED
      BY <1>1, <3>1, <3>2 DEF RequestRecord, Pc
  <2>4. /\ req'[s].pc = "purge" /\ req'[s].via = req[s].via /\ req'[s].who = req[s].who
        /\ req'[s].op = req[s].op /\ req'[s].place = req[s].place /\ req'[s].thing = req[s].thing
        /\ req[s].pc = "allowed" /\ req[s].op = "purge" /\ req'[s].cutoff = now - Retention
    BY <1>1, <1>7, <2>1 DEF RequestRecord, ListCandidates, At
  <2>5. Shape(req'[s])
    BY <1>1, <2>4 DEF Shape, None
  <2>6. PurgesPast(s)'
    BY <2>2, <2>4 DEF PurgesPast
  <2> QED
    BY <1>1, <2>3, <2>4, <2>5, <2>6, AdmissionKept
    DEF RequestInv, HoldsPat, Admitted, At, Checked
<1>8. CASE InsertToken(s) /\ req[s].op = "operator"
  <2>1. PICK k \in Token : req'[s] = [req[s] EXCEPT !.pc = "endow", !.thing = k]
    BY <1>8 DEF InsertToken, Set
  <2>2. req'[s] \in RequestRecord
    BY <1>1, <2>1 DEF RequestRecord, Pc
  <2>3. /\ req'[s].pc = "endow" /\ req'[s].via = req[s].via /\ req'[s].who = req[s].who
        /\ req'[s].op = req[s].op /\ req'[s].place = req[s].place /\ req'[s].thing = k
        /\ req[s].pc = "insert" /\ req[s].op = "operator"
    BY <1>1, <1>8, <2>1 DEF RequestRecord, InsertToken, At
  <2>4. Shape(req'[s])
    BY <1>1, <2>3 DEF Shape, None
  <2> QED
    BY <1>1, <2>2, <2>3, <2>4, AdmissionKept
    DEF RequestInv, HoldsPat, PurgesPast, Admitted, At, Checked, Entitled
<1>9. ASSUME NEW t \in Tenant, Purge(s, t)
      PROVE  RequestInv(s)'
  <2>1. req'[s] = [req[s] EXCEPT !.todo = @ \ {t}]
    BY <1>9 DEF Purge, Set
  <2>2. req'[s] \in RequestRecord
    BY <1>1, <2>1 DEF RequestRecord
  <2>3. /\ req'[s].pc = "purge" /\ req'[s].via = req[s].via /\ req'[s].who = req[s].who
        /\ req'[s].op = req[s].op /\ req'[s].place = req[s].place /\ req'[s].thing = req[s].thing
        /\ req[s].pc = "purge" /\ req'[s].cutoff = req[s].cutoff
    BY <1>1, <1>9, <2>1 DEF RequestRecord, Purge, At
  <2>4. Shape(req'[s])
    BY <1>1, <2>3 DEF Shape
  <2>5. PurgesPast(s)'
    BY <1>1, <2>3 DEF PurgesPast, At
  <2> QED
    BY <1>1, <2>2, <2>3, <2>4, <2>5, AdmissionKept
    DEF RequestInv, HoldsPat, Admitted, At, Checked
<1> QED
  BY <1>3, <1>4, <1>5, <1>6, <1>7, <1>8, <1>9

(* An initialisation goes on, or a transaction on a personal access token  *)
(* gets its lock.                                                          *)
LEMMA WaitsWell ==
  ASSUME NEW s \in Request, req \in [Request -> RequestRecord], RequestInv(s), Witness,
         BootstrapTenantToken(s) \/ EnsureAdmin(s) \/ Resume(s)
  PROVE  RequestInv(s)'
<1>1. req[s] \in RequestRecord /\ Shape(req[s]) /\ Admitted(s) /\ HoldsPat(s)
  BY DEF RequestInv
<1>2. CASE BootstrapTenantToken(s) \/ EnsureAdmin(s)
  <2>1. PICK pc \in {"admin", "mark"} : req'[s] = [req[s] EXCEPT !.pc = pc]
    BY <1>2 DEF BootstrapTenantToken, EnsureAdmin, Goto, Set
  <2>2. req'[s] \in RequestRecord
    BY <1>1, <2>1 DEF RequestRecord, Pc
  <2>3. /\ req'[s].pc \in {"admin", "mark"} /\ req'[s].via = req[s].via /\ req'[s].who = req[s].who
        /\ req'[s].op = req[s].op /\ req'[s].place = req[s].place /\ req'[s].thing = req[s].thing
        /\ req[s].pc \in {"bootstrap", "admin"}
    BY <1>1, <1>2, <2>1 DEF RequestRecord, BootstrapTenantToken, EnsureAdmin, At
  <2>4. Shape(req'[s]) /\ req'[s].via = "init"
    BY <1>1, <2>3 DEF Shape, None
  <2> QED
    BY <2>2, <2>3, <2>4, AdmissionKept DEF RequestInv, HoldsPat, PurgesPast, Admitted, At, Checked
<1>3. CASE Resume(s)
  <2>1. PICK p \in {None, req[s].thing} : req'[s] = [req[s] EXCEPT !.pc = "locked", !.thing = p]
    BY <1>1, <1>3 DEF Resume, Set, RequestRecord
  <2>2. pats' = pats /\ req[s].pc = "wait"
    BY <1>3 DEF Resume, Looked, tables, At
  <2>3. p \in {None} \cup {q \in Pat : pats[q].owner = req[s].who}
    BY <1>1, <2>1, <2>2 DEF HoldsPat, At
  <2>4. req'[s] \in RequestRecord
    BY <1>1, <2>1, <2>3 DEF RequestRecord, Pc
  <2>5. /\ req'[s].pc = "locked" /\ req'[s].via = req[s].via /\ req'[s].who = req[s].who
        /\ req'[s].op = req[s].op /\ req'[s].place = req[s].place /\ req'[s].thing = p
    BY <1>1, <2>1 DEF RequestRecord
  <2>6. Shape(req'[s]) /\ req'[s].via = "pat" /\ req[s].op # "token_status"
    BY <1>1, <2>2, <2>5 DEF Shape, None
  <2> QED
    BY <2>2, <2>3, <2>4, <2>5, <2>6, AdmissionKept
    DEF RequestInv, HoldsPat, PurgesPast, Admitted, At, Checked
<1> QED
  BY <1>2, <1>3

LEMMA RequestStep ==
  ASSUME ControlInv, ControlNext, NEW s \in Request
  PROVE  RequestInv(s)'
<1>1. RequestInv(s) /\ TablesInv /\ Witness /\ req \in [Request -> RequestRecord]
  BY DEF ControlInv, ControlNext
<1>2. CASE req'[s] = req[s]
  BY <1>1, <1>2, PatsStep, OthersKeep DEF ControlInv
<1>3. CASE req'[s] # req[s]
  <2>1. ((At(s, "idle") /\ Arrivals(s)) \/ Steps(s) \/ Fail(s)) /\ UNCHANGED now
    BY <1>1, <1>3, OwnStep
  <2>2. CASE At(s, "idle") /\ Arrivals(s)
    BY <1>1, <2>2, ArrivesWell
  <2>3. CASE CheckTarget(s) \/ CheckRole(s)
    BY <1>1, <2>3, CheckedWell
  <2>4. CASE \/ Identify(s) \/ CheckOwn(s) \/ CheckToken(s) \/ EndowFails(s) \/ ListCandidates(s)
             \/ InsertToken(s) /\ req[s].op = "operator"
             \/ \E t \in Tenant : Purge(s, t)
    BY <1>1, <2>1, <2>4, GoesOnWell
  <2>5. CASE BootstrapTenantToken(s) \/ EnsureAdmin(s) \/ Resume(s)
    BY <1>1, <2>5, WaitsWell
  <2>6. CASE \/ Effect(s) \/ Endow(s) \/ Undo(s) \/ MarkSystemInitialized(s) \/ RotatePat(s) \/ RevokePat(s)
             \/ Fail(s)
             \/ InsertToken(s) /\ req[s].op # "operator"
    <3>1. req'[s] = Idle
      BY <1>1, <2>6 DEF Effect, Endow, Undo, MarkSystemInitialized, RotatePat, RevokePat, InsertToken,
                        Fail, Answer, Set
    <3> QED
      BY <1>1, <3>1, OverIsWell
  <2> QED
    BY <2>1, <2>2, <2>3, <2>4, <2>5, <2>6 DEF Steps
<1> QED
  BY <1>2, <1>3

(* The administrator stands when an attempt comes to its mark.             *)
LEMMA AdminInvStep ==
  ASSUME ControlInv, ControlNext
  PROVE  AdminInv'
<1>1. /\ TablesInv /\ AdminInv /\ req \in [Request -> RequestRecord]
      /\ \A r \in Request : RequestInv(r) /\ Shape(req[r])
  BY DEF ControlInv, RequestInv
<1>2. Stands => Stands'
  BY <1>1, AdministratorStays
<1>3. ASSUME NEW r \in Request, At(r, "mark")', ~ At(r, "mark")
      PROVE  Stands'
  <2>1. req'[r].pc = "mark" /\ req[r].pc # "mark" /\ req'[r] # req[r]
    BY <1>3 DEF At
  <2>2. (At(r, "idle") /\ Arrivals(r)) \/ Steps(r) \/ Fail(r)
    BY <1>1, <2>1, OwnStep
  <2>3. ~ Arrivals(r) /\ ~ Fail(r)
    <3>1. ASSUME NEW k, NEW op, NEW place
          PROVE  ~ Arrive(r, k, op, place)
      BY <1>1, <2>1 DEF Arrive, Set, Idle
    <3>2. ASSUME NEW k, NEW thing
          PROVE  ~ ArriveForToken(r, k, thing)
      BY <1>1, <2>1 DEF ArriveForToken, Set, Idle
    <3>3. ASSUME NEW a, NEW op, NEW label, NEW thing
          PROVE  ~ ArrivePortal(r, a, op, label, thing)
      <4>1. SUFFICES ASSUME ArrivePortal(r, a, op, label, thing) PROVE FALSE
        OBVIOUS
      <4>2. req'[r] = [pc |-> "role", via |-> "session", who |-> a, op |-> op,
                       place |-> [NoPlace EXCEPT !.label = label],
                       own |-> [NoPlace EXCEPT !.tenant = session[a]],
                       thing |-> thing, todo |-> {}, cutoff |-> 0]
        BY <1>1, <4>1 DEF ArrivePortal, Set, Idle
      <4> QED
        BY <2>1, <4>2
    <3>4. ~ ArriveInit(r)
      BY <1>1, <2>1, IdleTyped DEF ArriveInit, Set, RequestRecord
    <3>6. ~ Fail(r)
      BY <1>1, <2>1 DEF Fail, Answer, Set, Idle
    <3>5. ASSUME NEW a, NEW op
          PROVE  ~ SelectPat(r, a, op)
      BY <1>1, <2>1 DEF SelectPat, Set, Idle
    <3> QED
      BY <3>1, <3>2, <3>3, <3>4, <3>5, <3>6 DEF Arrivals
  <2>4. ~ (\/ Identify(r) \/ CheckOwn(r) \/ CheckTarget(r) \/ CheckRole(r) \/ CheckToken(r) \/ EndowFails(r)
           \/ ListCandidates(r) \/ Resume(r) \/ BootstrapTenantToken(r))
    BY <1>1, <2>1 DEF Identify, CheckOwn, CheckTarget, CheckRole, CheckToken, EndowFails, ListCandidates,
                      Resume, BootstrapTenantToken, Goto, Set, RequestRecord
  <2>5. ~ (\/ Effect(r) \/ Endow(r) \/ Undo(r) \/ MarkSystemInitialized(r) \/ RotatePat(r) \/ RevokePat(r)
           \/ InsertToken(r) \/ \E t \in Tenant : Purge(r, t))
    <3>1. ~ (Effect(r) \/ Endow(r) \/ Undo(r) \/ MarkSystemInitialized(r) \/ RotatePat(r) \/ RevokePat(r))
      BY <1>1, <2>1 DEF Effect, Endow, Undo, MarkSystemInitialized, RotatePat, RevokePat, Answer, Set, Idle
    <3>2. ~ InsertToken(r)
      <4>1. Idle.pc = "idle" /\ \A k : [req[r] EXCEPT !.pc = "endow", !.thing = k].pc = "endow"
        BY <1>1 DEF Idle, RequestRecord
      <4> QED
        BY <1>1, <2>1, <4>1 DEF InsertToken, Answer, Set
    <3>3. ASSUME NEW t \in Tenant
          PROVE  ~ Purge(r, t)
      BY <1>1, <2>1 DEF Purge, Set, RequestRecord
    <3> QED
      BY <3>1, <3>2, <3>3
  <2>6. EnsureAdmin(r)
    BY <2>2, <2>3, <2>4, <2>5 DEF Steps
  <2> QED
    BY <2>6 DEF EnsureAdmin, EnsurePrincipalRole, Stands, Stored
<1>4. ASSUME initialized', ~ initialized
      PROVE  \E r \in Request : At(r, "mark")
  <2>1. CASE Looked
    BY <1>4, <2>1 DEF Looked, tables
  <2>2. CASE Edit
    BY <1>4, <2>2 DEF Edit, SetTenantLifecycle, SetEnvironmentLifecycle, RenameEnvironment,
                      SetAPITokenLifecycle, EnsurePrincipalRole, RevokePrincipalRoleByID
  <2>3. ASSUME NEW r \in Request, OwnTransaction(r)
        PROVE  At(r, "mark")
    BY <1>4, <2>3 DEF OwnTransaction, InsertToken, BootstrapTenantToken, MarkSystemInitialized, Purge,
                      RotatePat, RevokePat
  <2>4. CASE PortalTransaction
    BY <1>4, <2>4 DEF PortalTransaction, SetSession, SetMember, SetPatGrant
  <2> QED
    BY <1>1, <2>1, <2>2, <2>3, <2>4, StepKinds
<1>5. AdminInv => ((initialized \/ \E r \in Request : At(r, "mark")) => Stands)
  BY DEF AdminInv, Stands
<1>6. ASSUME initialized' \/ \E r \in Request : At(r, "mark")'
      PROVE  Stands'
  BY <1>1, <1>2, <1>3, <1>4, <1>5, <1>6
<1> QED
  BY <1>6 DEF AdminInv, Stands

-----------------------------------------------------------------------------
(* The invariant                                                           *)

LEMMA InitWell == ControlInit => ControlInv
<1> SUFFICES ASSUME ControlInit
             PROVE  ControlInv
  OBVIOUS
<1>1. PICK st \in Start :
        /\ tenants = [t \in Tenant |-> [status |-> IF t \in st.archived THEN "archived" ELSE "active", changed |-> 0]]
        /\ tokens = [k \in Token |-> IF k \in st.tokens THEN "active" ELSE None]
        /\ grants = st.grants
        /\ pats = [p \in Pat |-> IF \E a \in st.users : FirstPat[a] = p
                                 THEN [owner |-> CHOOSE a \in st.users : FirstPat[a] = p, live |-> TRUE]
                                 ELSE [owner |-> None, live |-> FALSE]]
        /\ session = [a \in Account |-> IF a \in st.users THEN TenantOf[OperatorEnv] ELSE None]
  BY DEF ControlInit
<1>2. st.grants \subseteq Grantable /\ st.users \subseteq Account
  BY ControlAssumption
<1>3. OperatorEnv \in Env /\ TenantOf[OperatorEnv] \in Tenant
  BY ControlAssumption
<1>4. \A p \in Pat : \/ pats[p] = [owner |-> None, live |-> FALSE]
                    \/ /\ pats[p].live = TRUE /\ pats[p].owner \in Account
                       /\ FirstPat[pats[p].owner] = p
                       /\ pats[p] \in [owner : Account \cup {None}, live : BOOLEAN]
  <2> TAKE p \in Pat
  <2>1. CASE \E a \in st.users : FirstPat[a] = p
    <3> DEFINE a == CHOOSE b \in st.users : FirstPat[b] = p
    <3>1. a \in Account /\ FirstPat[a] = p
      BY <1>2, <2>1
    <3>2. pats[p] = [owner |-> a, live |-> TRUE]
      BY <1>1, <2>1
    <3> HIDE DEF a
    <3> QED
      BY <3>1, <3>2
  <2>2. CASE ~ \E a \in st.users : FirstPat[a] = p
    BY <1>1, <2>2
  <2> QED
    BY <2>1, <2>2
<1>5. pats \in [Pat -> [owner : Account \cup {None}, live : BOOLEAN]]
  <2>1. \A p \in Pat : pats[p] \in [owner : Account \cup {None}, live : BOOLEAN]
    <3>1. [owner |-> None, live |-> FALSE] \in [owner : Account \cup {None}, live : BOOLEAN]
      OBVIOUS
    <3> QED
      BY <1>4, <3>1
  <2>2. pats = [p \in Pat |-> pats[p]]
    BY <1>1
  <2> QED
    BY <2>1, <2>2
<1>6. MaxClock \in Nat
  BY ControlAssumption
<1>7. /\ envs = [e \in Env |-> [label |-> LabelOf[e], on |-> TRUE]] /\ patGrants = {} /\ initialized = FALSE
      /\ req = [r \in Request |-> Idle] /\ now = 0 /\ commits = 0 /\ left = [t \in Tenant |-> 0]
      /\ retired = FALSE /\ basis = [r \in Request |-> Blank]
  BY DEF ControlInit
<1>8. TablesInv
  <2>1. tenants \in [Tenant -> [status : Lifecycle \cup {"purged"}, changed : 0 .. MaxClock]]
    BY <1>1, <1>6 DEF Lifecycle
  <2>2. tokens \in [Token -> Lifecycle \cup {None, "deleted"}]
    BY <1>1 DEF Lifecycle
  <2>3. envs \in [Env -> [label : Label, on : BOOLEAN]]
    BY <1>7, ControlAssumption
  <2>4. session \in [Account -> Tenant \cup {None}]
    BY <1>1, <1>3
  <2>5. grants \subseteq Grantable /\ patGrants \subseteq Account \X Env
    BY <1>1, <1>2, <1>7
  <2>6. ControlTypeOK
    BY <1>5, <2>1, <2>2, <2>3, <2>4, <2>5 DEF ControlTypeOK
  <2>7. now \in 0 .. MaxClock /\ commits \in Nat /\ left \in [Tenant -> Int]
    BY <1>6, <1>7
  <2>8. retired \in BOOLEAN /\ initialized \in BOOLEAN
    BY <1>7
  <2> QED
    BY <2>6, <2>7, <2>8 DEF TablesInv
<1>9. PatsInv
  BY <1>4 DEF PatsInv
<1>10. ClockInv
  BY <1>1, <1>7 DEF ClockInv
<1>11. AdminInv
  BY <1>7 DEF AdminInv, At, Idle
<1>12. ASSUME NEW r \in Request
       PROVE  RequestInv(r)
  <2>1. req[r] = Idle /\ basis[r] = Blank
    BY <1>7
  <2>2. Idle \in RequestRecord /\ Shape(Idle)
    BY IdleTyped DEF Idle, Shape, None
  <2> QED
    BY <2>1, <2>2 DEF RequestInv, HoldsPat, PurgesPast, Admitted, At, Blank, Idle, None, Checked
<1>13. req \in [Request -> RequestRecord]
  BY <1>7, IdleTyped
<1> QED
  BY <1>8, <1>9, <1>10, <1>11, <1>12, <1>13 DEF ControlInv

LEMMA NextWell == ControlInv /\ [ControlNext]_vars => ControlInv'
<1>1. ASSUME ControlInv, ControlNext
      PROVE  ControlInv'
  <2>1. TablesInv' /\ PatsInv' /\ ClockInv'
    BY <1>1, TablesStep, PatsStep, ClockInvStep DEF ControlInv
  <2>2. AdminInv'
    BY <1>1, AdminInvStep
  <2>3. \A r \in Request : RequestInv(r)'
    BY <1>1, RequestStep
  <2>4. req' \in [Request -> RequestRecord]
    <3>1. \A r \in Request : req'[r] \in RequestRecord
      BY <2>3 DEF RequestInv
    <3>2. req' = [r \in Request |-> req'[r]]
      BY <1>1, RequestsStay DEF ControlInv
    <3> QED
      BY <3>1, <3>2
  <2> QED
    BY <2>1, <2>2, <2>3, <2>4 DEF ControlInv
<1>2. ASSUME ControlInv, UNCHANGED vars
      PROVE  ControlInv'
  BY <1>2 DEF ControlInv, vars, tables, TablesInv, ControlTypeOK, PatsInv, ClockInv, AdminInv, RequestInv,
              HoldsPat, PurgesPast, Admitted, Addressed, Entitled, At, Stored, Place
<1> QED
  BY <1>1, <1>2

(* A workspace is purged by a purge, which found it expired.               *)
LEMMA PurgeStep ==
  ASSUME ControlInv, ControlNext, NEW t \in Tenant, Purged(t)', ~ Purged(t)
  PROVE  tenants[t].status = "archived" /\ left[t] + Retention <= now
<1>1. /\ tenants \in [Tenant -> [status : Lifecycle \cup {"purged"}, changed : 0 .. MaxClock]]
      /\ left \in [Tenant -> Int] /\ now \in Int /\ Retention \in Int /\ MaxClock \in Int
      /\ \A r \in Request : Shape(req[r]) /\ req[r] \in RequestRecord /\ PurgesPast(r)
  BY ControlAssumption DEF ControlInv, TablesInv, ControlTypeOK, RequestInv
<1>2. PICK r \in Request : Purge(r, t)
  <2>1. ~ Looked /\ ~ PortalTransaction
    BY DEF Looked, tables, Purged, PortalTransaction, SetSession, SetMember, SetPatGrant
  <2>2. ~ Edit
    <3>1. ASSUME NEW u \in Tenant, NEW status \in Lifecycle
          PROVE  ~ SetTenantLifecycle(u, status)
      <4>1. CASE u = t
        BY <1>1, <4>1 DEF SetTenantLifecycle, Purged, Lifecycle
      <4>2. CASE u # t
        BY <1>1, <4>2 DEF SetTenantLifecycle, Purged
      <4> QED
        BY <4>1, <4>2
    <3>2. tenants' # tenants
      BY DEF Purged
    <3> QED
      BY <3>1, <3>2 DEF Edit, SetEnvironmentLifecycle, RenameEnvironment,
                        SetAPITokenLifecycle, EnsurePrincipalRole, RevokePrincipalRoleByID
  <2>3. PICK r \in Request : OwnTransaction(r)
    BY <1>1, <2>1, <2>2, StepKinds
  <2>4. PICK u \in Tenant : Purge(r, u)
    BY <2>3 DEF OwnTransaction, InsertToken, BootstrapTenantToken, MarkSystemInitialized, RotatePat,
                RevokePat, Purged
  <2>5. u = t
    BY <1>1, <2>4 DEF Purge, Purged
  <2> QED
    BY <2>4, <2>5
<1>3. /\ tenants[t].status = "archived" /\ tenants[t].changed <= req[r].cutoff
      /\ req[r].cutoff + Retention <= now
  BY <1>1, <1>2 DEF Purge, StillExpired, Expired, PurgesPast
<1>4. left[t] <= tenants[t].changed
  BY <1>3 DEF ControlInv, ClockInv
<1>5. left[t] \in Int /\ tenants[t].changed \in Int /\ req[r].cutoff \in Int
  BY <1>1 DEF RequestRecord
<1> QED
  BY <1>1, <1>3, <1>4, <1>5

(* A transaction of a token's or a session's request touches what the      *)
(* request is entitled to.                                                 *)
LEMMA EffectStep ==
  ASSUME ControlInv, ControlNext, NEW r \in Request, req[r].via \in {"token", "session"},
         req'[r] # req[r], commits' # commits
  PROVE  basis[r].known /\ (basis[r].moved \/ Touched \subseteq basis[r].reached)
<1>1. /\ TablesInv /\ req \in [Request -> RequestRecord]
      /\ req[r] \in RequestRecord /\ Shape(req[r]) /\ Admitted(r)
  BY DEF ControlInv, RequestInv
<1>2. (At(r, "idle") /\ Arrivals(r)) \/ Steps(r) \/ Fail(r)
  BY <1>1, OwnStep
<1>3. \/ Effect(r) \/ InsertToken(r) \/ Endow(r) \/ Undo(r)
      \/ \E t \in Tenant : Purge(r, t)
  <2>1. req[r].pc \notin {"idle", "bootstrap", "admin", "mark", "wait", "locked"}
    BY <1>1 DEF Shape, None
  <2>2. ~ (BootstrapTenantToken(r) \/ EnsureAdmin(r) \/ MarkSystemInitialized(r) \/ RotatePat(r) \/ RevokePat(r))
    BY <2>1 DEF BootstrapTenantToken, EnsureAdmin, MarkSystemInitialized, RotatePat, RevokePat, At
  <2>3. ~ (\/ Identify(r) \/ CheckOwn(r) \/ CheckTarget(r) \/ CheckRole(r) \/ CheckToken(r)
           \/ EndowFails(r) \/ ListCandidates(r) \/ Resume(r) \/ Fail(r))
    BY DEF Identify, CheckOwn, CheckTarget, CheckRole, CheckToken, EndowFails, ListCandidates, Resume,
           Fail, Looked
  <2> QED
    BY <1>2, <2>1, <2>2, <2>3 DEF Steps, At
<1>4. req[r].pc \in Checked
  BY <1>3 DEF Effect, InsertToken, Endow, Undo, Purge, At, Checked
<1>5. basis[r].known /\ Entitled(r, req[r].op, req[r].place, req[r].thing)
  BY <1>1, <1>4 DEF Admitted, At, Checked
<1>6. req[r].op \in Operation
  BY <1>1 DEF Shape
<1>7. SUFFICES ASSUME ~ basis[r].moved
               PROVE  Touched \subseteq basis[r].reached
  BY <1>5
<1> DEFINE place == req[r].place
           thing == req[r].thing
           reached == basis[r].reached
<1>8. \A k \in Token : Home[k] \in Env
  BY ControlAssumption
<1>9. CASE Effect(r)
  <2>1. Change(req[r].op, place, thing)
    BY <1>9 DEF Effect
  <2>2. CASE req[r].op = "tenant_status"
    <3>1. PICK s \in Lifecycle : SetTenantLifecycle(place.tenant, s)
      BY <2>1, <2>2 DEF Change
    <3>2. Touched \subseteq {place.tenant}
      BY <1>1, <3>1 DEF SetTenantLifecycle, Touched, TablesInv, ControlTypeOK
    <3> QED
      BY <1>5, <2>2, <3>2 DEF Entitled
  <2>3. CASE req[r].op = "env_status"
    <3>1. PICK e \in Found(place), on \in BOOLEAN : SetEnvironmentLifecycle(e, on)
      BY <2>1, <2>3 DEF Change
    <3>2. Touched \subseteq {e}
      BY <1>1, <3>1 DEF SetEnvironmentLifecycle, Touched, TablesInv, ControlTypeOK
    <3>3. e \in Env /\ Place(e) = place
      BY <3>1 DEF Found
    <3> QED
      BY <1>5, <1>7, <2>3, <3>2, <3>3 DEF Entitled
  <2>4. CASE req[r].op = "env_rename"
    <3>1. PICK e \in Found(place), l \in Label : RenameEnvironment(e, l)
      BY <2>1, <2>4 DEF Change
    <3>2. Touched \subseteq {e}
      BY <1>1, <3>1 DEF RenameEnvironment, Touched, TablesInv, ControlTypeOK
    <3>3. e \in EnvsOf(place.tenant)
      BY <3>1 DEF Found, Place, EnvsOf
    <3> QED
      BY <1>5, <2>4, <3>2, <3>3 DEF Entitled
  <2>5. CASE req[r].op = "token_status"
    <3>1. PICK s \in {"active", "suspended", "deleted"} : SetAPITokenLifecycle(thing, s)
      BY <2>1, <2>5 DEF Change
    <3>2. Touched \subseteq {Home[thing]}
      BY <1>1, <3>1 DEF SetAPITokenLifecycle, Touched, TablesInv, ControlTypeOK
    <3> QED
      BY <1>5, <1>7, <2>5, <3>2 DEF Entitled
  <2>6. CASE req[r].op \in {"grant", "revoke"}
    <3>1. \E g : EnsurePrincipalRole(g) \/ RevokePrincipalRoleByID(g)
      BY <2>1, <2>6 DEF Change
    <3>2. Touched \subseteq {Anywhere}
      BY <3>1 DEF EnsurePrincipalRole, RevokePrincipalRoleByID, Touched
    <3> QED
      BY <1>5, <2>6, <3>2 DEF Entitled, Everywhere
  <2> QED
    BY <2>1, <2>2, <2>3, <2>4, <2>5, <2>6 DEF Change
<1>10. CASE InsertToken(r)
  <2>1. PICK k \in Token : Home[k] = thing /\ tokens' = [tokens EXCEPT ![k] = "active"]
    BY <1>10 DEF InsertToken
  <2>2. UNCHANGED <<tenants, envs, grants>>
    BY <1>10 DEF InsertToken
  <2>3. Touched \subseteq {thing}
    BY <1>1, <2>1, <2>2 DEF Touched, TablesInv, ControlTypeOK
  <2>4. thing \in reached
    BY <1>1, <1>10 DEF InsertToken, Admitted
  <2> QED
    BY <2>3, <2>4
<1>11. CASE Endow(r) \/ Undo(r)
  <2>1. Tenant \cup Env \cup {Anywhere} \subseteq reached
    BY <1>1, <1>5, <1>11 DEF Endow, Undo, At, Shape, Entitled, Everywhere
  <2>2. UNCHANGED <<tenants, envs>>
    BY <1>11 DEF Endow, Undo, EnsurePrincipalRole, SetAPITokenLifecycle
  <2>3. Touched \subseteq Env \cup {Anywhere}
    BY <1>8, <2>2 DEF Touched
  <2> QED
    BY <2>1, <2>3
<1>12. CASE \E t \in Tenant : Purge(r, t)
  <2>1. Tenant \cup Env \cup {Anywhere} \subseteq reached
    BY <1>1, <1>5, <1>12 DEF Purge, At, Shape, Entitled, Everywhere
  <2>2. Touched \subseteq Tenant \cup Env \cup {Anywhere}
    BY <1>8 DEF Touched
  <2> QED
    BY <2>1, <2>2
<1> QED
  BY <1>3, <1>9, <1>10, <1>11, <1>12

-----------------------------------------------------------------------------
(* The theorems                                                            *)

(* The inductive invariant of klc's authorisation, for any requests that   *)
(* overlap with transactions of the static token and of the portal.        *)
THEOREM ControlSafe == ControlSpec => []ControlInv
BY InitWell, NextWell, PTL DEF ControlSpec

(* OnePAT (RotatePortalPersonalAccessToken, portal_personal_access_tokens_ *)
(* active_uq): an account never has two working personal access tokens.    *)
THEOREM PatsUnique == ControlSpec => []OnePAT
<1>1. ControlInv => OnePAT
  <2> SUFFICES ASSUME ControlInv, NEW a \in Account
               PROVE  Cardinality(LivePats(a)) <= 1
    BY DEF OnePAT
  <2>1. PatsInv
    BY DEF ControlInv
  <2>2. \A p, q \in LivePats(a) : p = q
    BY <2>1 DEF PatsInv, LivePats
  <2> QED
    BY <2>1, <2>2, AtMostOne
<1> QED
  BY <1>1, ControlSafe, PTL

(* AccessListTrue (ListPortalEnvironmentPATAccess against                  *)
(* AuthenticateBackendToken): the accounts shown for an environment are    *)
(* those whose personal access token opens it; the tables stay well typed. *)
THEOREM AccessListsTrue == ControlSpec => []AccessListTrue
<1>1. ControlInv => AccessListTrue
  <2> SUFFICES ASSUME ControlInv, NEW e \in Env
               PROVE  Listed(e) = {pats[p].owner : p \in {q \in Pat : PatOpens(q, e)}}
    BY DEF AccessListTrue, ControlInv, TablesInv
  <2>1. \A p \in Pat : pats[p].live => pats[p].owner \in Account
    BY DEF ControlInv, PatsInv
  <2> QED
    BY <2>1 DEF Listed, LivePats, PatOpens
<1> QED
  BY <1>1, ControlSafe, PTL

(* InitialisedHasAdmin (handleBootstrapInit): a system that refuses        *)
(* another initialisation has an administrator, unless an administrator    *)
(* withdrew it.                                                            *)
THEOREM AdministratorKept == ControlSpec => []InitialisedHasAdmin
<1>1. ControlInv => InitialisedHasAdmin
  BY DEF ControlInv, AdminInv, InitialisedHasAdmin
<1> QED
  BY <1>1, ControlSafe, PTL

(* PurgeRespectsRetention (apiRetentionPurge, PurgeArchivedTenant): a      *)
(* workspace is purged only after a whole retention period in the archive, *)
(* for any retention and however old the list of candidates is.            *)
THEOREM PurgesWait == ControlSpec => PurgeRespectsRetention
<1>1. ControlInv /\ [ControlNext]_vars =>
        [\A t \in Tenant : (Purged(t)' /\ ~ Purged(t)) =>
            tenants[t].status = "archived" /\ left[t] + Retention <= now]_vars
  BY PurgeStep
<1> QED
  BY <1>1, ControlSafe, PTL DEF ControlSpec, PurgeRespectsRetention

(* EffectsCovered (requirePermission, requirePortalUser): what a request   *)
(* changes, a grant or role of its principal covered while it ran.         *)
THEOREM EffectsAuthorised == ControlSpec => EffectsCovered
<1>1. ControlInv /\ [ControlNext]_vars =>
        [\A r \in Request :
           (req[r].via \in {"token", "session"} /\ req'[r] # req[r] /\ commits' # commits)
              => basis[r].known /\ (basis[r].moved \/ Touched \subseteq basis[r].reached)]_vars
  BY EffectStep
<1> QED
  BY <1>1, ControlSafe, PTL DEF ControlSpec, EffectsCovered
=============================================================================

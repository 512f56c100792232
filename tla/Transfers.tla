----------------------------- MODULE Transfers -----------------------------
(***************************************************************************)
(* Workspaces (tenants), their environments, the states below them and the *)
(* transfer of an environment to another workspace: pkg/store, behind the  *)
(* control plane klc, beside the writes of kld.                            *)
(*                                                                         *)
(* A state's path is workspace/environment/name and its row belongs to the *)
(* workspace of the path.  A transfer is proposed, then accepted by one    *)
(* request in four steps: look up what the proposal names, accept it (the  *)
(* environment changes hands), list the states under the old path, move    *)
(* them.  Each statement sequence without a lock is split where another    *)
(* request can commit.                                                     *)
(***************************************************************************)
EXTENDS Integers, FiniteSets

CONSTANTS
  Tenant, Env, Slug, Name, Content,
  Proposal,   \* proposal ids
  Token,      \* API token ids
  Request,    \* concurrent requests to klc and kld
  MaxEnvs,    \* MaxEnvs[t]: active environments allowed, 0 for no limit
  MaxChurn    \* bound: changes of status and label

VARIABLES
  tenants,    \* tenants.lifecycle_status
  envs,       \* environments: owner, slug and lifecycle_status, or NoEnv
  states,     \* states: the rows, [ws, env, name, doc]
  tokens,     \* api_tokens: workspace, environment and lifecycle_status, or NoToken
  proposals,  \* ownership_transfer_proposals, or NoProposal
  req,        \* the requests under way
  churn       \* changes of status and label so far (bounded by MaxChurn)

transferVars == <<tenants, envs, states, tokens, proposals, req, churn>>

None       == "none"
NoEnv      == [owner |-> None, slug |-> None, status |-> None]
NoToken    == [tenant |-> None, env |-> None, status |-> None]
NoProposal == [env |-> None, name |-> None, source |-> None, target |-> None, status |-> None]
Idle       == [pc |-> "idle", tenant |-> None, env |-> None, slug |-> None, target |-> None,
               prop |-> None, moving |-> {}]
Lifecycle  == {"active", "suspended", "archived"}
OnOff      == {"active", "inactive"}   \* where suspended and archived are not told apart

(* archivedLabelName: a label nobody else has, written as the id.          *)
Archived(e) == e
Labels      == Slug \cup Env

(* Nothing is named "none", and no slug looks like an id.                *)
ASSUME TransferAssumption == None \notin Tenant \cup Env /\ Slug \cap Env = {}

Exists(e)       == envs[e] # NoEnv
ActiveEnvs(t)   == {e \in Env : envs[e].owner = t /\ envs[e].status = "active"}
Room(t)         == MaxEnvs[t] = 0 \/ Cardinality(ActiveEnvs(t)) < MaxEnvs[t]
SlugFree(t, s)  == \A e \in Env : ~ (envs[e].owner = t /\ envs[e].slug = s)
Lookup(t, s)    == {e \in Env : envs[e].owner = t /\ envs[e].slug = s}
StatesOf(t, e)  == {s \in states : s.ws = t /\ s.env = e}
Pending(e)      == {p \in Proposal : proposals[p].env = e /\ proposals[p].status = "pending"}

Set(r, q)       == req' = [req EXCEPT ![r] = q]
At(r, pc)       == req[r].pc = pc
Return(r)       == Set(r, Idle)
Churn           == churn < MaxChurn /\ churn' = churn + 1

TransfersInit ==
  /\ tenants = [t \in Tenant |-> "active"]
  /\ envs = [e \in Env |-> NoEnv]
  /\ states = {}
  /\ tokens = [k \in Token |-> NoToken]
  /\ proposals = [p \in Proposal |-> NoProposal]
  /\ req = [r \in Request |-> Idle]
  /\ churn = 0

-----------------------------------------------------------------------------
(* Workspaces and environments                                             *)

SetTenantLifecycleStatus(t, status) ==
  /\ tenants[t] # status
  /\ tenants' = [tenants EXCEPT ![t] = status]
  /\ Churn
  /\ UNCHANGED <<envs, states, tokens, proposals, req>>

(* DeleteTenant: only without active environments.                         *)
DeleteTenant(t) ==
  /\ ActiveEnvs(t) = {}
  /\ tenants' = [tenants EXCEPT ![t] = "inactive"]
  /\ Churn
  /\ UNCHANGED <<envs, states, tokens, proposals, req>>

(* CreateEnvironment: the checks, then the insert.                         *)
CheckCreate(r, t, s) ==
  /\ At(r, "idle")
  /\ tenants[t] = "active" /\ Room(t)
  /\ Set(r, [Idle EXCEPT !.pc = "creating", !.tenant = t, !.slug = s])
  /\ UNCHANGED <<tenants, envs, states, tokens, proposals, churn>>

InsertEnv(r) ==
  /\ At(r, "creating")
  /\ \E e \in Env :
       /\ ~ Exists(e)
       /\ IF SlugFree(req[r].tenant, req[r].slug)
          THEN envs' = [envs EXCEPT ![e] = [owner |-> req[r].tenant, slug |-> req[r].slug,
                                            status |-> "active"]]
          ELSE UNCHANGED envs
  /\ Return(r)
  /\ UNCHANGED <<tenants, states, tokens, proposals, churn>>

RenameEnvironment(e, s) ==
  /\ Exists(e) /\ SlugFree(envs[e].owner, s)
  /\ envs' = [envs EXCEPT ![e].slug = s]
  /\ Churn
  /\ UNCHANGED <<tenants, states, tokens, proposals, req>>

(* SetEnvironmentLifecycleStatus: archiving hides the slug; nothing else   *)
(* is checked, and restoring keeps the label it finds.                     *)
SetEnvironmentLifecycleStatus(e, status) ==
  /\ Exists(e) /\ envs[e].status # status
  /\ envs' = [envs EXCEPT ![e].status = status,
                          ![e].slug = IF status = "archived" THEN Archived(e) ELSE @]
  /\ Churn
  /\ UNCHANGED <<tenants, states, tokens, proposals, req>>

(* DeleteEnvironment: only without states under its current path; its      *)
(* tokens go with it.                                                      *)
DeleteEnvironment(e) ==
  /\ Exists(e) /\ StatesOf(envs[e].owner, e) = {}
  /\ envs' = [envs EXCEPT ![e].status = "archived", ![e].slug = Archived(e)]
  /\ tokens' = [k \in Token |-> IF tokens[k].env = e THEN [tokens[k] EXCEPT !.status = "inactive"]
                                 ELSE tokens[k]]
  /\ Churn
  /\ UNCHANGED <<tenants, states, proposals, req>>

-----------------------------------------------------------------------------
(* API tokens                                                              *)

(* CreateAPIToken: the reads, then the insert with what they saw.          *)
CheckToken(r, e) ==
  /\ At(r, "idle")
  /\ envs[e].status = "active" /\ tenants[envs[e].owner] = "active"
  /\ Set(r, [Idle EXCEPT !.pc = "issuing", !.tenant = envs[e].owner, !.env = e])
  /\ UNCHANGED <<tenants, envs, states, tokens, proposals, churn>>

InsertToken(r) ==
  /\ At(r, "issuing")
  /\ \E k \in Token :
       /\ tokens[k] = NoToken
       /\ tokens' = [tokens EXCEPT ![k] = [tenant |-> req[r].tenant, env |-> req[r].env,
                                           status |-> "active"]]
  /\ Return(r)
  /\ UNCHANGED <<tenants, envs, states, proposals, churn>>

SetAPITokenLifecycleStatus(k, status) ==
  /\ tokens[k] # NoToken /\ tokens[k].status # status
  /\ tokens' = [tokens EXCEPT ![k].status = status]
  /\ Churn
  /\ UNCHANGED <<tenants, envs, states, proposals, req>>

DeleteAPIToken(k) ==
  /\ tokens[k] # NoToken
  /\ tokens' = [tokens EXCEPT ![k] = NoToken]
  /\ Churn
  /\ UNCHANGED <<tenants, envs, states, proposals, req>>

-----------------------------------------------------------------------------
(* kld: a token authenticates a request into its workspace and its         *)
(* environment, all three active; the request writes a state under their   *)
(* path.                                                                   *)
Authenticate(r, k) ==
  /\ At(r, "idle")
  /\ tokens[k].status = "active"
  /\ tenants[tokens[k].tenant] = "active" /\ envs[tokens[k].env].status = "active"
  /\ Set(r, [Idle EXCEPT !.pc = "writing", !.tenant = tokens[k].tenant, !.env = tokens[k].env])
  /\ UNCHANGED <<tenants, envs, states, tokens, proposals, churn>>

(* The write transaction checks the workspace only.                        *)
UpsertState(r) ==
  /\ At(r, "writing")
  /\ IF tenants[req[r].tenant] = "active"
     THEN \E n \in Name, c \in Content :
            states' = {s \in states : ~ (s.ws = req[r].tenant /\ s.env = req[r].env /\ s.name = n)}
                        \cup {[ws |-> req[r].tenant, env |-> req[r].env, name |-> n, doc |-> c]}
     ELSE UNCHANGED states
  /\ Return(r)
  /\ UNCHANGED <<tenants, envs, tokens, proposals, churn>>

-----------------------------------------------------------------------------
(* Proposals                                                               *)

(* createEnvironmentOwnershipTransferProposal: no other proposal for the   *)
(* environment is pending, then the insert.                                *)
CheckPropose(r, e, t) ==
  /\ At(r, "idle")
  /\ Exists(e) /\ envs[e].owner # t /\ Pending(e) = {}
  /\ Set(r, [Idle EXCEPT !.pc = "proposing", !.tenant = envs[e].owner, !.env = e,
                         !.slug = envs[e].slug, !.target = t])
  /\ UNCHANGED <<tenants, envs, states, tokens, proposals, churn>>

InsertProposal(r) ==
  /\ At(r, "proposing")
  /\ \E p \in Proposal :
       /\ proposals[p] = NoProposal
       /\ proposals' = [proposals EXCEPT ![p] =
                          [env |-> req[r].env, name |-> req[r].slug, source |-> req[r].tenant,
                           target |-> req[r].target, status |-> "pending"]]
  /\ Return(r)
  /\ UNCHANGED <<tenants, envs, states, tokens, churn>>

(* Reject or cancel.                                                       *)
Decline(p, outcome) ==
  /\ proposals[p].status = "pending"
  /\ proposals' = [proposals EXCEPT ![p].status = outcome]
  /\ UNCHANGED <<tenants, envs, states, tokens, req, churn>>

(* acceptOwnershipTransferAndMoveStates: find the environment by the name  *)
(* it had when it was proposed, and open its database, which an inactive   *)
(* environment does not allow.                                             *)
LookUpSource(r, p) ==
  /\ At(r, "idle")
  /\ proposals[p] # NoProposal
  /\ \E e \in Lookup(proposals[p].source, proposals[p].name) :
       /\ envs[e].status = "active"
       /\ Set(r, [Idle EXCEPT !.pc = "accepting", !.prop = p, !.env = e,
                              !.tenant = proposals[p].source, !.target = proposals[p].target])
  /\ UNCHANGED <<tenants, envs, states, tokens, proposals, churn>>

\* Mutant of MayAccept: the proposal may have been decided since it was looked up.
MayAcceptLate(p, s) ==
  /\ Room(proposals[p].target)
  /\ \A e \in Env \ {proposals[p].env} : ~ (envs[e].owner = proposals[p].target /\ envs[e].slug = s)

(* Still pending, room in the target, no active environment of that name   *)
(* there, and (a unique key) no other environment of that name either.     *)
MayAccept(p, s) ==
  /\ proposals[p].status = "pending"
  /\ Room(proposals[p].target)
  /\ \A e \in ActiveEnvs(proposals[p].target) : envs[e].slug # s
  /\ \A e \in Env \ {proposals[p].env} : ~ (envs[e].owner = proposals[p].target /\ envs[e].slug = s)

(* UPDATE api_tokens SET tenant_id.                                        *)
TokensMoved(ks, t) ==
  [k \in Token |-> IF k \in ks THEN [tokens[k] EXCEPT !.tenant = t] ELSE tokens[k]]

(* resolveOwnershipTransferProposal, accept: the environment the proposal  *)
(* names by id changes hands, with the label the target chooses or the one *)
(* proposed, and its tokens go along.                                      *)
Accept(r) ==
  /\ At(r, "accepting")
  /\ LET p == req[r].prop
         e == proposals[p].env
     IN  \E s \in Slug \cup {proposals[p].name} :
           IF MayAccept(p, s)
           THEN /\ envs' = [envs EXCEPT ![e].owner = proposals[p].target, ![e].slug = s]
                /\ tokens' = TokensMoved({k \in Token : tokens[k].env = e}, proposals[p].target)
                /\ proposals' = [proposals EXCEPT ![p].status = "accepted"]
                /\ Set(r, [req[r] EXCEPT !.pc = "accepted"])
           ELSE Return(r) /\ UNCHANGED <<envs, tokens, proposals>>
  /\ UNCHANGED <<tenants, states, churn>>

\* Mutant of StatesToMove: the new path is searched instead of the old one.
StatesToMoveNew(r) == StatesOf(req[r].target, req[r].env)

(* MoveEnvironmentStateNamespace, outside its transaction: the states      *)
(* under the old path; none, and it is done.                               *)
StatesToMove(r) == StatesOf(req[r].tenant, req[r].env)

ListStates(r) ==
  /\ At(r, "accepted")
  /\ LET moving == StatesToMove(r)
     IN  IF moving = {} THEN Return(r)
         ELSE Set(r, [req[r] EXCEPT !.pc = "moving", !.moving = moving])
  /\ UNCHANGED <<tenants, envs, states, tokens, proposals, churn>>

(* The rows under the new path.                                            *)
Moved(moving, t) == {[s EXCEPT !.ws = t] : s \in moving}

(* A state already stands under the new path: a copy of the source is      *)
(* dropped, anything else fails the transaction.                           *)
Clash(moving, t) == \E s \in moving, u \in states :
                      u.ws = t /\ u.env = s.env /\ u.name = s.name /\ u.doc # s.doc

(* The transaction.  It also moves the environment of the lookup, if the   *)
(* source still owns it, and the tokens the source still has for it.       *)
MoveStates(r) ==
  /\ At(r, "moving")
  /\ LET q   == req[r]
         now == {s \in states : \E m \in q.moving : m.ws = s.ws /\ m.env = s.env /\ m.name = s.name}
         mine == envs[q.env].owner = q.tenant
     IN  IF Clash(now, q.target) THEN UNCHANGED <<envs, states, tokens>>
         ELSE /\ states' = (states \ now) \cup Moved(now, q.target)
              /\ envs' = IF mine THEN [envs EXCEPT ![q.env].owner = q.target] ELSE envs
              /\ tokens' = IF mine \/ envs[q.env].owner = q.target
                           THEN TokensMoved({k \in Token : tokens[k].tenant = q.tenant
                                                           /\ tokens[k].env = q.env}, q.target)
                           ELSE tokens
  /\ Return(r)
  /\ UNCHANGED <<tenants, proposals, churn>>

(* klc dies, or the connection to the state database is lost.              *)
Crash(r) ==
  /\ ~ At(r, "idle")
  /\ Return(r)
  /\ UNCHANGED <<tenants, envs, states, tokens, proposals, churn>>

-----------------------------------------------------------------------------
Administer ==
  \/ \E t \in Tenant : DeleteTenant(t) \/ \E l \in OnOff : SetTenantLifecycleStatus(t, l)
  \/ \E k \in Token : DeleteAPIToken(k) \/ \E l \in OnOff : SetAPITokenLifecycleStatus(k, l)
  \/ \E r \in Request : InsertEnv(r) \/ \E t \in Tenant, s \in Slug : CheckCreate(r, t, s)

Relabel(e) ==
  \/ \E s \in Slug : RenameEnvironment(e, s)
  \/ \E l \in Lifecycle : SetEnvironmentLifecycleStatus(e, l)
  \/ DeleteEnvironment(e)

Transfer(r) ==
  \/ InsertProposal(r)
  \/ \E p \in Proposal : LookUpSource(r, p)
  \/ Accept(r) \/ ListStates(r) \/ MoveStates(r)

Decide == \E p \in Proposal, o \in {"rejected", "cancelled"} : Decline(p, o)

TransfersNext ==
  \/ Administer \/ Decide
  \/ \E e \in Env : Relabel(e)
  \/ \E r \in Request : \/ \E e \in Env : CheckToken(r, e) \/ \E t \in Tenant : CheckPropose(r, e, t)
                        \/ \E k \in Token : Authenticate(r, k)
                        \/ InsertToken(r) \/ UpsertState(r) \/ Transfer(r) \/ Crash(r)

TransfersSpec == TransfersInit /\ [][TransfersNext]_transferVars

(* A maintenance window: while a transfer is under way no state is written *)
(* and no token issued, proposals are made one at a time, an environment   *)
(* on offer keeps its label, and nothing dies.  Acceptances, decisions and *)
(* administration still run against each other.                            *)
Proposing  == \E r \in Request : At(r, "proposing")
Accepting  == \E r \in Request : req[r].pc \in {"accepting", "accepted", "moving"}
Writing    == \E r \in Request : req[r].pc \in {"writing", "issuing"}
OnOffer(e) == \/ Pending(e) # {}
              \/ \E r \in Request : req[r].pc \in {"proposing", "accepting", "accepted", "moving"}
                                   /\ req[r].env = e

QuietNext ==
  \/ Administer \/ Decide
  \/ \E e \in Env : ~ OnOffer(e) /\ Relabel(e)
  \/ \E r \in Request :
       \/ ~ Accepting /\ ~ Proposing /\ \E e \in Env, t \in Tenant : CheckPropose(r, e, t)
       \/ ~ Accepting /\ (\/ \E e \in Env : CheckToken(r, e)
                         \/ \E k \in Token : Authenticate(r, k))
       \/ UpsertState(r) \/ InsertToken(r)
       \/ ~ Writing /\ Transfer(r)

QuietSpec == TransfersInit /\ [][QuietNext]_transferVars

-----------------------------------------------------------------------------
(* Properties                                                              *)

(* Shapes of the tables and the requests.                                  *)
TransfersTypeOK ==
  /\ tenants \in [Tenant -> OnOff]
  /\ envs \in [Env -> [owner : Tenant, slug : Labels, status : Lifecycle] \cup {NoEnv}]
  /\ states \subseteq [ws : Tenant, env : Env, name : Name, doc : Content]
  /\ \A s, u \in states : (s.ws = u.ws /\ s.env = u.env /\ s.name = u.name) => s = u
  /\ \A e, f \in Env : (Exists(e) /\ envs[e].owner = envs[f].owner /\ envs[e].slug = envs[f].slug) => e = f
  /\ tokens \in [Token -> [tenant : Tenant, env : Env, status : OnOff] \cup {NoToken}]
  /\ proposals \in [Proposal -> [env : Env, name : Labels, source : Tenant, target : Tenant,
                                 status : {"pending", "accepted", "rejected", "cancelled"}]
                                  \cup {NoProposal}]

(* An environment changes hands only by its own proposal, accepted, from   *)
(* the workspace that has it, and a proposal is decided once: a decision   *)
(* that was taken while the request to accept was under way stands.        *)
OwnerChangesByProposal ==
  [][/\ \A e \in Env : (Exists(e) /\ envs'[e].owner # envs[e].owner) =>
          \E p \in Proposal : /\ proposals[p].status = "pending" /\ proposals'[p].status = "accepted"
                              /\ proposals[p].env = e
                              /\ proposals[p].source = envs[e].owner
                              /\ proposals[p].target = envs'[e].owner
     /\ \A p \in Proposal : proposals[p].status \notin {None, "pending"} =>
          proposals'[p] = proposals[p]]_transferVars

(* A transfer takes every state and the credentials along: between         *)
(* transfers each state lies under the workspace that owns its environment *)
(* ("rehomes every state under one environment", state_transfer.go), and a *)
(* token always names that workspace, so nobody writes with a token of the *)
(* one that gave the environment away (resolveOwnershipTransferProposal    *)
(* updates api_tokens).                                                    *)
StatesFollowEnvironment ==
  /\ TransfersTypeOK
  /\ (\A r \in Request : req[r].pc \notin {"accepted", "moving"}) =>
        \A s \in states : s.ws = envs[s.env].owner
  /\ \A k \in Token : tokens[k] # NoToken => tokens[k].tenant = envs[tokens[k].env].owner
=============================================================================

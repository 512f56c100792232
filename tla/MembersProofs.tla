--------------------------- MODULE MembersProofs ---------------------------
(***************************************************************************)
(* Proofs about Members, for every number of accounts, workspaces,         *)
(* invitations and requests.                                               *)
(*                                                                         *)
(* The inductive invariant says what a request under way has secured: the  *)
(* row it will write is its own and still as it was checked (Secured,      *)
(* RowsHeld), and as long as nothing raced in a workspace at most one      *)
(* request there lowers an owner and another owner remains (OneLowers).    *)
(***************************************************************************)
EXTENDS Members, FiniteSetTheorems, TLAPS

Secured(q) ==
  /\ q.pc # "idle" => q.ws \in Workspace /\ kind[q.ws] # None
  /\ q.pc = "idle" => q.ws = None
  /\ q.pc = "invite" => q.target \in Account /\ q.to \in Invitable /\ kind[q.ws] # "personal"
  /\ q.pc \in {"set", "remove", "leave"} =>
       /\ q.target \in Account
       /\ role[q.ws][q.target] # None
       /\ q.pc = "set" => q.to \in Role
       /\ q.as = "tenant_admin" /\ q.pc # "leave" =>
            role[q.ws][q.target] # "owner" /\ q.to # "owner"
       /\ kind[q.ws] = "personal" => q.to = "owner"

RowsHeld ==
  \A r, s \in InFlight : r # s => ~ (req[r].ws = req[s].ws /\ req[r].target = req[s].target)

OneLeaves ==
  \A r, s \in InFlight : At(r, "leave") /\ At(s, "leave") /\ req[r].ws = req[s].ws => r = s

OneLowers ==
  \A r \in InFlight : Lowers(req[r]) /\ req[r].ws \notin raced =>
    /\ Owners(req[r].ws) \ {req[r].target} # {}
    /\ \A s \in InFlight : Lowers(req[s]) /\ req[s].ws = req[r].ws => r = s

FreeUnused ==
  \A w \in Workspace : kind[w] = None =>
    /\ \A a \in Account : role[w][a] = None
    /\ \A i \in Invitation : invitations[i].ws # w

PersonalUninvited ==
  \A w \in Workspace : kind[w] = "personal" => \A i \in Invitation : invitations[i].ws # w

MembersInv ==
  /\ MembersTypeOK
  /\ \A r \in Request : Secured(req[r])
  /\ RowsHeld
  /\ OneLeaves
  /\ OneLowers
  /\ FreeUnused
  /\ PersonalUninvited
  /\ PersonalWorkspaceOwned
  /\ OwnerKept

(* The empty database satisfies the invariant.                             *)
LEMMA InitMembersInv == MembersInit => MembersInv
BY RoleAssumption, NoneAssumption DEF RequestRecord, MembersInit, MembersInv, MembersTypeOK, Secured, RowsHeld, OneLeaves,
     OneLowers, FreeUnused, PersonalUninvited, PersonalWorkspaceOwned, OwnerKept, InFlight, Idle,
     NoInvitation, None

(* Two owners are more than the one who is about to go: what the count of  *)
(* SetPortalUserRole, RemovePortalUserFromTenant and LeavePortalTenant is  *)
(* for.                                                                    *)
LEMMA AnotherOne ==
  ASSUME NEW S, NEW x \in S, Cardinality(S) > 1
  PROVE  S \ {x} # {}
<1>1. SUFFICES ASSUME S \ {x} = {} PROVE FALSE
  OBVIOUS
<1>2. S = {x}
  BY <1>1
<1>3. Cardinality({x}) = 1
  BY FS_Singleton
<1> QED BY <1>2, <1>3

(* A request that holds no row and takes none changes nothing for others:  *)
(* reading the session, refusing, checking an invitation.                  *)
LEMMA QuietStep ==
  ASSUME MembersInv, NEW r \in Request, NEW q \in RequestRecord,
         q.pc \in {"idle", "open", "invite"}, Secured(q),
         req' = [req EXCEPT ![r] = q],
         UNCHANGED <<kind, personal, role, invitations, raced>>
  PROVE  MembersInv'
<1>1. MembersTypeOK'
  BY DEF MembersInv, MembersTypeOK
<1>2. InFlight' \subseteq InFlight /\ \A s \in InFlight' : s # r /\ req'[s] = req[s]
  BY DEF InFlight, MembersInv, MembersTypeOK
<1>3. \A s \in Request : Secured(req[s])'
  BY DEF MembersInv, MembersTypeOK, Secured
<1>4. RowsHeld' /\ OneLeaves'
  BY <1>2 DEF MembersInv, RowsHeld, OneLeaves, At
<1>5. OneLowers'
  BY <1>2 DEF MembersInv, OneLowers, Lowers, Owners
<1>6. FreeUnused' /\ PersonalUninvited' /\ PersonalWorkspaceOwned' /\ OwnerKept'
  BY DEF MembersInv, FreeUnused, PersonalUninvited, PersonalWorkspaceOwned, OwnerKept, Owners
<1> QED BY <1>1, <1>3, <1>4, <1>5, <1>6 DEF MembersInv

(* Creating a workspace: nobody has referred to a free slug before.        *)
LEMMA CreateStep ==
  ASSUME MembersInv, NEW a \in Account, NEW w \in Workspace, kind[w] = None,
         NEW k \in {"organization", "personal"},
         kind' = [kind EXCEPT ![w] = k],
         role' = [role EXCEPT ![w][a] = "owner"],
         \/ k = "organization" /\ personal' = personal
         \/ /\ k = "personal" /\ personal' = [personal EXCEPT ![w] = a]
            /\ \A v \in Workspace : personal[v] # a,
         UNCHANGED <<invitations, req, raced>>
  PROVE  MembersInv'
<1> USE RoleAssumption, NoneAssumption
<1>0. role' \in [Workspace -> [Account -> Role \cup {None}]]
  BY DEF MembersInv, MembersTypeOK
<1>a. kind' \in [Workspace -> {None, "organization", "personal"}]
  BY DEF MembersInv, MembersTypeOK
<1>b. personal' \in [Workspace -> Account \cup {None}]
  BY DEF MembersInv, MembersTypeOK
<1>c. \A u, v \in Workspace : personal'[u] = personal'[v] /\ personal'[u] # None => u = v
  BY DEF MembersInv, MembersTypeOK
<1>1. MembersTypeOK'
  BY <1>0, <1>a, <1>b, <1>c DEF MembersInv, MembersTypeOK
<1>2. \A s \in Request : req[s].ws # w
  BY NoneAssumption DEF MembersInv, Secured, None
<1>3. \A v \in Workspace : v # w => role'[v] = role[v] /\ kind'[v] = kind[v] /\ personal'[v] = personal[v]
  BY DEF MembersInv, MembersTypeOK
<1>4. kind'[w] = k /\ \A b \in Account : role'[w][b] = IF b = a THEN "owner" ELSE None
  BY DEF MembersInv, MembersTypeOK, FreeUnused
<1>5. \A s \in Request : Secured(req[s])'
  BY <1>2, <1>3 DEF MembersInv, Secured
<1>6. InFlight' = InFlight /\ \A s \in InFlight : req'[s] = req[s] /\ req[s].ws \in Workspace \ {w}
  BY <1>2 DEF InFlight, MembersInv, Secured
<1>7. RowsHeld' /\ OneLeaves'
  BY <1>6 DEF MembersInv, RowsHeld, OneLeaves, At
<1>8. \A v \in Workspace : v # w => Owners(v)' = Owners(v)
  BY <1>3 DEF Owners
<1>9. OneLowers'
  <2>1. \A s \in InFlight : Lowers(req[s])' = Lowers(req[s])
    BY <1>3, <1>6 DEF Lowers
  <2> QED BY <2>1, <1>6, <1>8 DEF MembersInv, OneLowers
<1>10. FreeUnused'
  BY <1>3, <1>4 DEF MembersInv, FreeUnused, None
<1>11. PersonalUninvited' /\ PersonalWorkspaceOwned'
  BY <1>3, <1>4 DEF MembersInv, FreeUnused, PersonalUninvited, PersonalWorkspaceOwned, None, MembersTypeOK
<1>12. OwnerKept'
  <2>1. a \in Owners(w)'
    BY <1>4 DEF Owners
  <2> QED BY <2>1, <1>3, <1>8 DEF MembersInv, OwnerKept
<1> QED BY <1>1, <1>5, <1>7, <1>9, <1>10, <1>11, <1>12 DEF MembersInv

(* A request takes a row: the three transactions that change a membership. *)
LEMMA BeginStep ==
  ASSUME MembersInv, NEW r \in Request, NEW a \in Account, NEW to \in Role \cup {None},
         NEW pc \in {"set", "remove", "leave"},
         pc = "set" => to \in Role, pc # "set" => to = None,
         pc # "leave" /\ req[r].as = "tenant_admin" => to # "owner" /\ role[req[r].ws][a] # "owner",
         pc = "leave" => TenantFree(req[r].ws) /\ kind[req[r].ws] # "personal",
         Begin(r, pc, a, to)
  PROVE  MembersInv'
<1> DEFINE q == [req[r] EXCEPT !.pc = pc, !.target = a, !.to = to]
           w == req[r].ws
<1> USE RoleAssumption, NoneAssumption
<1>1. /\ req' = [req EXCEPT ![r] = q]
      /\ kind' = kind /\ personal' = personal /\ role' = role /\ invitations' = invitations
      /\ req[r].pc = "open"
      /\ role[w][a] # None
      /\ RowFree(w, a)
  BY DEF Begin, MembersInv, MembersTypeOK, At
<1>2. q.ws = w /\ q.pc = pc /\ q.target = a /\ q.to = to /\ q.as = req[r].as /\ q.who = req[r].who
  BY DEF MembersInv, MembersTypeOK
<1>t. q \in RequestRecord
  <2>1. req[r] \in RequestRecord
    BY DEF MembersInv, MembersTypeOK
  <2> QED BY <2>1 DEF RequestRecord
<1>3. w \in Workspace /\ kind[w] # None
  BY <1>1 DEF MembersInv, Secured
<1>4. Lowers(q) => Cardinality(Owners(w)) > 1
  BY <1>2 DEF Begin
<1>5. MembersTypeOK'
  <2>1. raced' \subseteq Workspace
    BY <1>2, <1>3 DEF Begin, MembersInv, MembersTypeOK
  <2> QED BY <1>1, <1>t, <2>1 DEF MembersInv, MembersTypeOK
<1>6. kind[w] = "personal" => to = "owner"
  <2>1. SUFFICES ASSUME kind[w] = "personal", to # "owner" PROVE FALSE
    OBVIOUS
  <2>2. \A b \in Account : role[w][b] = IF b = personal[w] THEN "owner" ELSE None
    BY <1>3, <2>1 DEF MembersInv, PersonalWorkspaceOwned
  <2>3. a = personal[w] /\ role[w][a] = "owner"
    BY <2>2, <1>1
  <2>4. Owners(w) = {a}
    BY <2>2, <2>3 DEF Owners, None
  <2>5. Lowers(q)
    BY <2>1, <2>3, <1>2 DEF Lowers
  <2>6. Owners(w) \ {a} # {}
    BY <2>4, <2>5, <1>4, AnotherOne
  <2> QED BY <2>4, <2>6
<1>7. \A s \in Request : Secured(req[s])'
  <2>1. Secured(q)'
    BY <1>1, <1>2, <1>3, <1>6 DEF Secured
  <2>2. \A s \in Request : s # r => Secured(req[s])'
    BY <1>1 DEF MembersInv, MembersTypeOK, Secured
  <2>3. req'[r] = q
    BY <1>1 DEF MembersInv, MembersTypeOK
  <2> QED BY <2>1, <2>2, <2>3 DEF Secured
<1>8. /\ InFlight' = InFlight \cup {r} /\ r \notin InFlight
      /\ req'[r] = q /\ \A s \in InFlight : req'[s] = req[s]
  BY <1>1, <1>2 DEF InFlight, MembersInv, MembersTypeOK
<1>m. /\ raced \subseteq raced'
      /\ Lowers(q) /\ w \notin raced' => \A o \in InFlight :
           req[o].ws = w /\ Lowers(req[o]) => pc = "leave" /\ At(o, "leave")
  BY <1>2 DEF Begin
<1> HIDE DEF q
<1>9. RowsHeld'
  <2>1. \A s \in InFlight : ~ (req[s].ws = w /\ req[s].target = a)
    BY <1>1 DEF RowFree
  <2> QED BY <2>1, <1>2, <1>8 DEF MembersInv, RowsHeld
<1>10. OneLeaves'
  <2>1. pc = "leave" => \A s \in InFlight : ~ (req[s].ws = w /\ req[s].pc = "leave")
    BY DEF TenantFree, At
  <2> QED BY <2>1, <1>2, <1>8 DEF MembersInv, OneLeaves, At
<1>11. \A v \in Workspace : Owners(v)' = Owners(v)
  BY <1>1 DEF Owners
<1>13. Lowers(q) /\ w \notin raced' => \A o \in InFlight : ~ (req[o].ws = w /\ Lowers(req[o]))
  BY <1>m DEF TenantFree
<1>14. OneLowers'
  <2>1. \A s \in InFlight : (Lowers(req[s])' <=> Lowers(req[s])) /\ req[s].ws \in Workspace
    BY <1>1, <1>8 DEF Lowers, MembersInv, Secured, InFlight
  <2>2. Lowers(req[r])' <=> Lowers(q)
    BY <1>1, <1>8 DEF Lowers
  <2>3. Lowers(q) => Owners(w) \ {a} # {}
    BY <1>2, <1>4, AnotherOne DEF Lowers, Owners
  <2>4. SUFFICES ASSUME NEW s \in InFlight', Lowers(req[s])', req'[s].ws \notin raced'
                 PROVE  /\ Owners(req[s].ws)' \ {req'[s].target} # {}
                        /\ \A o \in InFlight' : Lowers(req[o])' /\ req'[o].ws = req'[s].ws => s = o
    BY DEF OneLowers
  <2>5. CASE s = r
    <3>1. Lowers(q) /\ req'[s].ws = w /\ req'[s].target = a
      BY <2>2, <2>4, <2>5, <1>2, <1>8
    <3>2. Owners(req[s].ws)' = Owners(w)
      BY <3>1, <1>3, <1>11
    <3> QED BY <3>1, <3>2, <2>1, <2>3, <2>4, <2>5, <1>8, <1>13
  <2>6. CASE s # r
    <3>1. s \in InFlight /\ req'[s] = req[s] /\ Lowers(req[s]) /\ req[s].ws \notin raced
      BY <2>1, <2>4, <2>6, <1>8, <1>m
    <3>2. Owners(req[s].ws)' = Owners(req[s].ws)
      BY <3>1, <2>1, <1>11
    <3>3. ~ (Lowers(q) /\ w = req[s].ws)
      BY <3>1, <2>4, <1>13
    <3> QED BY <3>1, <3>2, <3>3, <2>1, <2>2, <1>2, <1>8 DEF MembersInv, OneLowers
  <2> QED BY <2>5, <2>6
<1>15. FreeUnused' /\ PersonalUninvited' /\ PersonalWorkspaceOwned' /\ OwnerKept'
  BY <1>1, <1>11, <1>m DEF MembersInv, FreeUnused, PersonalUninvited, PersonalWorkspaceOwned, OwnerKept
<1> QED BY <1>5, <1>7, <1>9, <1>10, <1>14, <1>15 DEF MembersInv

(* One membership row changes, and no other request under way holds it: an *)
(* acceptance, or the commit of the request that holds it.                 *)
LEMMA RowStep ==
  ASSUME MembersInv, NEW w \in Workspace, NEW a \in Account, NEW x \in Role \cup {None},
         kind[w] # None,
         kind[w] = "personal" => x = role[w][a],
         role' = [role EXCEPT ![w][a] = x],
         UNCHANGED <<kind, personal>>,
         \A s \in Request : req'[s] = req[s] \/ req'[s] = Idle,
         InFlight' \subseteq InFlight,
         \A s \in InFlight' : req'[s] = req[s] /\ ~ (req[s].ws = w /\ req[s].target = a),
         \A i \in Invitation : invitations'[i].ws = invitations[i].ws,
         raced \subseteq raced',
         role[w][a] = "owner" /\ x # "owner" /\ w \notin raced' =>
           /\ Owners(w) \ {a} # {}
           /\ \A s \in InFlight' : ~ (Lowers(req[s]) /\ req[s].ws = w),
         MembersTypeOK'
  PROVE  MembersInv'
<1> USE RoleAssumption, NoneAssumption
<1>1. /\ \A v \in Workspace, b \in Account : ~ (v = w /\ b = a) => role'[v][b] = role[v][b]
      /\ role'[w][a] = x
  BY DEF MembersInv, MembersTypeOK
<1>2. \A s \in InFlight' : /\ s \in Request /\ req[s].ws \in Workspace /\ req[s].target \in Account
                            /\ role'[req[s].ws][req[s].target] = role[req[s].ws][req[s].target]
  BY <1>1 DEF MembersInv, Secured, InFlight
<1>3. \A s \in Request : Secured(req[s])'
  <2>1. SUFFICES ASSUME NEW s \in Request PROVE Secured(req[s])'
    OBVIOUS
  <2>2. CASE req'[s] = Idle
    BY <2>2 DEF Secured, Idle
  <2>3. CASE req'[s] = req[s] /\ s \in InFlight'
    BY <2>3, <1>2 DEF MembersInv, Secured
  <2>4. CASE req'[s] = req[s] /\ s \notin InFlight'
    BY <2>4 DEF MembersInv, Secured, InFlight
  <2> QED BY <2>2, <2>3, <2>4
<1>4. RowsHeld' /\ OneLeaves'
  BY DEF MembersInv, RowsHeld, OneLeaves, At
<1>5. \A v \in Workspace : v # w => Owners(v)' = Owners(v)
  BY <1>1 DEF Owners
<1>7. FreeUnused' /\ PersonalUninvited' /\ PersonalWorkspaceOwned'
  <2>1. \A v \in Workspace : kind[v] = "personal" => \A b \in Account : role'[v][b] = role[v][b]
    BY <1>1
  <2> QED BY <2>1, <1>1 DEF MembersInv, FreeUnused, PersonalUninvited, PersonalWorkspaceOwned
<1>6. CASE x = "owner" \/ role[w][a] # "owner"
  <2>1. Owners(w) \subseteq Owners(w)'
    BY <1>1, <1>6 DEF Owners
  <2>2. \A v \in Workspace : Owners(v) \subseteq Owners(v)'
    BY <2>1, <1>5
  <2>3. \A s \in InFlight' : Lowers(req[s])' <=> Lowers(req[s])
    BY <1>2 DEF Lowers
  <2>4. OneLowers'
    BY <1>2, <2>2, <2>3 DEF MembersInv, OneLowers
  <2>5. OwnerKept'
    BY <2>2 DEF MembersInv, OwnerKept
  <2> QED BY <2>4, <2>5, <1>3, <1>4, <1>7 DEF MembersInv
<1>8. CASE role[w][a] = "owner" /\ x # "owner"
  <2>1. \A b \in Account \ {a} : role'[w][b] = role[w][b]
    BY <1>1
  <2>2. Owners(w)' = Owners(w) \ {a}
    BY <2>1, <1>1, <1>8 DEF Owners
  <2>3. \A s \in InFlight' : Lowers(req[s])' <=> Lowers(req[s])
    BY <1>2 DEF Lowers
  <2>4. OwnerKept'
    BY <2>2, <1>5, <1>8 DEF MembersInv, OwnerKept
  <2>5. \A s \in InFlight' : Lowers(req[s])' /\ req[s].ws \notin raced' =>
          Owners(req[s].ws)' = Owners(req[s].ws)
    BY <1>2, <1>5, <1>8, <2>3
  <2>6. OneLowers'
    BY <1>2, <2>3, <2>5 DEF MembersInv, OneLowers
  <2> QED BY <2>4, <2>6, <1>3, <1>4, <1>7 DEF MembersInv
<1> QED BY <1>6, <1>8

(* The commit of SetPortalUserRole, RemovePortalUserFromTenant or          *)
(* LeavePortalTenant.                                                      *)
LEMMA WriteStep ==
  ASSUME MembersInv, NEW r \in InFlight, Write(r)
  PROVE  MembersInv'
<1> USE RoleAssumption, NoneAssumption
<1>0. PICK w \in Workspace, a \in Account, x \in Role \cup {None} :
        w = req[r].ws /\ a = req[r].target /\ x = req[r].to
  BY DEF RequestRecord, MembersInv, MembersTypeOK, Secured, InFlight
<1>1. /\ r \in Request /\ kind[w] # None /\ role[w][a] # None
      /\ (kind[w] = "personal" => x = "owner")
  BY <1>0 DEF MembersInv, Secured, InFlight
<1>2. /\ role' = [role EXCEPT ![w][a] = x]
      /\ req' = [req EXCEPT ![r] = Idle]
      /\ UNCHANGED <<kind, personal, invitations, raced>>
  BY <1>0 DEF Write, Return
<1>3. \A s \in Request : req'[s] = IF s = r THEN Idle ELSE req[s]
  BY <1>2 DEF MembersInv, MembersTypeOK
<1>4. InFlight' = InFlight \ {r} /\ \A s \in InFlight' : req'[s] = req[s]
  BY <1>3 DEF InFlight, Idle
<1>5. \A s \in InFlight' : ~ (req[s].ws = w /\ req[s].target = a)
  BY <1>0, <1>4 DEF MembersInv, RowsHeld
<1>6. kind[w] = "personal" => x = role[w][a]
  BY <1>1 DEF MembersInv, PersonalWorkspaceOwned
<1>7. role[w][a] = "owner" /\ x # "owner" /\ w \notin raced' =>
        /\ Owners(w) \ {a} # {}
        /\ \A s \in InFlight' : ~ (Lowers(req[s]) /\ req[s].ws = w)
  BY <1>0, <1>2, <1>4 DEF MembersInv, OneLowers, Lowers
<1>8. MembersTypeOK'
  <2>1. role' \in [Workspace -> [Account -> Role \cup {None}]]
    BY <1>1, <1>2 DEF MembersInv, MembersTypeOK
  <2>2. req' \in [Request -> RequestRecord]
    BY <1>2 DEF RequestRecord, MembersInv, MembersTypeOK, Idle
  <2> QED BY <1>2, <2>1, <2>2 DEF MembersInv, MembersTypeOK
<1>9. /\ \A s \in Request : req'[s] = req[s] \/ req'[s] = Idle
      /\ InFlight' \subseteq InFlight
      /\ \A s \in InFlight' : req'[s] = req[s] /\ ~ (req[s].ws = w /\ req[s].target = a)
      /\ \A i \in Invitation : invitations'[i].ws = invitations[i].ws
      /\ raced \subseteq raced'
      /\ UNCHANGED <<kind, personal>>
  BY <1>2, <1>3, <1>4, <1>5
<1>10. role' = [role EXCEPT ![w][a] = x]
  BY <1>2
<1> QED BY ONLY MembersInv, w \in Workspace, a \in Account, x \in Role \cup {None},
               <1>1, <1>6, <1>7, <1>8, <1>9, <1>10, RowStep, Zenon

(* Accepting an invitation.                                                *)
LEMMA AcceptStep ==
  ASSUME MembersInv, NEW i \in Invitation, AcceptTenantInvitation(i)
  PROVE  MembersInv'
<1> USE RoleAssumption, NoneAssumption
<1>2. invitations[i] \in [ws : Workspace, account : Account, role : Invitable,
                          status : {"pending", "accepted", "rejected", "cancelled"}]
  BY DEF AcceptTenantInvitation, Resolve, MembersInv, MembersTypeOK, NoInvitation, None
<1>3. PICK w \in Workspace, a \in Account, x \in Role \ {"owner"} :
        w = invitations[i].ws /\ a = invitations[i].account /\ x = invitations[i].role
  BY <1>2 DEF Invitable
<1>1. /\ invitations[i].status = "pending"
      /\ invitations' = [invitations EXCEPT ![i].status = "accepted"]
      /\ role' = [role EXCEPT ![w][a] = x]
      /\ UNCHANGED <<kind, personal, req>>
      /\ RowFree(w, a)
      /\ raced' = IF role[w][a] = "owner" THEN raced \cup {w} ELSE raced
  BY <1>3 DEF AcceptTenantInvitation, Resolve
<1>4. kind[w] # None /\ kind[w] # "personal"
  BY <1>3 DEF MembersInv, FreeUnused, PersonalUninvited
<1>5. InFlight' = InFlight /\ \A s \in InFlight' : ~ (req[s].ws = w /\ req[s].target = a)
  BY <1>1 DEF InFlight, RowFree
<1>6. \A j \in Invitation : invitations'[j].ws = invitations[j].ws
  BY <1>1, <1>2 DEF MembersInv, MembersTypeOK
<1>7. MembersTypeOK'
  <2>1. role' \in [Workspace -> [Account -> Role \cup {None}]]
    BY <1>1, <1>3 DEF MembersInv, MembersTypeOK
  <2>2. [invitations[i] EXCEPT !.status = "accepted"] \in
          [ws : Workspace, account : Account, role : Invitable,
           status : {"pending", "accepted", "rejected", "cancelled"}]
    BY <1>2
  <2>3. invitations' = [invitations EXCEPT ![i] = [invitations[i] EXCEPT !.status = "accepted"]]
    BY <1>1
  <2>4. raced' \subseteq Workspace
    BY <1>1, <1>3 DEF MembersInv, MembersTypeOK
  <2> QED BY <1>1, <2>1, <2>2, <2>3, <2>4 DEF MembersInv, MembersTypeOK
<1>8. raced \subseteq raced' /\ (role[w][a] = "owner" => w \in raced')
  BY <1>1
<1>9. /\ \A s \in Request : req'[s] = req[s] \/ req'[s] = Idle
      /\ InFlight' \subseteq InFlight
      /\ \A s \in InFlight' : req'[s] = req[s] /\ ~ (req[s].ws = w /\ req[s].target = a)
      /\ UNCHANGED <<kind, personal>>
      /\ role[w][a] = "owner" /\ x # "owner" /\ w \notin raced' =>
           /\ Owners(w) \ {a} # {}
           /\ \A s \in InFlight' : ~ (Lowers(req[s]) /\ req[s].ws = w)
      /\ kind[w] = "personal" => x = role[w][a]
      /\ x \in Role \cup {None}
  BY <1>1, <1>4, <1>5, <1>8
<1> QED BY ONLY MembersInv, <1>1, <1>4, <1>6, <1>7, <1>8, <1>9, RowStep, Zenon

(* Sending, rejecting or cancelling an invitation touches no membership.   *)
LEMMA InvitationStep ==
  ASSUME MembersInv, NEW i \in Invitation,
         \/ \E r \in Request : CreateTenantInvitation(r, i)
         \/ RejectTenantInvitation(i)
         \/ CancelTenantInvitation(i)
  PROVE  MembersInv'
<1> USE RoleAssumption, NoneAssumption
<1>1. ASSUME NEW r \in Request, CreateTenantInvitation(r, i)
      PROVE  MembersInv'
  <2>1. /\ req[r].ws \in Workspace /\ req[r].target \in Account /\ req[r].to \in Invitable
        /\ kind[req[r].ws] # "personal" /\ kind[req[r].ws] # None
    BY <1>1 DEF CreateTenantInvitation, At, MembersInv, Secured
  <2>2. /\ invitations' = [invitations EXCEPT ![i] = [ws |-> req[r].ws, account |-> req[r].target,
                                                     role |-> req[r].to, status |-> "pending"]]
        /\ req' = [req EXCEPT ![r] = Idle]
        /\ UNCHANGED <<kind, personal, role, raced>>
    BY <1>1 DEF CreateTenantInvitation, Return
  <2>3. MembersTypeOK'
    BY <2>1, <2>2 DEF RequestRecord, MembersInv, MembersTypeOK, Idle
  <2>4. InFlight' \subseteq InFlight /\ \A s \in InFlight' : s # r /\ req'[s] = req[s]
    BY <2>2 DEF InFlight, MembersInv, MembersTypeOK, Idle
  <2>5. \A s \in Request : Secured(req[s])'
    BY <2>2 DEF MembersInv, MembersTypeOK, Secured, Idle
  <2>6. RowsHeld' /\ OneLeaves'
    BY <2>4 DEF MembersInv, RowsHeld, OneLeaves, At
  <2>7. OneLowers'
    BY <2>2, <2>4 DEF MembersInv, OneLowers, Lowers, Owners
  <2>8. FreeUnused' /\ PersonalUninvited' /\ PersonalWorkspaceOwned' /\ OwnerKept'
    BY <2>1, <2>2 DEF MembersInv, MembersTypeOK, FreeUnused, PersonalUninvited,
         PersonalWorkspaceOwned, OwnerKept, Owners
  <2> QED BY <2>3, <2>5, <2>6, <2>7, <2>8 DEF MembersInv
<1>2. ASSUME NEW status \in {"rejected", "cancelled"}, Resolve(i, status),
             UNCHANGED <<kind, personal, role, req, raced>>
      PROVE  MembersInv'
  <2>1. invitations[i] \in [ws : Workspace, account : Account, role : Invitable,
                            status : {"pending", "accepted", "rejected", "cancelled"}]
    BY <1>2 DEF Resolve, MembersInv, MembersTypeOK, NoInvitation, None
  <2>2. invitations' = [invitations EXCEPT ![i] = [invitations[i] EXCEPT !.status = status]]
    BY <1>2 DEF Resolve
  <2>3. MembersTypeOK'
    BY <1>2, <2>1, <2>2 DEF MembersInv, MembersTypeOK
  <2>4. \A j \in Invitation : invitations'[j].ws = invitations[j].ws
    BY <2>1, <2>2 DEF MembersInv, MembersTypeOK
  <2>5. \A s \in Request : Secured(req[s])'
    BY <1>2 DEF MembersInv, Secured
  <2>6. RowsHeld' /\ OneLeaves' /\ OneLowers' /\ OwnerKept' /\ PersonalWorkspaceOwned'
    BY <1>2 DEF MembersInv, RowsHeld, OneLeaves, OneLowers, OwnerKept, PersonalWorkspaceOwned,
         InFlight, At, Lowers, Owners
  <2>7. FreeUnused' /\ PersonalUninvited'
    BY <1>2, <2>4 DEF MembersInv, FreeUnused, PersonalUninvited
  <2> QED BY <2>3, <2>5, <2>6, <2>7 DEF MembersInv
<1> QED BY <1>1, <1>2 DEF RejectTenantInvitation, CancelTenantInvitation

(* Every step preserves the invariant.                                     *)
LEMMA NextMembersInv == MembersInv /\ [MembersNext]_memberVars => MembersInv'
<1> SUFFICES ASSUME MembersInv, [MembersNext]_memberVars PROVE MembersInv'
  OBVIOUS
<1> USE RoleAssumption, NoneAssumption
<1>1. ASSUME NEW a \in Account, NEW w \in Workspace,
             CreateTenantForPortalAccount(a, w) \/ CreatePersonalWorkspace(a, w)
      PROVE  MembersInv'
  BY <1>1, CreateStep DEF CreateTenantForPortalAccount, CreatePersonalWorkspace
<1>2. ASSUME NEW r \in Request, NEW a \in Account, NEW w \in Workspace, PortalUser(r, a, w)
      PROVE  MembersInv'
  <2>0. PICK q : q = [Idle EXCEPT !.pc = "open", !.who = a, !.as = role[w][a], !.ws = w]
    OBVIOUS
  <2>1. role[w][a] \in Role /\ kind[w] # None
    BY <1>2 DEF PortalUser, MembersInv, MembersTypeOK, FreeUnused
  <2>2. /\ q \in RequestRecord
        /\ q.pc = "open" /\ q.ws = w
    BY <2>0, <2>1 DEF RequestRecord, Idle
  <2>3. Secured(q)
    BY <2>1, <2>2 DEF Secured
  <2>4. req' = [req EXCEPT ![r] = q] /\ UNCHANGED <<kind, personal, role, invitations, raced>>
    BY <1>2, <2>0 DEF PortalUser
  <2>9. q.pc \in {"idle", "open", "invite"}
    BY <2>1, <2>2
  <2> QED BY <2>2, <2>3, <2>4, <2>9, QuietStep
<1>3. ASSUME NEW r \in Request, NEW w \in Workspace, PlatformAdmin(r, w)
      PROVE  MembersInv'
  <2>0. PICK q : q = [Idle EXCEPT !.pc = "open", !.as = "platform_admin", !.ws = w]
    OBVIOUS
  <2>1. /\ q \in RequestRecord
        /\ q.pc = "open" /\ q.ws = w
    BY <2>0 DEF RequestRecord, Idle
  <2>2. Secured(q)
    BY <1>3, <2>1 DEF Secured, PlatformAdmin
  <2>3. req' = [req EXCEPT ![r] = q] /\ UNCHANGED <<kind, personal, role, invitations, raced>>
    BY <1>3, <2>0 DEF PlatformAdmin
  <2>9. q.pc \in {"idle", "open", "invite"}
    BY <2>1, <2>2
  <2> QED BY <2>1, <2>2, <2>3, <2>9, QuietStep
<1>4. ASSUME NEW r \in Request, Refuse(r)
      PROVE  MembersInv'
  <2>1. /\ Idle \in RequestRecord
        /\ Idle.pc \in {"idle", "open", "invite"} /\ Secured(Idle)
    BY DEF RequestRecord, Idle, Secured
  <2>2. req' = [req EXCEPT ![r] = Idle] /\ UNCHANGED <<kind, personal, role, invitations, raced>>
    BY <1>4 DEF Refuse, Return
  <2> QED BY <2>1, <2>2, QuietStep
<1>5. ASSUME NEW r \in Request, NEW a \in Account, NEW to \in Role, CheckInvitation(r, a, to)
      PROVE  MembersInv'
  <2>0. PICK q : q = [req[r] EXCEPT !.pc = "invite", !.target = a, !.to = to]
    OBVIOUS
  <2>1. req[r] \in RequestRecord
    BY DEF MembersInv, MembersTypeOK
  <2>2. /\ q \in RequestRecord
        /\ q.pc = "invite" /\ q.ws = req[r].ws /\ q.target = a /\ q.to = to
    BY <2>0, <2>1 DEF RequestRecord
  <2>3. req[r].ws \in Workspace /\ kind[req[r].ws] \notin {None, "personal"} /\ to \in Invitable
    BY <1>5 DEF CheckInvitation, At, MembersInv, Secured
  <2>4. Secured(q)
    BY <2>2, <2>3 DEF Secured
  <2>5. req' = [req EXCEPT ![r] = q] /\ UNCHANGED <<kind, personal, role, invitations, raced>>
    BY <1>5, <2>0 DEF CheckInvitation
  <2>9. q.pc \in {"idle", "open", "invite"}
    BY <2>1, <2>2
  <2> QED BY <2>2, <2>4, <2>5, <2>9, QuietStep
<1>6. ASSUME NEW r \in Request, NEW a \in Account, NEW to \in Role, BeginSetRole(r, a, to)
      PROVE  MembersInv'
  BY <1>6, BeginStep DEF BeginSetRole
<1>7. ASSUME NEW r \in Request, NEW a \in Account, BeginRemove(r, a)
      PROVE  MembersInv'
  <2>1. None # "owner"
    BY DEF None
  <2> QED BY <1>7, <2>1, BeginStep DEF BeginRemove
<1>8. ASSUME NEW r \in Request, BeginLeave(r)
      PROVE  MembersInv'
  <2>1. PICK a \in Account : a = req[r].who
    BY <1>8 DEF RequestRecord, BeginLeave, MembersInv, MembersTypeOK
  <2>2. Begin(r, "leave", a, None) /\ TenantFree(req[r].ws) /\ kind[req[r].ws] # "personal"
    BY <1>8, <2>1 DEF BeginLeave
  <2> QED BY <2>2, BeginStep
<1>9. ASSUME NEW r \in Request,
             SetPortalUserRole(r) \/ RemovePortalUserFromTenant(r) \/ LeavePortalTenant(r)
      PROVE  MembersInv'
  <2>1. r \in InFlight /\ Write(r)
    BY <1>9 DEF SetPortalUserRole, RemovePortalUserFromTenant, LeavePortalTenant, InFlight, At
  <2> QED BY <2>1, WriteStep
<1>10. CASE UNCHANGED memberVars
  BY <1>10 DEF memberVars, MembersInv, MembersTypeOK, Secured, RowsHeld, OneLeaves, OneLowers,
       FreeUnused, PersonalUninvited, PersonalWorkspaceOwned, OwnerKept, InFlight, At, Lowers, Owners
<1> QED
  BY <1>1, <1>2, <1>3, <1>4, <1>5, <1>6, <1>7, <1>8, <1>9, <1>10, AcceptStep, InvitationStep
     DEF MembersNext, Step

(* The invariant holds in every behaviour.                                 *)
THEOREM MembersSafe == MembersSpec => []MembersInv
BY InitMembersInv, NextMembersInv, PTL DEF MembersSpec

(* Types, and the uniqueness the database's indexes stand for.             *)
THEOREM MembersTyped == MembersSpec => []MembersTypeOK
<1>1. MembersInv => MembersTypeOK
  BY DEF MembersInv
<1> QED BY <1>1, MembersSafe, PTL

(* A personal workspace has its owner as its one member.                   *)
THEOREM PersonalWorkspacesOwned == MembersSpec => []PersonalWorkspaceOwned
<1>1. MembersInv => PersonalWorkspaceOwned
  BY DEF MembersInv
<1> QED BY <1>1, MembersSafe, PTL

(* A workspace in which nothing raced has an owner: the count under the    *)
(* row lock is enough for one request at a time, the lock of the tenants   *)
(* row for any number of leaves at once.                                   *)
THEOREM OwnersKept == MembersSpec => []OwnerKept
<1>1. MembersInv => OwnerKept
  BY DEF MembersInv
<1> QED BY <1>1, MembersSafe, PTL

(* The four ways in which memberships change.                              *)
LEMMA RoleChanges ==
  ASSUME [MembersNext]_memberVars
  PROVE  \/ role' = role
         \/ \E a \in Account, w \in Workspace :
              kind[w] = None /\ role' = [role EXCEPT ![w][a] = "owner"] /\ req' = req
         \/ \E i \in Invitation : AcceptTenantInvitation(i)
         \/ \E s \in InFlight : Write(s)
<1>1. ASSUME NEW r \in Request, Step(r)
      PROVE  role' = role \/ (r \in InFlight /\ Write(r))
  BY <1>1 DEF Step, CheckInvitation, CreateTenantInvitation, BeginSetRole, BeginRemove, BeginLeave,
       Begin, SetPortalUserRole, RemovePortalUserFromTenant, LeavePortalTenant, Refuse, InFlight, At
<1>2. ASSUME NEW a \in Account, NEW w \in Workspace,
             CreateTenantForPortalAccount(a, w) \/ CreatePersonalWorkspace(a, w)
      PROVE  kind[w] = None /\ role' = [role EXCEPT ![w][a] = "owner"] /\ req' = req
  BY <1>2 DEF CreateTenantForPortalAccount, CreatePersonalWorkspace
<1>3. ASSUME \/ \E r \in Request, a \in Account, w \in Workspace : PortalUser(r, a, w)
             \/ \E r \in Request, w \in Workspace : PlatformAdmin(r, w)
             \/ \E i \in Invitation : RejectTenantInvitation(i) \/ CancelTenantInvitation(i)
             \/ UNCHANGED memberVars
      PROVE  role' = role
  BY <1>3 DEF PortalUser, PlatformAdmin, RejectTenantInvitation, CancelTenantInvitation, memberVars
<1> QED BY <1>1, <1>2, <1>3 DEF MembersNext

(* A tenant admin's request leaves the owners alone when it commits.       *)
THEOREM AdminsLeaveOwners == MembersSpec => AdminsLeaveOwnersAlone
<1>1. ASSUME MembersInv, [MembersNext]_memberVars
      PROVE  \A r \in InFlight : req[r].as = "tenant_admin" /\ ~ At(r, "leave") /\ req'[r] = Idle
               => \A w \in Workspace : Owners(w)' = Owners(w)
  <2>1. SUFFICES ASSUME NEW r \in InFlight, req[r].as = "tenant_admin", ~ At(r, "leave"),
                        req'[r] = Idle, NEW w \in Workspace
                 PROVE  Owners(w)' = Owners(w)
    OBVIOUS
  <2>2. r \in Request /\ req[r] # Idle
    BY DEF InFlight, Idle
  <2>3. CASE role' = role
    BY <2>3 DEF Owners
  <2>4. req' # req
    BY <2>1, <2>2
  <2>5. ASSUME NEW s \in InFlight, Write(s) PROVE Owners(w)' = Owners(w)
    <3>1. s = r
      BY <2>1, <2>2, <2>5, <1>1 DEF Write, Return, MembersInv, MembersTypeOK, InFlight
    <3>2. /\ role' = [role EXCEPT ![req[r].ws][req[r].target] = req[r].to]
          /\ role[req[r].ws][req[r].target] # "owner" /\ req[r].to # "owner"
      BY <2>1, <2>5, <3>1, <1>1 DEF Write, MembersInv, Secured, InFlight, At
    <3>3. \A a \in Account : role'[w][a] = "owner" <=> role[w][a] = "owner"
      BY <3>2, <1>1 DEF MembersInv, MembersTypeOK
    <3> QED BY <3>3 DEF Owners
  <2> QED BY <1>1, <2>3, <2>4, <2>5, RoleChanges DEF AcceptTenantInvitation
<1> QED BY <1>1, MembersSafe, PTL DEF MembersSpec, AdminsLeaveOwnersAlone

(* An account joins an existing workspace by a pending invitation only.    *)
THEOREM JoinersInvited == MembersSpec => JoinsByInvitation
<1>1. ASSUME MembersInv, [MembersNext]_memberVars
      PROVE  \A w \in Workspace, a \in Account :
               kind[w] # None /\ role[w][a] = None /\ role'[w][a] # None =>
                 \E i \in Invitation :
                   /\ invitations[i] = [ws |-> w, account |-> a, role |-> role'[w][a],
                                        status |-> "pending"]
                   /\ invitations'[i].status = "accepted"
  <2>1. SUFFICES ASSUME NEW w \in Workspace, NEW a \in Account, kind[w] # None,
                        role[w][a] = None, role'[w][a] # None
                 PROVE  \E i \in Invitation :
                   /\ invitations[i] = [ws |-> w, account |-> a, role |-> role'[w][a],
                                        status |-> "pending"]
                   /\ invitations'[i].status = "accepted"
    OBVIOUS
  <2>2. role' # role
    BY <2>1
  <2>3. ASSUME NEW v \in Workspace, NEW b \in Account, kind[v] = None,
               role' = [role EXCEPT ![v][b] = "owner"]
        PROVE  FALSE
    BY <1>1, <2>1, <2>3 DEF MembersInv, MembersTypeOK
  <2>4. ASSUME NEW s \in InFlight, Write(s) PROVE FALSE
    <3>1. role[req[s].ws][req[s].target] # None
      BY <1>1 DEF MembersInv, Secured, InFlight
    <3>2. role' = [role EXCEPT ![req[s].ws][req[s].target] = req[s].to]
      BY <2>4 DEF Write
    <3> QED BY <1>1, <2>1, <3>1, <3>2 DEF MembersInv, MembersTypeOK
  <2>5. PICK i \in Invitation : AcceptTenantInvitation(i)
    BY <1>1, <2>2, <2>3, <2>4, RoleChanges
  <2>6. invitations[i] \in [ws : Workspace, account : Account, role : Invitable,
                            status : {"pending", "accepted", "rejected", "cancelled"}]
    BY <1>1, <2>5 DEF AcceptTenantInvitation, Resolve, MembersInv, MembersTypeOK, NoInvitation, None
  <2>7. /\ role' = [role EXCEPT ![invitations[i].ws][invitations[i].account] = invitations[i].role]
        /\ invitations[i].status = "pending"
        /\ invitations' = [invitations EXCEPT ![i] = [invitations[i] EXCEPT !.status = "accepted"]]
    BY <2>5 DEF AcceptTenantInvitation, Resolve
  <2>8. w = invitations[i].ws /\ a = invitations[i].account /\ role'[w][a] = invitations[i].role
    BY <1>1, <2>1, <2>6, <2>7 DEF MembersInv, MembersTypeOK
  <2>9. invitations'[i].status = "accepted"
    BY <1>1, <2>6, <2>7 DEF MembersInv, MembersTypeOK
  <2>10. invitations[i] = [ws |-> w, account |-> a, role |-> role'[w][a], status |-> "pending"]
    BY <2>6, <2>7, <2>8
  <2> QED BY <2>9, <2>10
<1> QED BY <1>1, MembersSafe, PTL DEF MembersSpec, JoinsByInvitation
=============================================================================

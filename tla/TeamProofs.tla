----------------------------- MODULE TeamProofs -----------------------------
(***************************************************************************)
(* Proofs about Team, for any people, shops, roles and invites, and any    *)
(* number of requests at a time.                                           *)
(***************************************************************************)
EXTENDS Team, TLAPS

-----------------------------------------------------------------------------

\* The types, without those of the history that only Noted writes.
RowsOK ==
    /\ shop \in [Shops -> {"none", "open", "served"}]
    /\ role \in [Shops -> [RoleIds -> Role \cup {NoRole}]]
    /\ member \in [Shops -> [Users -> Membership \cup {NoMember}]]
    /\ invite \in [Tokens -> [shop : Shops, state : {"active", "dead"}] \cup {NoInvite}]
    /\ req \in [Sessions -> Request \cup {Idle}]
    /\ cut \subseteq Shops
    /\ late \in [Tokens -> SUBSET Sessions]

\* What the database guarantees of the rows that a running request holds.
Holding(n) ==
    LET q == req[n]
    IN  /\ q.op = "trial" => shop[q.user] # "none"
        /\ q.op = "join" =>
              /\ invite[q.token] # NoInvite /\ invite[q.token].shop = q.shop
              /\ Active(q.token) \/ n \in late[q.token]
        /\ q.op = "assign" /\ q.role # q.seen.role => HasRole(q.shop, q.role)
        /\ q.op \in {"assign", "permit"} => IsMember(q.shop, q.user)

\* Only a shop that exists has invites, and members.
Opened == \A t \in Tokens : invite[t] # NoInvite => shop[invite[t].shop] # "none"
Staffed == \A s \in Shops, u \in Users : IsMember(s, u) => shop[s] # "none"

TeamInv ==
    /\ RowsOK
    /\ OneOwner
    /\ RolesResolve
    /\ Opened
    /\ Staffed
    /\ \A n \in Sessions : Holding(n)

\* A row has other values than the markers of its absence.
LEMMA Markers ==
    /\ \A x \in Role : x # NoRole
    /\ \A m \in Membership : m.kind # "none"
    /\ NoMember.kind = "none"
    /\ \A s \in Shops : [shop |-> s, state |-> "active"] # NoInvite
BY NameAssumption DEF Role, Names, NoRole, Membership, NoMember, NoInvite

LEMMA RequestFields ==
    ASSUME RowsOK, NEW n \in Sessions
    PROVE  LET q == req[n] IN
           /\ q.op \in {"open", "trial"} => q.user \in Openers
           /\ q.op = "join" => q.user \in Users /\ q.shop \in Shops /\ q.token \in Tokens
           /\ q.op = "assign" => /\ q.shop \in Shops /\ q.user \in Users /\ q.role \in RoleIds
                                 /\ q.seen \in Membership
           /\ q.op = "permit" => /\ q.shop \in Shops /\ q.user \in Users
                                 /\ q.change \in Changes /\ q.seen \in Membership
           /\ q.op = "drop" => q.shop \in Shops /\ q.role \in Custom
BY DEF RowsOK, Request, Idle

\* Whatever ends only ends.
LEMMA EndedType ==
    ASSUME RowsOK, NEW N, Ended(N)
    PROVE  /\ req' \in [Sessions -> Request \cup {Idle}]
           /\ late' \in [Tokens -> SUBSET Sessions]
BY DEF RowsOK, Ended

LEMMA BeginType ==
    ASSUME RowsOK, NEW n \in Sessions, NEW q \in Request, Begin(n, q)
    PROVE  RowsOK'
BY DEF RowsOK, Begin

LEMMA MergedType ==
    ASSUME NEW now \in [Perms -> Override], NEW seen \in [Perms -> Override],
           NEW want \in [Perms -> Override]
    PROVE  Merged(now, seen, want) \in [Perms -> Override]
BY DEF Merged

LEMMA ChangeType ==
    ASSUME NEW c \in Changes, NEW over \in [Perms -> Override]
    PROVE  Overridden(over, c) \in [Perms -> Override]
BY DEF Changes, Overridden

LEMMA SystemRolesType == SystemRoles \in [RoleIds -> Role \cup {NoRole}]
BY DEF SystemRoles, RoleIds, Role, Names

-----------------------------------------------------------------------------
(* Types.  The rows that a request is about to write have been there since *)
(* it loaded them, which Holding says.                                     *)

LEMMA TypeInit == Init => TeamInv
<1> SUFFICES ASSUME Init PROVE TeamInv
  OBVIOUS
<1>1. RowsOK
  BY DEF Init, RowsOK
<1>2. OneOwner /\ RolesResolve
  BY DEF Init, OneOwner, RolesResolve, IsMember, NoMember
<1>3. Opened /\ Staffed /\ \A n \in Sessions : Holding(n)
  BY DEF Init, Opened, Staffed, IsMember, NoMember, Holding, Idle
<1> QED
  BY <1>1, <1>2, <1>3 DEF TeamInv

LEMMA ArriveType ==
    ASSUME RowsOK, NEW n \in Sessions, Arrive(n)
    PROVE  RowsOK'
<1>1. ASSUME NEW u \in Users, NEW t \in Tokens \cup {NoToken}, Enter(n, u, t)
      PROVE  RowsOK'
  <2>1. CASE u \in Openers /\ Begin(n, [op |-> "open", user |-> u])
    <3>1. [op |-> "open", user |-> u] \in Request
      BY <2>1 DEF Request
    <3> QED
      BY <2>1, <3>1, BeginType
  <2>2. CASE /\ t # NoToken /\ Active(t)
             /\ Begin(n, [op |-> "join", user |-> u, shop |-> invite[t].shop, token |-> t])
    <3>1. t \in Tokens /\ invite[t].shop \in Shops
      BY <2>2 DEF Active, RowsOK, NoInvite
    <3>2. [op |-> "join", user |-> u, shop |-> invite[t].shop, token |-> t] \in Request
      BY <3>1 DEF Request
    <3> QED
      BY <2>2, <3>2, BeginType
  <2> QED
    BY <1>1, <2>1, <2>2 DEF Enter, Admits
<1>2. ASSUME NEW s \in Shops, NEW r \in RoleIds, DropRole(n, s, r)
      PROVE  RowsOK'
  <2>1. [op |-> "drop", shop |-> s, role |-> r] \in Request
    BY <1>2 DEF DropRole, Request, RoleIds
  <2> QED
    BY <1>2, <2>1, BeginType DEF DropRole
<1>3. ASSUME NEW s \in Shops, NEW u \in Users, member[s][u].kind = "manager"
      PROVE  member[s][u] \in Membership
  BY <1>3 DEF RowsOK, NoMember
<1>4. ASSUME NEW s \in Shops, NEW u \in Users, NEW r \in RoleIds, Assign(n, s, u, r)
      PROVE  RowsOK'
  <2>1. [op |-> "assign", shop |-> s, user |-> u, role |-> r, seen |-> member[s][u]] \in Request
    BY <1>3, <1>4 DEF Assign, Request
  <2> QED
    BY <1>4, <2>1, BeginType DEF Assign
<1>5. ASSUME NEW s \in Shops, NEW u \in Users, NEW c \in Changes, Permit(n, s, u, c)
      PROVE  RowsOK'
  <2>1. [op |-> "permit", shop |-> s, user |-> u, change |-> c, seen |-> member[s][u]] \in Request
    BY <1>3, <1>5 DEF Permit, Request
  <2> QED
    BY <1>5, <2>1, BeginType DEF Permit
<1> QED
  BY <1>1, <1>2, <1>4, <1>5 DEF Arrive

LEMMA FinishType ==
    ASSUME RowsOK, NEW n \in Sessions, Holding(n), Finish(n)
    PROVE  RowsOK'
<1> DEFINE q == req[n]
<1>1. CASE Join(n)
  <2>1. Newcomer \in Membership
    BY DEF Newcomer, Membership, RoleIds, System, NoMember, Override
  <2>2. member' \in [Shops -> [Users -> Membership \cup {NoMember}]]
    BY <1>1, <2>1, RequestFields DEF Join, RowsOK
  <2> QED
    BY <1>1, <2>2, EndedType DEF Join, RowsOK
<1>2. CASE Open(n)
  <2>1. Founder \in Membership
    BY DEF Founder, Membership, RoleIds, System, NoMember, Override
  <2>2. q \in [op : {"open", "trial"}, user : Openers]
    BY <1>2 DEF Open, RowsOK, Request, Idle
  <2>3. [q EXCEPT !.op = "trial"] \in Request
    BY <2>2 DEF Request
  <2>4. q.user \in Users /\ q.user \in Shops
    BY <2>2, UserAssumption DEF Shops
  <2>5. member' \in [Shops -> [Users -> Membership \cup {NoMember}]]
    BY <1>2, <2>1, <2>4 DEF Open, RowsOK
  <2>6. shop' \in [Shops -> {"none", "open", "served"}]
        /\ role' \in [Shops -> [RoleIds -> Role \cup {NoRole}]]
    BY <1>2, <2>4, SystemRolesType DEF Open, RowsOK
  <2>7. req' \in [Sessions -> Request \cup {Idle}]
    BY <1>2, <2>3 DEF Open, RowsOK
  <2> QED
    BY <1>2, <2>5, <2>6, <2>7 DEF Open, RowsOK
<1>3. CASE OpenedAlready(n)
  BY <1>3, EndedType DEF OpenedAlready, RowsOK
<1>4. CASE StartTrial(n)
  <2>1. shop' \in [Shops -> {"none", "open", "served"}]
    BY <1>4, RequestFields DEF StartTrial, RowsOK, Shops
  <2> QED
    BY <1>4, <2>1, EndedType DEF StartTrial, RowsOK
<1>5. CASE DropRoleCommit(n)
  <2>1. role' \in [Shops -> [RoleIds -> Role \cup {NoRole}]]
    BY <1>5 DEF DropRoleCommit, RowsOK
  <2> QED
    BY <1>5, <2>1, EndedType DEF DropRoleCommit, RowsOK
<1>6. CASE AssignCommit(n)
  <2>1. q.op = "assign"
    BY <1>6 DEF AssignCommit
  <2>2. /\ q.shop \in Shops /\ q.user \in Users /\ q.role \in RoleIds
        /\ q.seen \in Membership
    BY <2>1, RequestFields
  <2> DEFINE now == member[q.shop][q.user]
             then == [kind |-> now.kind,
                      role |-> IF q.role = q.seen.role THEN now.role ELSE q.role,
                      over |-> Merged(now.over, q.seen.over, NoMember.over)]
  <2>3. now \in Membership
    BY <2>1, <2>2 DEF Holding, IsMember, RowsOK, NoMember
  <2>4. NoMember.over \in [Perms -> Override]
    BY DEF NoMember, Override
  <2>5. Merged(now.over, q.seen.over, NoMember.over) \in [Perms -> Override]
    BY <2>2, <2>3, <2>4, MergedType DEF Membership
  <2>6. then \in Membership
    BY <2>2, <2>3, <2>5 DEF Membership
  <2>7. member' = [member EXCEPT ![q.shop][q.user] = then]
    BY <1>6 DEF AssignCommit
  <2> HIDE DEF then, now
  <2>8. member' \in [Shops -> [Users -> Membership \cup {NoMember}]]
    BY <2>2, <2>6, <2>7 DEF RowsOK
  <2> QED
    BY <1>6, <2>8, EndedType DEF AssignCommit, RowsOK
<1>7. CASE PermitCommit(n)
  <2>1. q.op = "permit"
    BY <1>7 DEF PermitCommit
  <2>2. /\ q.shop \in Shops /\ q.user \in Users /\ q.change \in Changes
        /\ q.seen \in Membership
    BY <2>1, RequestFields
  <2> DEFINE now == member[q.shop][q.user]
             over == Merged(now.over, q.seen.over, Overridden(q.seen.over, q.change))
  <2>3. now \in Membership
    BY <2>1, <2>2 DEF Holding, IsMember, RowsOK, NoMember
  <2>4. Overridden(q.seen.over, q.change) \in [Perms -> Override]
    BY <2>2, ChangeType DEF Membership
  <2>5. over \in [Perms -> Override]
    BY <2>2, <2>3, <2>4, MergedType DEF Membership
  <2>6. [now EXCEPT !.over = over] \in Membership
    <3> HIDE DEF over, now
    <3> QED
      BY <2>3, <2>5 DEF Membership
  <2>7. member' = [member EXCEPT ![q.shop][q.user] = [now EXCEPT !.over = over]]
    BY <1>7, <2>2 DEF PermitCommit, RowsOK
  <2> HIDE DEF now, over
  <2>8. member' \in [Shops -> [Users -> Membership \cup {NoMember}]]
    BY <2>2, <2>6, <2>7 DEF RowsOK
  <2> QED
    BY <1>7, <2>8, EndedType DEF PermitCommit, RowsOK
<1> QED
  BY <1>1, <1>2, <1>3, <1>4, <1>5, <1>6, <1>7 DEF Finish

LEMMA OtherType ==
    ASSUME RowsOK, AtOnce \/ \E n \in Sessions : Die(n)
    PROVE  RowsOK'
<1>1. ASSUME NEW s \in Shops, NEW t \in Tokens, CreateInvite(s, t)
      PROVE  RowsOK'
  BY <1>1 DEF CreateInvite, RowsOK
<1>2. ASSUME NEW s \in Shops, NEW r \in RoleIds, NEW new \in Role,
             CreateRole(s, r, new) \/ UpdateRole(s, r, new)
      PROVE  RowsOK'
  <2>1. role' = [role EXCEPT ![s][r] = new]
    BY <1>2 DEF CreateRole, UpdateRole
  <2>2. role' \in [Shops -> [RoleIds -> Role \cup {NoRole}]]
    BY <2>1 DEF RowsOK
  <2> QED
    BY <1>2, <2>2 DEF CreateRole, UpdateRole, RowsOK
<1>3. ASSUME NEW s \in Shops, NEW u \in Users, RemoveMember(s, u)
      PROVE  RowsOK'
  BY <1>3, EndedType DEF RemoveMember, RowsOK
<1>4. ASSUME NEW t \in Tokens, InviteEnds(t)
      PROVE  RowsOK'
  <2>1. invite[t] \in [shop : Shops, state : {"active", "dead"}]
    BY <1>4 DEF InviteEnds, Active, NoInvite, RowsOK
  <2>2. [invite[t] EXCEPT !.state = "dead"] \in [shop : Shops, state : {"active", "dead"}]
    BY <2>1
  <2>3. invite' = [invite EXCEPT ![t] = [invite[t] EXCEPT !.state = "dead"]]
    BY <1>4 DEF InviteEnds
  <2>4. invite' \in [Tokens -> [shop : Shops, state : {"active", "dead"}] \cup {NoInvite}]
    BY <2>2, <2>3 DEF RowsOK
  <2>5. late' \in [Tokens -> SUBSET Sessions]
    BY <1>4 DEF InviteEnds, RowsOK
  <2> QED
    BY <1>4, <2>4, <2>5 DEF InviteEnds, RowsOK
<1>5. ASSUME NEW n \in Sessions, Die(n)
      PROVE  RowsOK'
  <2>1. cut' \subseteq Shops
    BY <1>5, RequestFields DEF Die, RowsOK, Shops
  <2> QED
    BY <1>5, <2>1, EndedType DEF Die, RowsOK
<1> QED
  BY <1>1, <1>2, <1>3, <1>4, <1>5 DEF AtOnce

LEMMA TypeStep == TeamInv /\ [Next]_vars => RowsOK'
<1>1. ASSUME TeamInv, UNCHANGED vars
      PROVE  RowsOK'
  BY <1>1 DEF TeamInv, RowsOK, vars
<1>2. ASSUME TeamInv, NEW n \in Sessions, Arrive(n) \/ Finish(n)
      PROVE  RowsOK'
  BY <1>2, ArriveType, FinishType DEF TeamInv
<1> QED
  BY <1>1, <1>2, OtherType DEF Next, TeamInv

-----------------------------------------------------------------------------
(* What a step does to the rows: requests that arrive do nothing to them,  *)
(* and each that ends writes a few.                                        *)

LEMMA ArriveBegins ==
    ASSUME NEW n \in Sessions, Arrive(n)
    PROVE  UNCHANGED <<shop, role, member, invite, cut, late>>
BY DEF Arrive, Enter, DropRole, Assign, Permit, Begin

\* A shop that is open stays so.
LEMMA ShopsStay ==
    ASSUME TeamInv, [Next]_vars, NEW s \in Shops, shop[s] # "none"
    PROVE  shop'[s] # "none"
<1>1. ASSUME NEW n \in Sessions, Finish(n)
      PROVE  shop'[s] # "none"
  BY <1>1 DEF Finish, Join, Open, OpenedAlready, StartTrial, DropRoleCommit,
              AssignCommit, PermitCommit, TeamInv, RowsOK
<1>2. CASE AtOnce
  BY <1>2 DEF AtOnce, CreateInvite, CreateRole, UpdateRole, RemoveMember, InviteEnds
<1> QED
  BY <1>1, <1>2, ArriveBegins DEF Next, Die, vars

\* Who may do what an owner does is the owner of a shop that exists.
LEMMA OwnedIsOpen ==
    ASSUME TeamInv, NEW s \in Shops, OwnerOf(s)
    PROVE  shop[s] # "none"
BY DEF TeamInv, OneOwner, OwnerOf

\* The two that write a membership which is there: neither moves its kind.
LEMMA EditsKeepKind ==
    ASSUME RowsOK, NEW n \in Sessions, AssignCommit(n) \/ PermitCommit(n)
    PROVE  /\ req[n].op \in {"assign", "permit"}
           /\ \A s \in Shops, u \in Users :
                 /\ member'[s][u].kind = member[s][u].kind
                 /\ s # req[n].shop \/ u # req[n].user => member'[s][u] = member[s][u]
<1>1. CASE AssignCommit(n)
  BY <1>1, RequestFields DEF AssignCommit, RowsOK
<1>2. CASE PermitCommit(n)
  <2>1. req[n].shop \in Shops /\ req[n].user \in Users /\ req[n].op = "permit"
    BY <1>2, RequestFields DEF PermitCommit
  <2>2. PICK over : member' = [member EXCEPT ![req[n].shop][req[n].user].over = over]
    BY <1>2 DEF PermitCommit
  <2>3. \A m \in Membership \cup {NoMember} : [m EXCEPT !.over = over].kind = m.kind
    BY DEF Membership, NoMember
  <2> QED
    BY <2>1, <2>2, <2>3 DEF RowsOK
<1> QED
  BY <1>1, <1>2

LEMMA OwnersStep == TeamInv /\ [Next]_vars => OneOwner'
<1> SUFFICES ASSUME TeamInv, [Next]_vars,
                    NEW s \in Shops, NEW u \in Users
             PROVE  member'[s][u].kind = "owner" <=> shop'[s] # "none" /\ u = s
  BY DEF OneOwner
<1>0. RowsOK /\ (member[s][u].kind = "owner" <=> shop[s] # "none" /\ u = s)
  BY DEF TeamInv, OneOwner
<1>1. ASSUME NEW n \in Sessions, Join(n)
      PROVE  member'[s][u].kind = "owner" <=> shop'[s] # "none" /\ u = s
  <2>1. /\ req[n].shop \in Shops /\ req[n].user \in Users /\ req[n].token \in Tokens
        /\ invite[req[n].token] # NoInvite /\ invite[req[n].token].shop = req[n].shop
    BY <1>1, RequestFields DEF Join, TeamInv, Holding
  <2>2. shop[req[n].shop] # "none"
    BY <2>1 DEF TeamInv, Opened
  <2>3. CASE IsMember(req[n].shop, req[n].user) \/ s # req[n].shop \/ u # req[n].user
    BY <1>0, <1>1, <2>1, <2>3 DEF Join, RowsOK
  <2>4. CASE ~IsMember(req[n].shop, req[n].user) /\ s = req[n].shop /\ u = req[n].user
    BY <1>0, <1>1, <2>1, <2>2, <2>4 DEF Join, RowsOK, Newcomer, IsMember
  <2> QED
    BY <2>3, <2>4
<1>2. ASSUME NEW n \in Sessions, Open(n)
      PROVE  member'[s][u].kind = "owner" <=> shop'[s] # "none" /\ u = s
  <2>1. req[n].user \in Shops /\ req[n].user \in Users
    BY <1>2, RequestFields, UserAssumption DEF Open, TeamInv, Shops
  <2> QED
    BY <1>0, <1>2, <2>1 DEF Open, RowsOK, Founder
<1>3. ASSUME NEW n \in Sessions, StartTrial(n)
      PROVE  member'[s][u].kind = "owner" <=> shop'[s] # "none" /\ u = s
  <2>1. req[n].user \in Shops /\ shop[req[n].user] # "none"
    BY <1>3, RequestFields DEF StartTrial, TeamInv, Holding, Shops
  <2> QED
    BY <1>0, <1>3, <2>1 DEF StartTrial, RowsOK
<1>4. ASSUME NEW n \in Sessions, AssignCommit(n) \/ PermitCommit(n)
      PROVE  member'[s][u].kind = "owner" <=> shop'[s] # "none" /\ u = s
  BY <1>0, <1>4, EditsKeepKind DEF AssignCommit, PermitCommit
<1>5. ASSUME NEW s2 \in Shops, NEW u2 \in Users, RemoveMember(s2, u2)
      PROVE  member'[s][u].kind = "owner" <=> shop'[s] # "none" /\ u = s
  BY <1>0, <1>5 DEF RemoveMember, RowsOK, NoMember
<1>6. CASE UNCHANGED <<shop, member>>
  BY <1>0, <1>6
<1> QED
  BY <1>1, <1>2, <1>3, <1>4, <1>5, <1>6, ArriveBegins
     DEF Next, AtOnce, Finish, OpenedAlready, DropRoleCommit, Die, CreateInvite,
         CreateRole, UpdateRole, InviteEnds, vars

LEMMA OpenedStep == TeamInv /\ [Next]_vars => Opened'
<1> SUFFICES ASSUME TeamInv, [Next]_vars,
                    NEW t \in Tokens, invite'[t] # NoInvite
             PROVE  shop'[invite'[t].shop] # "none"
  BY DEF Opened
<1>1. ASSUME invite[t] # NoInvite, invite'[t].shop = invite[t].shop
      PROVE  shop'[invite'[t].shop] # "none"
  BY <1>1, ShopsStay DEF TeamInv, RowsOK, Opened
<1>2. ASSUME NEW s \in Shops, NEW t2 \in Tokens, CreateInvite(s, t2)
      PROVE  shop'[invite'[t].shop] # "none"
  BY <1>1, <1>2, OwnedIsOpen DEF CreateInvite, TeamInv, RowsOK
<1>3. ASSUME NEW t2 \in Tokens, InviteEnds(t2)
      PROVE  shop'[invite'[t].shop] # "none"
  <2>1. invite[t2] \in [shop : Shops, state : {"active", "dead"}] /\ invite[t2] # NoInvite
    BY <1>3 DEF InviteEnds, Active, NoInvite, TeamInv, RowsOK
  <2>2. [invite[t2] EXCEPT !.state = "dead"].shop = invite[t2].shop
    BY <2>1
  <2>3. invite' = [invite EXCEPT ![t2] = [invite[t2] EXCEPT !.state = "dead"]]
    BY <1>3 DEF InviteEnds
  <2> QED
    BY <1>1, <2>1, <2>2, <2>3 DEF TeamInv, RowsOK
<1>4. CASE UNCHANGED invite
  BY <1>1, <1>4
<1> QED
  BY <1>2, <1>3, <1>4, ArriveBegins
     DEF Next, AtOnce, Finish, Join, Open, OpenedAlready, StartTrial, DropRoleCommit,
         AssignCommit, PermitCommit, Die, CreateRole, UpdateRole, RemoveMember, vars

\* What a guest's request knows of the shop it joins.
LEMMA GuestIsExpected ==
    ASSUME TeamInv, NEW n \in Sessions, Join(n)
    PROVE  LET q == req[n] IN
           /\ q.shop \in Shops /\ q.user \in Users /\ q.token \in Tokens
           /\ invite[q.token].shop = q.shop
           /\ Active(q.token) \/ n \in late[q.token]
           /\ shop[q.shop] # "none" /\ HasRole(q.shop, "manager")
BY RequestFields DEF Join, TeamInv, Holding, Opened, RolesResolve, System

LEMMA StaffedStep == TeamInv /\ [Next]_vars => Staffed'
<1> SUFFICES ASSUME TeamInv, [Next]_vars,
                    NEW s \in Shops, NEW u \in Users, IsMember(s, u)'
             PROVE  shop'[s] # "none"
  BY DEF Staffed
<1>0. IsMember(s, u) => shop'[s] # "none"
  BY ShopsStay DEF TeamInv, Staffed
<1>1. ASSUME NEW n \in Sessions, Join(n)
      PROVE  shop'[s] # "none"
  BY <1>0, <1>1, GuestIsExpected DEF Join, IsMember, TeamInv, RowsOK
<1>2. ASSUME NEW n \in Sessions, Open(n)
      PROVE  shop'[s] # "none"
  <2>1. req[n].user \in Shops
    BY <1>2, RequestFields DEF Open, TeamInv, Shops
  <2> QED
    BY <1>0, <1>2, <2>1 DEF Open, IsMember, TeamInv, RowsOK
<1>3. ASSUME NEW n \in Sessions, AssignCommit(n) \/ PermitCommit(n)
      PROVE  shop'[s] # "none"
  BY <1>0, <1>3, EditsKeepKind DEF IsMember, TeamInv
<1>4. ASSUME NEW s2 \in Shops, NEW u2 \in Users, RemoveMember(s2, u2)
      PROVE  shop'[s] # "none"
  BY <1>0, <1>4 DEF RemoveMember, TeamInv, RowsOK, NoMember, IsMember
<1>5. CASE UNCHANGED member
  BY <1>0, <1>5 DEF IsMember
<1> QED
  BY <1>1, <1>2, <1>3, <1>4, <1>5, ArriveBegins
     DEF Next, AtOnce, Finish, OpenedAlready, StartTrial, DropRoleCommit, Die,
         CreateInvite, CreateRole, UpdateRole, InviteEnds, vars

-----------------------------------------------------------------------------
(* Roles.                                                                  *)

\* Roles that are there stay, but for one that is deleted while nobody has it.
LEMMA RolesStay ==
    ASSUME TeamInv, [Next]_vars, NEW s \in Shops, NEW r \in RoleIds, HasRole(s, r),
           shop[s] # "none",
           \A n \in Sessions : DropRoleCommit(n) =>
               s # req[n].shop \/ r # req[n].role \/ Holders(s, r) # {}
    PROVE  HasRole(s, r)'
<1>1. ASSUME NEW n \in Sessions, Open(n)
      PROVE  role'[s] = role[s]
  BY <1>1 DEF Open, TeamInv, RowsOK
<1>2. ASSUME NEW n \in Sessions, DropRoleCommit(n)
      PROVE  role'[s][r] = role[s][r]
  BY <1>2, RequestFields DEF DropRoleCommit, TeamInv, RowsOK, RoleIds
<1>3. ASSUME NEW s2 \in Shops, NEW r2 \in RoleIds, NEW new \in Role,
             CreateRole(s2, r2, new) \/ UpdateRole(s2, r2, new)
      PROVE  HasRole(s, r)'
  <2>1. role' = [role EXCEPT ![s2][r2] = new] /\ new # NoRole
    BY <1>3, Markers DEF CreateRole, UpdateRole
  <2> QED
    BY <2>1 DEF HasRole, TeamInv, RowsOK
<1>4. CASE UNCHANGED role
  BY <1>4 DEF HasRole
<1> QED
  BY <1>1, <1>2, <1>3, <1>4, ArriveBegins
     DEF HasRole, Next, AtOnce, Finish, Join, OpenedAlready, StartTrial, AssignCommit,
         PermitCommit, Die, CreateInvite, RemoveMember, InviteEnds, vars

LEMMA SystemRolesStep ==
    ASSUME TeamInv, [Next]_vars, NEW s \in Shops, NEW r \in System, shop'[s] # "none"
    PROVE  HasRole(s, r)'
<1>1. CASE shop[s] # "none"
  <2>1. HasRole(s, r) /\ r \in RoleIds
    BY <1>1 DEF TeamInv, RolesResolve, RoleIds
  <2>2. \A n \in Sessions : DropRoleCommit(n) => r # req[n].role
    BY RequestFields, RoleAssumption DEF DropRoleCommit, TeamInv, System
  <2> QED
    BY <1>1, <2>1, <2>2, RolesStay
<1>2. CASE shop[s] = "none"
  <2>1. ASSUME NEW n \in Sessions, Open(n)
        PROVE  HasRole(s, r)'
    <3>1. req[n].user \in Shops
      BY <2>1, RequestFields DEF Open, TeamInv, Shops
    <3>2. req[n].user = s
      BY <1>2, <2>1, <3>1 DEF Open, TeamInv, RowsOK
    <3>3. role'[s] = SystemRoles
      BY <2>1, <3>2 DEF Open, TeamInv, RowsOK
    <3>4. SystemRoles[r].name # "none"
      BY DEF SystemRoles, RoleIds, System
    <3> QED
      BY <3>3, <3>4 DEF HasRole, NoRole
  <2>2. ASSUME NEW n \in Sessions, StartTrial(n)
        PROVE  FALSE
    <3>1. req[n].user \in Shops /\ shop[req[n].user] # "none"
      BY <2>2, RequestFields DEF StartTrial, TeamInv, Holding, Shops
    <3> QED
      BY <1>2, <2>2, <3>1 DEF StartTrial, TeamInv, RowsOK
  <2> QED
    BY <1>2, <2>1, <2>2, ArriveBegins
       DEF Next, AtOnce, Finish, Join, OpenedAlready, DropRoleCommit, AssignCommit,
           PermitCommit, Die, CreateInvite, CreateRole, UpdateRole, RemoveMember,
           InviteEnds, vars
<1> QED
  BY <1>1, <1>2

\* The role of one who stays: the one held before, or the one an assignment
\* brings.
LEMMA HeldRole ==
    ASSUME TeamInv, [Next]_vars, NEW s \in Shops, NEW u \in Users,
           IsMember(s, u), IsMember(s, u)'
    PROVE  \/ member'[s][u].role = member[s][u].role
           \/ \E n \in Sessions :
                 /\ AssignCommit(n) /\ req[n].shop = s /\ req[n].user = u
                 /\ member'[s][u].role = req[n].role /\ req[n].role # req[n].seen.role
<1>1. ASSUME NEW n \in Sessions, Join(n)
      PROVE  member'[s][u] = member[s][u]
  BY <1>1, GuestIsExpected DEF Join, IsMember, TeamInv, RowsOK
<1>2. ASSUME NEW n \in Sessions, Open(n)
      PROVE  member'[s][u] = member[s][u]
  <2>1. req[n].user \in Shops /\ req[n].user \in Users
    BY <1>2, RequestFields, UserAssumption DEF Open, TeamInv, Shops
  <2>2. s # req[n].user
    BY <1>2 DEF Open, TeamInv, Staffed
  <2> QED
    BY <1>2, <2>1, <2>2 DEF Open, TeamInv, RowsOK
<1>3. ASSUME NEW n \in Sessions, AssignCommit(n)
      PROVE  \/ member'[s][u].role = member[s][u].role
             \/ /\ req[n].shop = s /\ req[n].user = u
                /\ member'[s][u].role = req[n].role /\ req[n].role # req[n].seen.role
  BY <1>3, RequestFields DEF AssignCommit, TeamInv, RowsOK
<1>4. ASSUME NEW n \in Sessions, PermitCommit(n)
      PROVE  member'[s][u].role = member[s][u].role
  <2>1. req[n].shop \in Shops /\ req[n].user \in Users
    BY <1>4, RequestFields DEF PermitCommit, TeamInv
  <2>2. PICK over : member' = [member EXCEPT ![req[n].shop][req[n].user].over = over]
    BY <1>4 DEF PermitCommit
  <2>3. [member[s][u] EXCEPT !.over = over].role = member[s][u].role
    BY DEF Membership, NoMember, TeamInv, RowsOK
  <2> QED
    BY <2>1, <2>2, <2>3 DEF TeamInv, RowsOK
<1>5. ASSUME NEW s2 \in Shops, NEW u2 \in Users, RemoveMember(s2, u2)
      PROVE  member'[s][u] = member[s][u]
  BY <1>5 DEF RemoveMember, TeamInv, RowsOK, NoMember, IsMember
<1>6. CASE UNCHANGED member
  BY <1>6
<1> QED
  BY <1>1, <1>2, <1>3, <1>4, <1>5, <1>6, ArriveBegins
     DEF Next, AtOnce, Finish, OpenedAlready, StartTrial, DropRoleCommit, Die,
         CreateInvite, CreateRole, UpdateRole, InviteEnds, vars

\* The two ways of becoming a member.
LEMMA Newcomers ==
    ASSUME TeamInv, [Next]_vars, NEW s \in Shops, NEW u \in Users,
           ~IsMember(s, u), IsMember(s, u)'
    PROVE  \E n \in Sessions :
              \/ /\ Join(n) /\ req[n].shop = s /\ req[n].user = u
                 /\ member'[s][u].role = "manager"
              \/ Open(n) /\ u = s /\ member'[s][u].role = "owner"
<1>1. ASSUME NEW n \in Sessions, Join(n)
      PROVE  req[n].shop = s /\ req[n].user = u /\ member'[s][u].role = "manager"
  BY <1>1, GuestIsExpected DEF Join, IsMember, TeamInv, RowsOK, Newcomer
<1>2. ASSUME NEW n \in Sessions, Open(n)
      PROVE  u = s /\ member'[s][u].role = "owner"
  <2>1. req[n].user \in Shops /\ req[n].user \in Users
    BY <1>2, RequestFields, UserAssumption DEF Open, TeamInv, Shops
  <2> QED
    BY <1>2, <2>1 DEF Open, TeamInv, RowsOK, IsMember, Founder
<1>3. ASSUME NEW n \in Sessions, AssignCommit(n) \/ PermitCommit(n)
      PROVE  FALSE
  BY <1>3, EditsKeepKind DEF IsMember, TeamInv
<1>4. ASSUME NEW s2 \in Shops, NEW u2 \in Users, RemoveMember(s2, u2)
      PROVE  FALSE
  BY <1>4 DEF RemoveMember, TeamInv, RowsOK, NoMember, IsMember
<1>5. CASE UNCHANGED member
  BY <1>5 DEF IsMember
<1> QED
  BY <1>1, <1>2, <1>3, <1>4, <1>5, ArriveBegins
     DEF Next, AtOnce, Finish, OpenedAlready, StartTrial, DropRoleCommit, Die,
         CreateInvite, CreateRole, UpdateRole, InviteEnds, vars

LEMMA RolesStep == TeamInv /\ [Next]_vars => RolesResolve'
<1> SUFFICES ASSUME TeamInv, [Next]_vars, NEW s \in Shops
             PROVE  /\ \A u \in Users : IsMember(s, u)' => HasRole(s, member[s][u].role)'
                    /\ shop'[s] # "none" => \A r \in System : HasRole(s, r)'
  BY DEF RolesResolve
<1>1. shop'[s] # "none" => \A r \in System : HasRole(s, r)'
  BY SystemRolesStep
<1>2. ASSUME NEW u \in Users, IsMember(s, u)', ~IsMember(s, u)
      PROVE  HasRole(s, member[s][u].role)'
  <2>1. member'[s][u].role \in System
    BY <1>2, Newcomers DEF System
  <2>2. shop'[s] # "none"
    BY <1>2, StaffedStep DEF Staffed
  <2> QED
    BY <1>1, <2>1, <2>2 DEF HasRole
<1>3. ASSUME NEW u \in Users, IsMember(s, u)', IsMember(s, u)
      PROVE  HasRole(s, member[s][u].role)'
  <2>1. member[s][u].role \in RoleIds
    BY <1>3 DEF TeamInv, RowsOK, IsMember, NoMember, Membership
  <2>2. PICK r \in RoleIds : r = member[s][u].role
    BY <2>1
  <2>3. shop[s] # "none" /\ HasRole(s, r) /\ Holders(s, r) # {}
    BY <1>3, <2>2 DEF TeamInv, Staffed, RolesResolve, Holders
  <2>4. HasRole(s, r)'
    BY <2>3, RolesStay
  <2>5. ASSUME NEW n \in Sessions, AssignCommit(n), req[n].shop = s,
               member'[s][u].role = req[n].role, req[n].role # req[n].seen.role
        PROVE  HasRole(s, member[s][u].role)'
    BY <2>5 DEF AssignCommit, TeamInv, Holding, HasRole
  <2> QED
    BY <1>3, <2>2, <2>4, <2>5, HeldRole DEF HasRole
<1> QED
  BY <1>1, <1>2, <1>3

-----------------------------------------------------------------------------
(* What running requests hold.                                             *)

\* A session that goes on keeps its request.
LEMMA EndedKeeps ==
    ASSUME RowsOK, NEW N, Ended(N), NEW n \in Sessions
    PROVE  \/ req'[n] = Idle
           \/ /\ n \notin N /\ req'[n] = req[n]
              /\ \A t \in Tokens : n \in late[t] => n \in late'[t]
BY DEF Ended, RowsOK

LEMMA IdleHolds ==
    ASSUME NEW n \in Sessions, req'[n] = Idle
    PROVE  Holding(n)'
BY DEF Holding, Idle

\* An invite, once made, is always an invite to that shop; one that dies is
\* good for those at the door.
LEMMA InvitesStay ==
    ASSUME TeamInv, [Next]_vars, NEW n \in Sessions, req'[n] = req[n],
           req[n].op = "join"
    PROVE  LET t == req[n].token IN
           /\ invite'[t] # NoInvite /\ invite'[t].shop = req[n].shop
           /\ Active(t)' \/ n \in late'[t]
<1> DEFINE t == req[n].token
<1>0. /\ t \in Tokens /\ invite[t] # NoInvite /\ invite[t].shop = req[n].shop
      /\ Active(t) \/ n \in late[t]
      /\ invite[t] \in [shop : Shops, state : {"active", "dead"}]
  BY RequestFields DEF TeamInv, RowsOK, Holding
<1>1. ASSUME NEW s \in Shops, NEW t2 \in Tokens, CreateInvite(s, t2)
      PROVE  invite'[t] = invite[t] /\ late' = late
  BY <1>0, <1>1 DEF CreateInvite, TeamInv, RowsOK
<1>2. ASSUME NEW t2 \in Tokens, InviteEnds(t2)
      PROVE  /\ invite'[t] # NoInvite /\ invite'[t].shop = req[n].shop
             /\ Active(t)' \/ n \in late'[t]
  <2>1. invite' = [invite EXCEPT ![t2] = [invite[t2] EXCEPT !.state = "dead"]]
    BY <1>2 DEF InviteEnds
  <2>2. CASE t = t2
    <3>1. invite'[t] = [invite[t] EXCEPT !.state = "dead"]
      BY <1>0, <2>1, <2>2 DEF TeamInv, RowsOK
    <3>2. invite'[t].shop = req[n].shop /\ invite'[t].state = "dead"
      BY <1>0, <3>1
    <3>3. n \in late'[t]
      BY <1>0, <1>2, <2>2 DEF InviteEnds, TeamInv, RowsOK
    <3> QED
      BY <3>2, <3>3 DEF NoInvite
  <2>3. CASE t # t2
    BY <1>0, <1>2, <2>1, <2>3 DEF InviteEnds, TeamInv, RowsOK, Active
  <2> QED
    BY <2>2, <2>3
<1>3. ASSUME NEW N, Ended(N), UNCHANGED invite
      PROVE  n \in late[t] => n \in late'[t]
  <2>1. n \in N => req'[n] = Idle
    BY <1>3 DEF Ended
  <2>2. n \notin N
    BY <2>1 DEF Idle
  <2> QED
    BY <1>0, <1>3, <2>2 DEF Ended
<1>4. CASE UNCHANGED <<invite, late>>
  BY <1>0, <1>4 DEF Active
<1>5. CASE UNCHANGED invite /\ \E N : Ended(N)
  BY <1>0, <1>3, <1>5 DEF Active
<1> QED
  BY <1>0, <1>1, <1>2, <1>4, <1>5, ArriveBegins
     DEF Next, AtOnce, Finish, Join, Open, OpenedAlready, StartTrial, DropRoleCommit,
         AssignCommit, PermitCommit, Die, CreateRole, UpdateRole, RemoveMember, Active, vars

LEMMA RequestStep ==
    ASSUME TeamInv, [Next]_vars, NEW n \in Sessions
    PROVE  req'[n] = req[n] \/ req'[n] = Idle \/ Arrive(n) \/ Open(n)
<1>1. ASSUME NEW m \in Sessions, Arrive(m), m # n
      PROVE  req'[n] = req[n]
  BY <1>1 DEF Arrive, Enter, DropRole, Assign, Permit, Begin, TeamInv, RowsOK
<1>2. ASSUME NEW m \in Sessions, Open(m), m # n
      PROVE  req'[n] = req[n]
  BY <1>2 DEF Open, TeamInv, RowsOK
<1>3. ASSUME NEW N, Ended(N)
      PROVE  req'[n] = req[n] \/ req'[n] = Idle
  BY <1>3, EndedKeeps DEF TeamInv
<1>4. CASE UNCHANGED req
  BY <1>4
<1>5. CASE \E N : Ended(N)
  BY <1>3, <1>5
<1> QED
  BY <1>1, <1>2, <1>4, <1>5
     DEF Next, AtOnce, Finish, Join, OpenedAlready, StartTrial, DropRoleCommit,
         AssignCommit, PermitCommit, Die, CreateInvite, CreateRole, UpdateRole,
         RemoveMember, InviteEnds, vars

\* A membership that a request has loaded is not removed under it.
LEMMA LoadedStays ==
    ASSUME TeamInv, [Next]_vars, NEW n \in Sessions, req'[n] = req[n],
           req[n].op \in {"assign", "permit"}
    PROVE  IsMember(req[n].shop, req[n].user)'
<1>0. PICK s \in Shops, u \in Users : s = req[n].shop /\ u = req[n].user
  BY RequestFields DEF TeamInv
<1>1. IsMember(s, u) /\ s = req'[n].shop /\ u = req'[n].user
  BY <1>0 DEF TeamInv, Holding
<1>2. ASSUME NEW s2 \in Shops, NEW u2 \in Users, RemoveMember(s2, u2)
      PROVE  IsMember(s, u)'
  <2>1. ASSUME s2 = s, u2 = u
        PROVE  FALSE
    <3>1. n \in Forget({"assign", "permit"}, s2, "user", u2)
      BY <1>0, <2>1 DEF Forget
    <3>2. req'[n] = Idle
      BY <1>2, <3>1 DEF RemoveMember, Ended
    <3> QED
      BY <3>2 DEF Idle
  <2> QED
    BY <1>1, <1>2, <2>1 DEF RemoveMember, TeamInv, RowsOK, IsMember
<1>3. ASSUME NEW m \in Sessions, Join(m)
      PROVE  IsMember(s, u)'
  BY <1>1, <1>3, GuestIsExpected DEF Join, IsMember, TeamInv, RowsOK
<1>4. ASSUME NEW m \in Sessions, Open(m)
      PROVE  IsMember(s, u)'
  <2>1. req[m].user # s
    BY <1>1, <1>4 DEF Open, TeamInv, Staffed
  <2> QED
    BY <1>1, <1>4, <2>1 DEF Open, TeamInv, RowsOK, IsMember
<1>5. ASSUME NEW m \in Sessions, AssignCommit(m) \/ PermitCommit(m)
      PROVE  IsMember(s, u)'
  BY <1>1, <1>5, EditsKeepKind DEF IsMember, TeamInv
<1>6. ASSUME UNCHANGED member
      PROVE  IsMember(s, u)'
  BY <1>1, <1>6 DEF IsMember
<1>7. IsMember(s, u)'
  BY <1>2, <1>3, <1>4, <1>5, <1>6, ArriveBegins
     DEF Next, AtOnce, Finish, OpenedAlready, StartTrial, DropRoleCommit, Die,
         CreateInvite, CreateRole, UpdateRole, InviteEnds, vars
<1> QED
  BY <1>1, <1>7 DEF IsMember

\* Nor is the role that it is about to give.
LEMMA GivenRoleStays ==
    ASSUME TeamInv, [Next]_vars, NEW n \in Sessions, req'[n] = req[n],
           req[n].op = "assign", req[n].role # req[n].seen.role
    PROVE  HasRole(req[n].shop, req[n].role)'
<1>0. PICK s \in Shops, r \in RoleIds : s = req[n].shop /\ r = req[n].role
  BY RequestFields DEF TeamInv
<1>1. HasRole(s, r) /\ shop[s] # "none" /\ s = req'[n].shop /\ r = req'[n].role
  BY <1>0, RequestFields DEF TeamInv, Holding, Staffed
<1>2. ASSUME NEW m \in Sessions, DropRoleCommit(m), s = req[m].shop, r = req[m].role,
             Holders(s, r) = {}
      PROVE  FALSE
  <2>1. n \in Giving(req[m].shop, req[m].role)
    BY <1>0, <1>2 DEF Forget, Giving
  <2>2. req'[n] = Idle
    BY <1>2, <2>1 DEF DropRoleCommit, Ended
  <2> QED
    BY <2>2 DEF Idle
<1>3. HasRole(s, r)'
  BY <1>1, <1>2, RolesStay
<1> QED
  BY <1>1, <1>3 DEF HasRole

LEMMA ArriveHolds ==
    ASSUME TeamInv, NEW n \in Sessions, Arrive(n)
    PROVE  Holding(n)'
<1>1. ASSUME NEW q, Begin(n, q)
      PROVE  req'[n] = q /\ UNCHANGED <<shop, role, member, invite, late>>
  BY <1>1 DEF Begin, TeamInv, RowsOK
<1>2. ASSUME NEW u \in Users, NEW t \in Tokens \cup {NoToken}, Enter(n, u, t)
      PROVE  Holding(n)'
  <2>1. CASE Begin(n, [op |-> "open", user |-> u])
    BY <1>1, <2>1 DEF Holding
  <2>2. CASE /\ Active(t)
             /\ Begin(n, [op |-> "join", user |-> u, shop |-> invite[t].shop, token |-> t])
    BY <1>1, <2>2 DEF Holding, Active, NoInvite
  <2> QED
    BY <1>2, <2>1, <2>2 DEF Enter, Admits
<1>3. ASSUME NEW s \in Shops, NEW r \in RoleIds, DropRole(n, s, r)
      PROVE  Holding(n)'
  BY <1>1, <1>3 DEF DropRole, Holding
<1>4. ASSUME NEW s \in Shops, NEW u \in Users, NEW r \in RoleIds, Assign(n, s, u, r)
      PROVE  Holding(n)'
  BY <1>1, <1>4 DEF Assign, Holding, HasRole, IsMember
<1>5. ASSUME NEW s \in Shops, NEW u \in Users, NEW c \in Changes, Permit(n, s, u, c)
      PROVE  Holding(n)'
  BY <1>1, <1>5 DEF Permit, Holding, IsMember
<1> QED
  BY <1>2, <1>3, <1>4, <1>5 DEF Arrive

LEMMA HoldingStep == TeamInv /\ [Next]_vars => \A n \in Sessions : Holding(n)'
<1> SUFFICES ASSUME TeamInv, [Next]_vars, NEW n \in Sessions
             PROVE  Holding(n)'
  OBVIOUS
<1>1. CASE req'[n] = req[n]
  <2>1. req[n].op = "trial" => shop'[req[n].user] # "none"
    BY RequestFields, ShopsStay DEF TeamInv, Holding, Shops
  <2> QED
    BY <1>1, <2>1, InvitesStay, LoadedStays, GivenRoleStays DEF Holding, IsMember, HasRole, Active
<1>2. CASE Open(n)
  <2>1. req[n].op = "open" /\ req[n].user \in Shops
    BY <1>2, RequestFields DEF Open, TeamInv, Shops
  <2>2. req'[n] = [req[n] EXCEPT !.op = "trial"]
    BY <1>2 DEF Open, TeamInv, RowsOK
  <2>3. req[n] \in [op : {"open", "trial"}, user : Openers]
    BY <2>1 DEF TeamInv, RowsOK, Request, Idle
  <2>4. req'[n].op = "trial" /\ req'[n].user = req[n].user
    BY <2>2, <2>3
  <2>5. shop'[req[n].user] # "none"
    BY <1>2, <2>1 DEF Open, TeamInv, RowsOK
  <2> QED
    BY <2>4, <2>5 DEF Holding
<1> QED
  BY <1>1, <1>2, RequestStep, IdleHolds, ArriveHolds

-----------------------------------------------------------------------------
(* Theorems.                                                               *)

LEMMA TeamStep == TeamInv /\ [Next]_vars => TeamInv'
BY TypeStep, OwnersStep, RolesStep, OpenedStep, StaffedStep, HoldingStep DEF TeamInv

LEMMA TeamInvHolds == Spec => []TeamInv /\ [][Next]_vars
<1>1. [Next /\ Noted]_<<vars, newer>> => [Next]_vars
  OBVIOUS
<1> QED
  BY <1>1, TypeInit, TeamStep, PTL DEF Spec

\* Rows and requests keep their types: no request is left with a membership
\* that another has deleted, or writes one that is gone.
THEOREM TeamTyped == Spec => []TypeOK
<1> DEFINE NewerOK == newer \in [Sessions -> SUBSET Perms]
<1>1. Init => NewerOK
  BY DEF Init
<1>2. NewerOK /\ [Next /\ Noted]_<<vars, newer>> => NewerOK'
  BY DEF Noted
<1>3. TeamInv /\ NewerOK => TypeOK
  BY DEF TeamInv, RowsOK, TypeOK
<1> HIDE DEF NewerOK
<1> QED
  BY <1>1, <1>2, <1>3, TeamInvHolds, PTL DEF Spec

\* A shop has exactly one owner, the person who opened it (bootstrap.py), for
\* any number of first requests at a time and of people who join.
THEOREM OneOwnerEach == Spec => []OneOwner
<1>1. TeamInv => OneOwner
  BY DEF TeamInv
<1> QED
  BY <1>1, TeamInvHolds, PTL

\* Nobody holds a role that is not there, whatever deletions race with
\* assignments: the foreign key refuses the one that comes second.
THEOREM RolesAreThere == Spec => []RolesResolve
<1>1. TeamInv => RolesResolve
  BY DEF TeamInv
<1> QED
  BY <1>1, TeamInvHolds, PTL

\* Nobody gets into a shop but by an invite to it that was good when the
\* request began (deps.py), however long that request takes.
THEOREM GuestsAreInvited == Spec => JoinsByInvite
<1> DEFINE Invited(s, u) ==
             \E n \in Sessions, t \in Tokens :
                /\ req[n].op = "join" /\ req[n].user = u /\ req[n].token = t
                /\ invite[t].shop = s
                /\ Active(t) \/ n \in late[t]
           Step == \A s \in Shops, u \in Users :
                      ~IsMember(s, u) /\ IsMember(s, u)' /\ u # s => Invited(s, u)
<1>1. TeamInv /\ [Next]_vars => Step
  <2> SUFFICES ASSUME TeamInv, [Next]_vars, NEW s \in Shops, NEW u \in Users,
                      ~IsMember(s, u), IsMember(s, u)', u # s
               PROVE  Invited(s, u)
    OBVIOUS
  <2>1. PICK n \in Sessions : Join(n) /\ req[n].shop = s /\ req[n].user = u
    BY Newcomers
  <2> QED
    BY <2>1, GuestIsExpected DEF Join
<1>2. Step => [Step]_vars
  OBVIOUS
<1>3. JoinsByInvite <=> [][Step]_vars
  BY DEF JoinsByInvite
<1> QED
  BY <1>1, <1>2, <1>3, TeamInvHolds, PTL

-----------------------------------------------------------------------------
(* Overrides.  What an assignment has loaded of a membership is what is    *)
(* there, but for the overrides that Noted has seen written since.         *)

Loaded ==
    \A n \in Sessions :
        LET q == req[n]
        IN  q.op = "assign" =>
                \A p \in Perms \ newer[n] : member[q.shop][q.user].over[p] = q.seen.over[p]

\* What an assignment has loaded when it begins.
LEMMA AssignLoads ==
    ASSUME TeamInv, NEW n \in Sessions, Arrive(n), req'[n].op = "assign"
    PROVE  req'[n].seen = member[req'[n].shop][req'[n].user] /\ member' = member
<1>1. ASSUME NEW q, Begin(n, q)
      PROVE  req'[n] = q /\ member' = member
  BY <1>1 DEF Begin, TeamInv, RowsOK
<1>2. ASSUME NEW u \in Users, NEW t \in Tokens \cup {NoToken}, Enter(n, u, t)
      PROVE  FALSE
  BY <1>1, <1>2 DEF Enter
<1>3. ASSUME NEW s \in Shops, NEW r \in RoleIds, DropRole(n, s, r)
      PROVE  FALSE
  BY <1>1, <1>3 DEF DropRole
<1>4. ASSUME NEW s \in Shops, NEW u \in Users, NEW r \in RoleIds, Assign(n, s, u, r)
      PROVE  req'[n].seen = member[req'[n].shop][req'[n].user] /\ member' = member
  BY <1>1, <1>4 DEF Assign
<1>5. ASSUME NEW s \in Shops, NEW u \in Users, NEW c \in Changes, Permit(n, s, u, c)
      PROVE  FALSE
  BY <1>1, <1>5 DEF Permit
<1> QED
  BY <1>2, <1>3, <1>4, <1>5 DEF Arrive

LEMMA LoadedStep == TeamInv /\ Loaded /\ Next /\ Noted => Loaded'
<1> SUFFICES ASSUME TeamInv, Loaded, Next, Noted, NEW n \in Sessions, req'[n].op = "assign",
                    NEW p \in Perms \ newer'[n]
             PROVE  member'[req'[n].shop][req'[n].user].over[p] = req'[n].seen.over[p]
  BY DEF Loaded
<1>1. CASE Arrive(n)
  BY <1>1, AssignLoads
<1>2. CASE req'[n] = req[n]
  <2>1. newer'[n] = newer[n] \cup {x \in Perms :
           member'[req[n].shop][req[n].user].over[x] # member[req[n].shop][req[n].user].over[x]}
    BY <1>2 DEF Noted
  <2> QED
    BY <1>2, <2>1 DEF Loaded
<1>3. CASE Open(n)
  <2>1. req[n] \in [op : {"open", "trial"}, user : Openers]
    BY <1>3 DEF Open, TeamInv, RowsOK, Request, Idle
  <2>2. req'[n].op = "trial"
    BY <1>3, <2>1 DEF Open, TeamInv, RowsOK
  <2> QED
    BY <2>2
<1> QED
  BY <1>1, <1>2, <1>3, RequestStep DEF Idle

\* Who gets another role keeps no override (team.py:360-364) but those that
\* were written after the assignment had loaded the membership.
THEOREM AssignmentClears == Spec => OnlyNewOverridesSurvive
<1> DEFINE Step == \A s \in Shops, u \in Users, p \in Perms :
                      IsMember(s, u) /\ IsMember(s, u)' /\ member'[s][u].role # member[s][u].role
                         /\ member'[s][u].over[p] # "asRole"
                         => \E n \in Sessions :
                               /\ req[n].op = "assign" /\ req[n].shop = s /\ req[n].user = u
                               /\ p \in newer[n]
<1>1. Init => Loaded
  BY DEF Init, Loaded, Idle
<1>2. TeamInv /\ Loaded /\ [Next /\ Noted]_<<vars, newer>> => Loaded'
  <2>1. Loaded /\ UNCHANGED <<vars, newer>> => Loaded'
    BY DEF Loaded, vars
  <2> QED
    BY <2>1, LoadedStep
<1>3. TeamInv /\ Loaded /\ [Next]_vars => Step
  <2> SUFFICES ASSUME TeamInv, Loaded, [Next]_vars,
                      NEW s \in Shops, NEW u \in Users, NEW p \in Perms,
                      IsMember(s, u), IsMember(s, u)',
                      member'[s][u].role # member[s][u].role,
                      member'[s][u].over[p] # "asRole"
               PROVE  \E n \in Sessions :
                         /\ req[n].op = "assign" /\ req[n].shop = s /\ req[n].user = u
                         /\ p \in newer[n]
    OBVIOUS
  <2>1. PICK n \in Sessions : AssignCommit(n) /\ req[n].shop = s /\ req[n].user = u
    BY HeldRole
  <2> DEFINE q == req[n]
  <2>2. q.op = "assign" /\ q.seen \in Membership /\ member[s][u] \in Membership
    BY <2>1, RequestFields DEF AssignCommit, TeamInv, RowsOK, IsMember, NoMember
  <2>3. member'[s][u].over = Merged(member[s][u].over, q.seen.over, NoMember.over)
    BY <2>1 DEF AssignCommit, TeamInv, RowsOK
  <2>4. member'[s][u].over[p] =
           IF "asRole" = q.seen.over[p] THEN member[s][u].over[p] ELSE "asRole"
    BY <2>2, <2>3 DEF Merged, Membership, NoMember
  <2>5. p \in newer[n]
    BY <2>1, <2>2, <2>4 DEF Loaded
  <2> QED
    BY <2>1, <2>2, <2>5
<1>4. OnlyNewOverridesSurvive <=> [][Step]_vars
  BY DEF OnlyNewOverridesSurvive
<1> QED
  BY <1>1, <1>2, <1>3, <1>4, TeamInvHolds, PTL DEF Spec
=============================================================================

-------------------------------- MODULE Team --------------------------------
(***************************************************************************)
(* Shops, members, roles and invites: app/services/bootstrap.py,           *)
(* app/api/team.py and the access rules of app/deps.py.                    *)
(*                                                                         *)
(* A person opens at most one shop, its slug is made of the Telegram id,   *)
(* so a shop is named by the person who opened it.  A request that reads   *)
(* before it writes is two steps of a session, with what it read kept in   *)
(* between; one that the database makes atomic (a unique key, a delete by  *)
(* id) is one step.                                                        *)
(*                                                                         *)
(* The session writes only the columns that differ from what it loaded.    *)
(* Rows have an id of their own: when one is deleted, the requests that    *)
(* loaded it end without an effect (StaleDataError, or a foreign key that  *)
(* refuses), which Forget says.                                            *)
(***************************************************************************)

CONSTANTS
    Users,
    Openers,     \* bound: those who ever come without an invite that admits them
    Tokens,      \* of invites
    NoToken,     \* a request that does not come by an invite
    Sessions,    \* bound: requests at the same time
    Perms,       \* the can_* columns
    Custom,      \* bound: ids of the roles an owner adds to a shop
    OtherNames   \* names of roles besides the two of the system

ASSUME UserAssumption == Openers \subseteq Users
ASSUME TokenAssumption == NoToken \notin Tokens
ASSUME RoleAssumption == Custom \cap {"owner", "manager"} = {}
ASSUME NameAssumption == OtherNames \cap {"Owner", "Manager", "none"} = {}

VARIABLES
    shop,    \* of each person, its shop: none, open, or served (it has a subscription)
    role,    \* per shop and id, the role
    member,  \* per shop and person, the membership
    invite,  \* per token
    req,     \* per session, what the request read and is about to write
    cut,     \* history: the shops whose bootstrap died between its commits
    late,    \* history: per token, the requests that had read it when it died
    newer    \* history: per session, the overrides written since its assignment read

vars == <<shop, role, member, invite, req, cut, late>>

Shops == Openers
System == {"owner", "manager"}
RoleIds == System \cup Custom
Names == {"Owner", "Manager"} \cup OtherNames
Override == {"asRole", "yes", "no"}

NoRole == [name |-> "none"]
NoMember == [kind |-> "none", role |-> "none", over |-> [p \in Perms |-> "asRole"]]
NoInvite == [shop |-> "none", state |-> "unused"]
Idle == [op |-> "idle"]

Role == [name : Names]
Membership ==
    [kind : {"owner", "manager"}, role : RoleIds, over : [Perms -> Override]]
Changes == UNION {[P -> Override] : P \in (SUBSET Perms) \ {{}}}
Request ==
    [op : {"open", "trial"}, user : Openers]
        \cup [op : {"join"}, user : Users, shop : Shops, token : Tokens]
        \cup [op : {"assign"}, shop : Shops, user : Users, role : RoleIds, seen : Membership]
        \cup [op : {"permit"}, shop : Shops, user : Users, change : Changes, seen : Membership]
        \cup [op : {"drop"}, shop : Shops, role : Custom]

IsMember(s, u) == member[s][u].kind # "none"
HasRole(s, r) == role[s][r] # NoRole
Holders(s, r) == {u \in Users : member[s][u].role = r}
Named(s, name) == {r \in RoleIds : role[s][r].name = name}

\* An invite lets in while it is neither revoked nor expired; the role it gives
\* is looked for by its name.
Active(t) == invite[t].state = "active"
\* Slip: is_active is not looked at.
AdmitsForever(t) == invite[t] # NoInvite /\ "manager" \in Named(invite[t].shop, "Manager")

Admits(t) == Active(t) /\ "manager" \in Named(invite[t].shop, "Manager")

Newcomer == [kind |-> "manager", role |-> "manager", over |-> NoMember.over]
Founder == [kind |-> "owner", role |-> "owner", over |-> NoMember.over]
SystemRoles ==
    [r \in RoleIds |->
        CASE r = "owner" -> [name |-> "Owner"]
          [] r = "manager" -> [name |-> "Manager"]
          [] OTHER -> NoRole]

Init ==
    /\ shop = [s \in Shops |-> "none"]
    /\ role = [s \in Shops |-> [r \in RoleIds |-> NoRole]]
    /\ member = [s \in Shops |-> [u \in Users |-> NoMember]]
    /\ invite = [t \in Tokens |-> NoInvite]
    /\ req = [n \in Sessions |-> Idle]
    /\ cut = {}
    /\ late = [t \in Tokens |-> {}]
    /\ newer = [n \in Sessions |-> {}]

\* The sessions of N have ended, by a response or without one.
Ended(N) ==
    /\ req' = [n \in Sessions |-> IF n \in N THEN Idle ELSE req[n]]
    /\ late' = [t \in Tokens |-> late[t] \ N]

Forget(ops, s, field, x) ==
    {n \in Sessions : req[n].op \in ops /\ req[n].shop = s /\ req[n][field] = x}

Begin(n, q) ==
    /\ req[n] = Idle
    /\ req' = [req EXCEPT ![n] = q]
    /\ UNCHANGED <<shop, role, member, invite, cut, late>>

-----------------------------------------------------------------------------
(* Requests of anybody.                                                    *)

\* The first thing every request does: who has a membership keeps it, an invite
\* to another shop adds one, and who has neither opens a shop.
Enter(n, u, t) ==
    LET known == \E s \in Shops : IsMember(s, u)
    IN  \/ /\ t # NoToken /\ Admits(t) /\ ~IsMember(invite[t].shop, u)
           /\ Begin(n, [op |-> "join", user |-> u, shop |-> invite[t].shop, token |-> t])
        \/ /\ u \in Openers /\ ~known /\ (t # NoToken => ~Active(t))
           /\ Begin(n, [op |-> "open", user |-> u])

\* Unique per shop and person: who came in by another request at the same time
\* keeps that membership.
Join(n) ==
    LET q == req[n]
    IN  /\ q.op = "join"
        /\ member' = IF IsMember(q.shop, q.user) THEN member
                     ELSE [member EXCEPT ![q.shop][q.user] = Newcomer]
        /\ Ended({n})
        /\ UNCHANGED <<shop, role, invite, cut>>

\* Unique by slug.  The demo catalogue commits what was flushed before it, and
\* the trial comes only then.
Open(n) ==
    LET u == req[n].user
    IN  /\ req[n].op = "open"
        /\ shop[u] = "none"
        /\ shop' = [shop EXCEPT ![u] = "open"]
        /\ role' = [role EXCEPT ![u] = SystemRoles]
        /\ member' = [member EXCEPT ![u][u] = Founder]
        /\ req' = [req EXCEPT ![n].op = "trial"]
        /\ UNCHANGED <<invite, cut, late>>

OpenedAlready(n) ==
    /\ req[n].op = "open"
    /\ shop[req[n].user] # "none"
    /\ Ended({n})
    /\ UNCHANGED <<shop, role, member, invite, cut>>

\* Slip: the trial is left to the first product, as the docstring of
\* start_trial() has it.
ForgetTrial(n) ==
    /\ req[n].op = "trial"
    /\ Ended({n})
    /\ UNCHANGED <<shop, role, member, invite, cut>>

StartTrial(n) ==
    /\ req[n].op = "trial"
    /\ shop' = [shop EXCEPT ![req[n].user] = "served"]
    /\ Ended({n})
    /\ UNCHANGED <<role, member, invite, cut>>

\* The process dies, or the connection.
Die(n) ==
    /\ req[n] # Idle
    /\ cut' = IF req[n].op = "trial" THEN cut \cup {req[n].user} ELSE cut
    /\ Ended({n})
    /\ UNCHANGED <<shop, role, member, invite>>

-----------------------------------------------------------------------------
(* Requests of an owner: require_owner() of the shop resolved.             *)

OwnerOf(s) == \E u \in Users : member[s][u].kind = "owner"

CreateInvite(s, t) ==
    /\ OwnerOf(s)
    /\ invite[t] = NoInvite
    /\ invite' = [invite EXCEPT ![t] = [shop |-> s, state |-> "active"]]
    /\ UNCHANGED <<shop, role, member, req, cut, late>>

\* By revoke_invite(), or as expires_at passes.
InviteEnds(t) ==
    /\ Active(t)
    /\ invite' = [invite EXCEPT ![t].state = "dead"]
    /\ late' = [late EXCEPT ![t] =
                    {n \in Sessions : req[n].op = "join" /\ req[n].token = t}]
    /\ UNCHANGED <<shop, role, member, req, cut>>

CreateRole(s, r, new) ==
    /\ OwnerOf(s)
    /\ ~HasRole(s, r) /\ Named(s, new.name) = {}
    /\ role' = [role EXCEPT ![s][r] = new]
    /\ UNCHANGED <<shop, member, invite, req, cut, late>>

\* Only the owner's role is closed to edits, that of the managers may even be
\* renamed.
UpdateRole(s, r, new) ==
    /\ OwnerOf(s)
    /\ HasRole(s, r) /\ role[s][r].name # "Owner"
    /\ Named(s, new.name) \subseteq {r}
    /\ role' = [role EXCEPT ![s][r] = new]
    /\ UNCHANGED <<shop, member, invite, req, cut, late>>

\* The holders are counted first, a foreign key looks again.
DropRole(n, s, r) ==
    /\ OwnerOf(s)
    /\ HasRole(s, r) /\ r \notin System /\ Holders(s, r) = {}
    /\ Begin(n, [op |-> "drop", shop |-> s, role |-> r])

\* Slip: without the foreign key of memberships.role_id for an assignment.
DropAssignedRole(n) ==
    LET q == req[n]
    IN  /\ q.op = "drop"
        /\ Holders(q.shop, q.role) = {}
        /\ role' = [role EXCEPT ![q.shop][q.role] = NoRole]
        /\ Ended({n} \cup Forget({"drop"}, q.shop, "role", q.role))
        /\ UNCHANGED <<shop, member, invite, cut>>

\* The assignments that will write role_id.
Giving(s, r) == {n \in Forget({"assign"}, s, "role", r) : req[n].seen.role # r}

DropRoleCommit(n) ==
    LET q == req[n]
        held == Holders(q.shop, q.role) # {}
    IN  /\ q.op = "drop"
        /\ role' = IF held THEN role ELSE [role EXCEPT ![q.shop][q.role] = NoRole]
        /\ Ended({n} \cup IF held THEN {} ELSE Forget({"drop"}, q.shop, "role", q.role)
                                                 \cup Giving(q.shop, q.role))
        /\ UNCHANGED <<shop, member, invite, cut>>

Assign(n, s, u, r) ==
    /\ OwnerOf(s)
    /\ member[s][u].kind = "manager" /\ HasRole(s, r)
    /\ Begin(n, [op |-> "assign", shop |-> s, user |-> u, role |-> r, seen |-> member[s][u]])

\* The columns of a row after a request that wants them to be `want' and
\* loaded them as `seen'.
Merged(now, seen, want) == [c \in DOMAIN now |-> IF want[c] = seen[c] THEN now[c] ELSE want[c]]

\* Slip: the overrides stay.
AssignOnly(n) ==
    LET q == req[n]
    IN  /\ q.op = "assign"
        /\ member' = [member EXCEPT ![q.shop][q.user].role = q.role]
        /\ Ended({n})
        /\ UNCHANGED <<shop, role, invite, cut>>

AssignCommit(n) ==
    LET q == req[n]
        now == member[q.shop][q.user]
    IN  /\ q.op = "assign"
        /\ member' = [member EXCEPT ![q.shop][q.user] =
               [kind |-> now.kind,
                role |-> IF q.role = q.seen.role THEN now.role ELSE q.role,
                over |-> Merged(now.over, q.seen.over, NoMember.over)]]
        /\ Ended({n})
        /\ UNCHANGED <<shop, role, invite, cut>>

\* Overrides with those of a change written over them.
Overridden(over, change) ==
    [p \in Perms |-> IF p \in DOMAIN change THEN change[p] ELSE over[p]]

Permit(n, s, u, change) ==
    /\ OwnerOf(s)
    /\ member[s][u].kind = "manager"
    /\ Begin(n, [op |-> "permit", shop |-> s, user |-> u, change |-> change,
                 seen |-> member[s][u]])

PermitCommit(n) ==
    LET q == req[n]
    IN  /\ q.op = "permit"
        /\ member' = [member EXCEPT ![q.shop][q.user].over =
                          Merged(@, q.seen.over, Overridden(q.seen.over, q.change))]
        /\ Ended({n})
        /\ UNCHANGED <<shop, role, invite, cut>>

\* Slip: neither of the checks that keep the owner.
RemoveAnyone(s, u) ==
    /\ OwnerOf(s)
    /\ IsMember(s, u)
    /\ member' = [member EXCEPT ![s][u] = NoMember]
    /\ Ended(Forget({"assign", "permit"}, s, "user", u))
    /\ UNCHANGED <<shop, role, invite, cut>>

RemoveMember(s, u) ==
    /\ OwnerOf(s)
    /\ member[s][u].kind = "manager"
    /\ member' = [member EXCEPT ![s][u] = NoMember]
    /\ Ended(Forget({"assign", "permit"}, s, "user", u))
    /\ UNCHANGED <<shop, role, invite, cut>>

-----------------------------------------------------------------------------

Arrive(n) ==
    \/ \E u \in Users, t \in Tokens \cup {NoToken} : Enter(n, u, t)
    \/ \E s \in Shops :
          \/ \E r \in RoleIds : DropRole(n, s, r)
          \/ \E u \in Users : \/ \E r \in RoleIds : Assign(n, s, u, r)
                              \/ \E change \in Changes : Permit(n, s, u, change)

Finish(n) ==
    \/ Join(n)
    \/ Open(n)
    \/ OpenedAlready(n)
    \/ StartTrial(n)
    \/ DropRoleCommit(n)
    \/ AssignCommit(n)
    \/ PermitCommit(n)

AtOnce ==
    \/ \E s \in Shops :
          \/ \E t \in Tokens : CreateInvite(s, t)
          \/ \E r \in RoleIds, new \in Role : CreateRole(s, r, new) \/ UpdateRole(s, r, new)
          \/ \E u \in Users : RemoveMember(s, u)
    \/ \E t \in Tokens : InviteEnds(t)

Next == AtOnce \/ \E n \in Sessions : Arrive(n) \/ Finish(n) \/ Die(n)

\* Of the membership that a running assignment has loaded.
Noted ==
    newer' = [n \in Sessions |->
        LET q == req[n]
        IN  IF q.op = "assign" /\ req'[n] = q
            THEN newer[n] \cup {p \in Perms :
                     member'[q.shop][q.user].over[p] # member[q.shop][q.user].over[p]}
            ELSE {}]

\* A request that runs reaches its end, or dies.
Spec == Init /\ [][Next /\ Noted]_<<vars, newer>> /\ \A n \in Sessions : WF_vars(Finish(n))

-----------------------------------------------------------------------------

TypeOK ==
    /\ shop \in [Shops -> {"none", "open", "served"}]
    /\ role \in [Shops -> [RoleIds -> Role \cup {NoRole}]]
    /\ member \in [Shops -> [Users -> Membership \cup {NoMember}]]
    /\ invite \in [Tokens -> [shop : Shops, state : {"active", "dead"}] \cup {NoInvite}]
    /\ req \in [Sessions -> Request \cup {Idle}]
    /\ cut \subseteq Shops
    /\ late \in [Tokens -> SUBSET Sessions]
    /\ newer \in [Sessions -> SUBSET Perms]

\* A shop has one owner from its first commit on, the person who opened it,
\* however many first requests of that person came at a time, whom it admitted
\* since and whom it removed.
OneOwner ==
    \A s \in Shops, u \in Users :
        member[s][u].kind = "owner" <=> shop[s] # "none" /\ u = s

\* Everybody's role is one of the shop, the deletion of a role racing with its
\* assignment included, and the roles of the system stay.
RolesResolve ==
    \A s \in Shops :
        /\ \A u \in Users : IsMember(s, u) => HasRole(s, member[s][u].role)
        /\ shop[s] # "none" => \A r \in System : HasRole(s, r)

\* One joins a shop by an invite to it that was still good when the request
\* began: revoking it keeps out everyone but those already at the door.
JoinsByInvite ==
    [][\A s \in Shops, u \in Users :
         ~IsMember(s, u) /\ IsMember(s, u)' /\ u # s =>
            \E n \in Sessions, t \in Tokens :
               /\ req[n].op = "join" /\ req[n].user = u /\ req[n].token = t
               /\ invite[t].shop = s
               /\ Active(t) \/ n \in late[t]]_vars

\* Who gets another role keeps no override (team.py:360-364), but for those that
\* another request wrote after the assignment had loaded the membership.
OnlyNewOverridesSurvive ==
    [][\A s \in Shops, u \in Users, p \in Perms :
         IsMember(s, u) /\ IsMember(s, u)' /\ member'[s][u].role # member[s][u].role
            /\ member'[s][u].over[p] # "asRole"
            => \E n \in Sessions :
                  /\ req[n].op = "assign" /\ req[n].shop = s /\ req[n].user = u
                  /\ p \in newer[n]]_vars

\* A new shop gets its trial, and without one it is for reading only: only the
\* death of the process between the two commits of the bootstrap prevents it.
TrialUnlessCut == \A s \in Shops : shop[s] = "open" ~> shop[s] = "served" \/ s \in cut

\* What team.py:360-364 says without any condition, no window for a race with
\* the permissions' PATCH; Team_overrides.cfg shows the window.
NoOverrideSurvives ==
    [][\A s \in Shops, u \in Users :
         IsMember(s, u) /\ IsMember(s, u)' /\ member'[s][u].role # member[s][u].role
            => \A p \in Perms : member'[s][u].over[p] = "asRole"]_vars

\* deps.py:146-147 and the docstring of Invite (models.py:249-252): whoever
\* follows the link of an active invite joins.
InvitesWork == \A t \in Tokens : Active(t) => Admits(t)
=============================================================================

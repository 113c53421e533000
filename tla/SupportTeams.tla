---- MODULE SupportTeams ----
(***************************************************************************)
(* Support teams, their members and their on-call role                     *)
(* (app/http/endpoints/api/team).  A team, like the default team of the    *)
(* guild, has rows that name its members, and a row that names the Discord *)
(* role its members on call hold; the bot makes that role when the first   *)
(* of them goes on call.  Taking a member off a team takes them off call:  *)
(* a user loses the role, a role that leaves makes the dashboard forget,   *)
(* delete and make the on-call role anew, in four calls to two services.   *)
(* A behaviour follows the on-call role of one team, or none ("listing",   *)
(* module TicketAccess).                                                   *)
(***************************************************************************)
EXTENDS Integers, FiniteSets

CONSTANTS
    Users,         \* accounts; any of them can ask for anything
    Roles,         \* the guild's roles that staff can be given
    Teams,
    Panels,
    Owner,         \* of the guild, one of Users
    Staff,         \* those that the guild may make staff of
    Handlers,      \* request goroutines
    MaxRequests,   \* bound: removals that are begun
    MaxCallRoles,  \* bound: on-call roles ever made
    None

ASSUME SupportTeamsAssumption ==
    /\ Owner \in Users /\ Staff \subseteq Users /\ Users \intersect Roles = {}
    /\ {"default", "listing"} \intersect Teams = {}
    /\ MaxRequests \in Nat /\ MaxCallRoles \in Nat
    /\ (Roles \union {None}) \intersect (1 .. MaxCallRoles) = {}
    /\ \A S \in SUBSET (Roles \union 1 .. MaxCallRoles) : S # None

VARIABLES
    about,        \* the team that is followed: a team, "default", or "listing"
    teams,        \* the teams that exist
    perm,         \* rows of the default team: "none", "support" or "admin" of users and roles
    members,      \* rows of the other teams: <<team, user or role>>
    panelTeams,   \* the teams of each panel
    callRow,      \* the on-call role that the followed team's row names, or None
    discord,      \* the on-call roles of that team that Discord has
    has,          \* the roles of each user on Discord
    cached,       \* what the member cache says of them, None when it has no member
    req,
    off,          \* users who were taken off the team with success and have not gone
                  \* on call since
    orphaned,     \* a request ended between forgetting a role and naming the next
    raced,        \* somebody changed the on-call role beside a removal that concerns it
    made, requests

teamVars == <<about, teams, perm, members, panelTeams, callRow, discord, has, cached, req, off,
              orphaned, raced, made, requests>>
tables == <<teams, perm, members, panelTeams>>
ghosts == <<off, orphaned, raced>>

CallRoles == 1 .. MaxCallRoles
Levels == {"none", "support", "admin"}
Idle == [op |-> "idle"]
Removal(x, at, ok, role) == [op |-> "RemoveMember", who |-> x, at |-> at, ok |-> ok, role |-> role]

\* The team that is followed is still there.
Followed == about \in teams \union {"default"}

\* What GetGuildMember answers from the cache or, without an entry, from Discord.
MemberRoles(u) == IF cached[u] = None THEN has[u] ELSE cached[u]

\* Some rows and roles of Staff, in any state that a guild can have reached; nobody is
\* on call yet.
TeamsInit ==
    /\ about \in Teams \union {"default", "listing"}
    /\ teams \in IF about = "listing" THEN {T \in SUBSET Teams : Cardinality(Teams \ T) <= 1} ELSE {Teams}
    /\ perm \in {f \in [Users \union Roles -> Levels] :
                   \A x \in DOMAIN f : f[x] # "none" => x \in Staff \union Roles /\ about \notin Teams}
    /\ members \in SUBSET ((CASE about = "default" -> {}
                               [] about = "listing" -> teams
                               [] OTHER -> {about}) \X (Staff \union Roles))
    /\ has \in {f \in [Users -> SUBSET Roles] : \A x \in Users : f[x] # {} => x \in Staff}
    /\ IF about = "listing" THEN panelTeams \in [Panels -> SUBSET teams]
                            ELSE panelTeams = [p \in Panels |-> {}]
    /\ callRow = None /\ discord = {} /\ cached = has
    /\ req = [h \in Handlers |-> Idle]
    /\ off = {} /\ orphaned = FALSE /\ raced = FALSE
    /\ made = 0 /\ requests = 0
----
(* Rows: CreateTeam, DeleteTeam, AddMember *)

CreateTeam(t) ==
    /\ t \notin teams
    /\ teams' = teams \union {t}
    /\ UNCHANGED <<perm, members, panelTeams>>

\* Its rows go with it, its on-call role stays on Discord.
DeleteTeam(t) ==
    /\ t \in teams
    /\ teams' = teams \ {t}
    /\ members' = {m \in members : m[1] # t}
    /\ panelTeams' = [p \in Panels |-> panelTeams[p] \ {t}]
    /\ UNCHANGED perm

\* "Only roles may be added as support representatives."  What AddSupport leaves of
\* an administrator is the database's choice.
AddDefaultMember(r) ==
    /\ \E level \in {"support", perm[r]} \ {"none"} : perm' = [perm EXCEPT ![r] = level]
    /\ UNCHANGED <<teams, members, panelTeams>>

\* A plausible bug: whether the team exists is not asked.
AddTeamMemberUnasked(t, r) ==
    /\ members' = members \union {<<t, r>>}
    /\ UNCHANGED <<teams, perm, panelTeams>>

AddTeamMember(t, r) ==
    /\ t \in teams
    /\ members' = members \union {<<t, r>>}
    /\ UNCHANGED <<teams, perm, panelTeams>>

\* The bot's own commands.
MakeAdmin(x) ==
    /\ perm' = [perm EXCEPT ![x] = "admin"]
    /\ UNCHANGED <<teams, members, panelTeams>>

RowsChange ==
    \/ \E t \in Teams : CreateTeam(t) \/ DeleteTeam(t)
    \/ \E r \in Roles : AddDefaultMember(r) \/ \E t \in Teams : AddTeamMember(t, r)
    \/ \E x \in Staff \union Roles : MakeAdmin(x)

\* Beside the removals of an on-call behaviour the followed team only can change.
ChangeRows ==
    /\ about # "listing"
    /\ \/ about = "default" /\ \E r \in Roles : AddDefaultMember(r)
       \/ about \in Teams /\ (DeleteTeam(about) \/ \E r \in Roles : AddTeamMember(about, r))
       \/ about = "default" /\ \E r \in Roles : MakeAdmin(r)
    /\ callRow' = IF about \in Teams \ teams' THEN None ELSE callRow
    /\ UNCHANGED <<about, discord, has, cached, req, made, requests, ghosts>>
----
(* RemoveMember *)

Serving(h, at) == req[h] # Idle /\ req[h].at = at
Goto(h, at) == req' = [req EXCEPT ![h] = Removal(@.who, at, @.ok, @.role)]
OutsideUntouched == UNCHANGED <<about, teams, panelTeams, has, discord, cached, made, requests, ghosts>>

\* Another removal is at the same on-call role: two users' removals do not meet.
Meets(x) == \E g \in Handlers : req[g] # Idle /\ (x \in Roles \/ req[g].who \in {x} \union Roles)

Begin(h, x, at) ==
    /\ req[h] = Idle /\ requests < MaxRequests
    /\ req' = [req EXCEPT ![h] = Removal(x, at, TRUE, IF about \in Teams THEN callRow ELSE None)]
    /\ raced' = (raced \/ Meets(x))
    /\ requests' = requests + 1
    /\ UNCHANGED <<about, tables, callRow, discord, has, cached, off, orphaned, made>>

\* "Only guild owner can remove admins."
BeginRemoveDefaultMember(h, x, asker) ==
    /\ about = "default"
    /\ perm[x] = "admin" => asker = Owner
    /\ Begin(h, x, "row")

\* The team is read once, with its on-call role.
BeginRemoveTeamMember(h, x) ==
    /\ about \in teams
    /\ Begin(h, x, "row")

Done(h) ==
    /\ off' = IF ~req[h].ok THEN off
              ELSE off \union (IF req[h].who \in Users THEN {req[h].who} ELSE Users)
    /\ req' = [req EXCEPT ![h] = Idle]
    /\ UNCHANGED <<orphaned, raced>>

\* A team's on-call role is known by now; that of the default team is read next.
RemoveSupport(h) ==
    LET x == req[h].who IN
    /\ Serving(h, "row")
    /\ \/ about = "default" /\ perm' = [perm EXCEPT ![x] = "none"] /\ UNCHANGED members
       \/ about \in Teams /\ members' = members \ {<<about, x>>} /\ UNCHANGED perm
    /\ Goto(h, IF about = "default" THEN "metadata" ELSE "role")
    /\ OutsideUntouched /\ UNCHANGED callRow

GetMetadata(h) ==
    /\ Serving(h, "metadata")
    /\ req' = [req EXCEPT ![h] = Removal(@.who, "role", @.ok, callRow)]
    /\ OutsideUntouched /\ UNCHANGED <<perm, members, callRow>>

NoCallRole(h) ==
    /\ Serving(h, "role") /\ req[h].role = None
    /\ Done(h)
    /\ UNCHANGED <<about, tables, callRow, discord, has, cached, made, requests>>

\* The member is looked up: an entry of the cache may be out of date, without one
\* Discord answers and is remembered, and a call that fails gives a member without
\* roles.
Found(u, roles) ==
    /\ roles \in {MemberRoles(u)} \union (IF cached[u] = None THEN {{}} ELSE {})
    /\ cached' = [cached EXCEPT ![u] = IF @ = None /\ roles = has[u] THEN roles ELSE @]

\* A plausible bug: a team takes the role only from a member who is seen to have it.
TakesRoleIfSeen(roles, role) == role \in roles

\* The default team takes the role from a member who is seen to have it, another
\* team from anybody.
TakesRole(roles, role) == about \in Teams \/ role \in roles

\* Discord may refuse to take it, which is ignored; `ok` excuses that, and a default
\* team whose member is not seen to have the role.
TakeCallRole(h) ==
    LET u == req[h].who
        role == req[h].role
    IN
    /\ Serving(h, "role") /\ u \in Users /\ role # None
    /\ \E roles \in SUBSET (Roles \union CallRoles), done \in BOOLEAN :
         /\ Found(u, roles)
         /\ has' = IF done /\ TakesRole(roles, role) THEN [has EXCEPT ![u] = @ \ {role}] ELSE has
         /\ LET ok == done /\ (about = "default" => role \in roles \/ role \notin has[u])
            IN  req' = [req EXCEPT ![h] = Removal(u, "answer", ok, role)]
    /\ UNCHANGED <<about, tables, callRow, discord, made, requests, ghosts>>

Answer(h) ==
    /\ Serving(h, "answer")
    /\ Done(h)
    /\ UNCHANGED <<about, tables, callRow, discord, has, cached, made, requests>>
----
(* A role leaves: the on-call role is made anew *)

ForgetCallRole(h) ==
    /\ Serving(h, "role") /\ req[h].who \in Roles /\ req[h].role # None
    /\ callRow' = IF Followed THEN None ELSE callRow
    /\ Goto(h, "delete")
    /\ OutsideUntouched /\ UNCHANGED <<perm, members>>

\* A plausible bug: the old role stays on Discord.
DeleteGuildRoleNot(h) ==
    /\ Serving(h, "delete")
    /\ Goto(h, "create")
    /\ UNCHANGED <<about, tables, callRow, discord, has, cached, made, requests, ghosts>>

\* Without its role nobody is on call.  A role that is unknown is as good as deleted.
DeleteGuildRole(h) ==
    LET role == req[h].role IN
    /\ Serving(h, "delete")
    /\ discord' = discord \ {role}
    /\ has' = [u \in Users |-> has[u] \ {role}]
    /\ Goto(h, "create")
    /\ UNCHANGED <<about, tables, callRow, cached, made, requests, ghosts>>

CreateGuildRole(h) ==
    /\ Serving(h, "create") /\ made < MaxCallRoles
    /\ made' = made + 1
    /\ discord' = discord \union {made'}
    /\ req' = [req EXCEPT ![h] = Removal(@.who, "name", @.ok, made')]
    /\ UNCHANGED <<about, tables, callRow, has, cached, requests, ghosts>>

SetOnCallRole(h) ==
    /\ Serving(h, "name")
    /\ callRow' = IF Followed THEN req[h].role ELSE callRow
    /\ Goto(h, "answer")
    /\ OutsideUntouched /\ UNCHANGED <<perm, members>>

\* A call fails, or the process ends: what was done stays done.
Fail(h) ==
    /\ req[h] # Idle
    /\ orphaned' = (orphaned \/ req[h].at \in {"delete", "create", "name"})
    /\ req' = [req EXCEPT ![h] = Idle]
    /\ UNCHANGED <<about, tables, callRow, discord, has, cached, off, raced, made, requests>>
----
(* The bot and Discord *)

BelongsTo(u, g) ==
    IF g = "default" THEN \E x \in {u} \union (has[u] \intersect Roles) : perm[x] # "none"
                     ELSE \E x \in {u} \union (has[u] \intersect Roles) : <<g, x>> \in members

\* A member goes on call; the first of them makes the role.
GoOnCall(u) ==
    /\ about # "listing" /\ Followed /\ BelongsTo(u, about)
    /\ IF callRow = None
       THEN /\ made < MaxCallRoles
            /\ made' = made + 1 /\ callRow' = made' /\ discord' = discord \union {made'}
       ELSE /\ callRow \in discord
            /\ UNCHANGED <<made, callRow, discord>>
    /\ has' = [has EXCEPT ![u] = @ \union {callRow'}]
    /\ off' = off \ {u}
    /\ raced' = (raced \/ \E h \in Handlers : req[h] # Idle /\ req[h].who \in {u} \union Roles)
    /\ UNCHANGED <<about, tables, cached, req, orphaned, requests>>

\* The member cache hears of the roles of a member, or drops the member.
CacheMember(u) ==
    /\ about # "listing"
    /\ \E roles \in {has[u], None} : cached' = [cached EXCEPT ![u] = roles]
    /\ cached' # cached
    /\ UNCHANGED <<about, tables, callRow, discord, has, req, made, requests, ghosts>>
----
RemoveMember(h) ==
    \/ \E x \in Staff \union Roles :
         BeginRemoveTeamMember(h, x) \/ \E asker \in Users : BeginRemoveDefaultMember(h, x, asker)
    \/ RemoveSupport(h) \/ GetMetadata(h) \/ NoCallRole(h) \/ TakeCallRole(h) \/ Answer(h)
    \/ ForgetCallRole(h) \/ DeleteGuildRole(h) \/ CreateGuildRole(h) \/ SetOnCallRole(h)
    \/ Fail(h)

TeamsNext ==
    \/ \E h \in Handlers : RemoveMember(h)
    \/ ChangeRows
    \/ \E u \in Staff : GoOnCall(u) \/ CacheMember(u)

TeamsTypeOK ==
    /\ teams \subseteq Teams
    /\ perm \in [Users \union Roles -> Levels]
    /\ members \subseteq teams \X (Users \union Roles)
    /\ panelTeams \in [Panels -> SUBSET teams]
    /\ callRow \in {None} \union (1 .. made)
    /\ discord \subseteq 1 .. made
    /\ \A u \in Users : /\ has[u] \subseteq Roles \union discord
                        /\ cached[u] = None \/ cached[u] \subseteq Roles \union (1 .. made)

\* The on-call roles that Discord has and no row names are nobody's to delete: there
\* are none while no removal is at work, unless one ended half way, or somebody went
\* on call beside a role's removal, or two removals met.
CallRolesAreNamed ==
    (\A h \in Handlers : req[h] = Idle) /\ Followed /\ ~orphaned /\ ~raced =>
        discord \subseteq {callRow}

\* Who is taken off a team is off call: a user who was removed, or who was a member
\* when a role was removed, holds no on-call role of the team until they go on call
\* anew.  A team sees to that however stale the member cache is; the default team
\* does when the cache shows the role; refusals of Discord are ignored by both.
RemovedMembersAreOffCall ==
    Followed /\ ~orphaned /\ ~raced => \A u \in off : has[u] \intersect CallRoles = {}
====
